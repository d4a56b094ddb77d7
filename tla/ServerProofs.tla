---------------------------- MODULE ServerProofs ----------------------------
(***************************************************************************)
(* What the server does in the background and on behalf of several callers *)
(* at once: the theorems of Backups and OAuthRefresh, for every value of   *)
(* their constants.                                                        *)
(***************************************************************************)
EXTENDS Backups, OAuthRefresh, FiniteSetTheorems, TLAPS

(***************************************************************************)
(* Backups: capacity, the mirror and the restore guard, for any number of  *)
(* callers and archives. The invariant ties capacityMu to the steps        *)
(* between Lock and Unlock, says that there is room for the archive about  *)
(* to be written, and that a key's reference count is the number of        *)
(* restores that reserved it.                                              *)
(***************************************************************************)

\* The requests that can be under way: which steps an operation goes through.
LegalRequests ==
  {Nobody}
  \cup [op : {"create", "upload"}, key : BackupKeys, pc : {"lock", "check", "write", "mirror"}]
  \cup [op : {"delete"}, key : BackupKeys, pc : {"guard", "lock", "local", "remote"}]
  \cup [op : {"restore"}, key : BackupKeys, pc : {"reserve", "exists", "fetch", "committed"}]
  \cup [op : {"sync"}, key : BackupKeys, pc : {"exists", "fetch"}]

\* Data on disk and in the remote storage.
CopiesInv ==
  /\ local \in [BackupKeys -> {"none", "archive"}]
  /\ remote \in [BackupKeys -> Forms \cup {"none"}]
  /\ config \in Settings /\ outOfBand \in BOOLEAN
  /\ activeBackup \in BackupKeys \cup {NoKey}

\* A request between its Lock and its Unlock holds capacityMu.
MutexInv ==
  /\ requests \in [Callers \cup {Cron} -> LegalRequests]
  /\ capacityMu \in Callers \cup {Free} /\ requests[Cron].op # "restore"
  /\ \A c \in Callers :
       requests[c].pc \in {"check", "write", "mirror", "local", "remote"} => capacityMu = c

\* There is room for the archive that is about to be written.
RoomInv ==
  ~outOfBand =>
    /\ requests[Cron] = Nobody
    /\ Cardinality(Listed) <= MaxCount
    /\ \A c \in Callers : requests[c].pc = "write" => Cardinality(Listed) < MaxCount

\* A request that has reserved a key.
Reserves(r, k) == r.op = "restore" /\ r.key = k /\ r.pc # "reserve"

CountInv ==
  /\ pendingRestoreKeys \in [BackupKeys -> Int]
  /\ \A k \in BackupKeys :
       pendingRestoreKeys[k] = Cardinality({c \in Callers : Reserves(requests[c], k)})

BackupsInv == CopiesInv /\ MutexInv /\ RoomInv /\ CountInv

\* What is listed is finite, and one more archive makes it larger by one at most.
LEMMA ListedSize ==
  ASSUME NEW S \in SUBSET BackupKeys
  PROVE  /\ IsFiniteSet(S) /\ Cardinality(S) \in Nat
         /\ \A T \in SUBSET S : Cardinality(T) <= Cardinality(S) /\ Cardinality(T) \in Nat
         /\ \A k \in BackupKeys : Cardinality(S \cup {k}) <= Cardinality(S) + 1
<1>1. IsFiniteSet(S)
  BY BackupsAssumption, FS_Subset, Zenon
<1>2. Cardinality(S) \in Nat
  BY <1>1, FS_CardinalityType, Zenon
<1>3. ASSUME NEW T \in SUBSET S PROVE Cardinality(T) <= Cardinality(S) /\ Cardinality(T) \in Nat
  BY <1>1, FS_Subset, FS_CardinalityType, Zenon
<1>4. ASSUME NEW k \in BackupKeys PROVE Cardinality(S \cup {k}) <= Cardinality(S) + 1
  BY <1>1, <1>2, FS_AddElement
<1> QED BY <1>1, <1>2, <1>3, <1>4, Zenon

\* Go changes the step of a request and nothing else.
LEMMA GoRow ==
  ASSUME NEW c \in Callers \cup {Cron}, requests \in [Callers \cup {Cron} -> LegalRequests],
         NEW pc, Go(c, pc)
  PROVE  requests' = [requests EXCEPT ![c] = [op |-> requests[c].op, key |-> requests[c].key, pc |-> pc]]
<1>1. requests[c] \in LegalRequests
  BY Zenon
<1>2. requests' = [requests EXCEPT ![c] = [requests[c] EXCEPT !.pc = pc]]
  BY Zenon DEF Go
<1>3. ASSUME NEW r \in LegalRequests PROVE [r EXCEPT !.pc = pc] = [op |-> r.op, key |-> r.key, pc |-> pc]
  BY <1>3 DEF LegalRequests, Nobody
<1> QED BY <1>1, <1>2, <1>3, Zenon

\* What a request's step does to capacityMu.
LEMMA MutexStep ==
  ASSUME MutexInv, NEW c \in Callers \cup {Cron}, NEW r \in LegalRequests,
         requests' = [requests EXCEPT ![c] = r],
         \/ capacityMu' = capacityMu
         \/ capacityMu = c /\ capacityMu' = Free
         \/ capacityMu = Free /\ capacityMu' = c,
         c \in Callers /\ r.pc \in {"check", "write", "mirror", "local", "remote"} => capacityMu' = c,
         c = Cron => r.op # "restore"
  PROVE  MutexInv'
<1>1. requests' \in [Callers \cup {Cron} -> LegalRequests]
  BY Zenon DEF MutexInv
<1>2. capacityMu' \in Callers \cup {Free}
  BY Zenon DEF MutexInv, Free
<1>3. ASSUME NEW q \in Callers, requests'[q].pc \in {"check", "write", "mirror", "local", "remote"}
      PROVE  capacityMu' = q
  <2>1. CASE q = c
    BY <1>3, <2>1, Zenon DEF MutexInv
  <2>2. CASE q # c
    <3>1. requests'[q] = requests[q]
      BY <2>2, Zenon DEF MutexInv
    <3>2. capacityMu = q
      BY <1>3, <3>1, Zenon DEF MutexInv
    <3>3. q # Free
      BY BackupsAssumption, Zenon DEF Free
    <3> QED BY <2>2, <3>2, <3>3, Zenon
  <2> QED BY <2>1, <2>2, Zenon
<1>4. requests'[Cron].op # "restore"
  BY Zenon DEF MutexInv
<1> QED BY <1>1, <1>2, <1>3, <1>4, Zenon DEF MutexInv

\* A step that lists nothing new, and enters no "write", keeps the capacity.
LEMMA RoomStep ==
  ASSUME RoomInv, MutexInv, NEW c \in Callers \cup {Cron}, NEW r \in LegalRequests,
         requests' = [requests EXCEPT ![c] = r], outOfBand' = outOfBand,
         Listed' \in SUBSET Listed, r.pc # "write", c = Cron => r = Nobody \/ outOfBand
  PROVE  RoomInv'
<1> SUFFICES ASSUME ~outOfBand
             PROVE  /\ requests'[Cron] = Nobody
                    /\ Cardinality(Listed') <= MaxCount
                    /\ \A q \in Callers : requests'[q].pc = "write" => Cardinality(Listed') < MaxCount
  BY Zenon DEF RoomInv
<1>1. requests'[Cron] = Nobody
  BY Zenon DEF RoomInv, MutexInv
<1>2. /\ Cardinality(Listed') <= Cardinality(Listed)
      /\ Cardinality(Listed) \in Nat /\ Cardinality(Listed') \in Nat
  <2>1. Listed \in SUBSET BackupKeys
    BY Zenon DEF Listed
  <2> QED BY <2>1, ListedSize, Zenon
<1>3. ASSUME NEW q \in Callers, requests'[q].pc = "write" PROVE requests[q].pc = "write"
  BY <1>3, Zenon DEF MutexInv
<1>4. MaxCount \in Nat
  BY BackupsAssumption, Zenon
<1>5. Cardinality(Listed) <= MaxCount
  BY Zenon DEF RoomInv
<1>6. ASSUME NEW q \in Callers, requests'[q].pc = "write" PROVE Cardinality(Listed) < MaxCount
  BY <1>3, <1>6, Zenon DEF RoomInv
<1> QED BY <1>1, <1>2, <1>4, <1>5, <1>6

\* The count of the reservations when a request takes, drops or keeps one.
LEMMA CountStep ==
  ASSUME CountInv, MutexInv, NEW c \in Callers \cup {Cron}, NEW r \in LegalRequests,
         requests' = [requests EXCEPT ![c] = r], c = Cron => r.op # "restore",
         \/ /\ pendingRestoreKeys' = pendingRestoreKeys
            /\ \A k \in BackupKeys : Reserves(r, k) <=> Reserves(requests[c], k)
         \/ \E key \in BackupKeys :
              /\ \A k \in BackupKeys : ~Reserves(requests[c], k) /\ (Reserves(r, k) <=> k = key)
              /\ pendingRestoreKeys' = [pendingRestoreKeys EXCEPT ![key] = pendingRestoreKeys[key] + 1]
         \/ \E key \in BackupKeys :
              /\ \A k \in BackupKeys : ~Reserves(r, k) /\ (Reserves(requests[c], k) <=> k = key)
              /\ pendingRestoreKeys' = [pendingRestoreKeys EXCEPT ![key] = pendingRestoreKeys[key] - 1]
  PROVE  CountInv'
<1> DEFINE Of(k) == {q \in Callers : Reserves(requests[q], k)}
           New(k) == {q \in Callers : Reserves(requests'[q], k)}
<1>1. ASSUME NEW k \in BackupKeys PROVE IsFiniteSet(Of(k)) /\ Cardinality(Of(k)) \in Nat
  <2>1. Of(k) \subseteq Callers
    BY Zenon
  <2> HIDE DEF Of
  <2> QED BY <2>1, BackupsAssumption, FS_Subset, FS_CardinalityType, Zenon
<1>2. /\ requests'[c] = r
      /\ \A q \in Callers \cup {Cron} : q # c => requests'[q] = requests[q]
  BY Zenon DEF MutexInv
<1>3. ASSUME NEW k \in BackupKeys, Reserves(r, k) <=> Reserves(requests[c], k) PROVE New(k) = Of(k)
  BY <1>2, <1>3, Zenon
<1>4. ASSUME NEW k \in BackupKeys, Reserves(r, k), ~Reserves(requests[c], k)
      PROVE  c \in Callers /\ c \notin Of(k) /\ New(k) = Of(k) \cup {c}
  BY <1>2, <1>4 DEF Reserves
<1>5. ASSUME NEW k \in BackupKeys, ~Reserves(r, k), Reserves(requests[c], k)
      PROVE  c \in Of(k) /\ New(k) = Of(k) \ {c}
  BY <1>2, <1>5, Zenon DEF Reserves, MutexInv
<1> HIDE DEF Of, New
<1>6. /\ pendingRestoreKeys \in [BackupKeys -> Int]
      /\ \A k \in BackupKeys : pendingRestoreKeys[k] = Cardinality(Of(k))
  BY Zenon DEF CountInv, Of
<1>7. ASSUME NEW k \in BackupKeys PROVE pendingRestoreKeys'[k] = Cardinality(New(k))
  <2>1. CASE /\ pendingRestoreKeys' = pendingRestoreKeys
             /\ \A j \in BackupKeys : Reserves(r, j) <=> Reserves(requests[c], j)
    BY <1>3, <1>6, <2>1, Zenon
  <2>2. ASSUME NEW key \in BackupKeys,
               \A j \in BackupKeys : ~Reserves(requests[c], j) /\ (Reserves(r, j) <=> j = key),
               pendingRestoreKeys' = [pendingRestoreKeys EXCEPT ![key] = pendingRestoreKeys[key] + 1]
        PROVE  pendingRestoreKeys'[k] = Cardinality(New(k))
    <3>1. CASE k = key
      <4>1. c \notin Of(k) /\ New(k) = Of(k) \cup {c}
        BY <1>4, <2>2, <3>1, Zenon
      <4>2. Cardinality(New(k)) = Cardinality(Of(k)) + 1
        BY <1>1, <4>1, FS_AddElement, Zenon
      <4> QED BY <1>6, <2>2, <3>1, <4>2, Zenon
    <3>2. CASE k # key
      BY <1>3, <1>6, <2>2, <3>2, Zenon
    <3> QED BY <3>1, <3>2, Zenon
  <2>3. ASSUME NEW key \in BackupKeys,
               \A j \in BackupKeys : ~Reserves(r, j) /\ (Reserves(requests[c], j) <=> j = key),
               pendingRestoreKeys' = [pendingRestoreKeys EXCEPT ![key] = pendingRestoreKeys[key] - 1]
        PROVE  pendingRestoreKeys'[k] = Cardinality(New(k))
    <3>1. CASE k = key
      <4>1. c \in Of(k) /\ New(k) = Of(k) \ {c}
        BY <1>5, <2>3, <3>1, Zenon
      <4>2. Cardinality(New(k)) = Cardinality(Of(k)) - 1
        BY <1>1, <4>1, FS_RemoveElement, Zenon
      <4> QED BY <1>6, <2>3, <3>1, <4>2, Zenon
    <3>2. CASE k # key
      BY <1>3, <1>6, <2>3, <3>2, Zenon
    <3> QED BY <3>1, <3>2, Zenon
  <2> QED BY <2>1, <2>2, <2>3, Zenon
<1>8. pendingRestoreKeys' \in [BackupKeys -> Int]
  BY <1>6
<1> QED BY <1>7, <1>8, Zenon DEF CountInv, New

\* A step of a request that touches no reservation.
LEMMA PlainStep ==
  ASSUME BackupsInv, NEW c \in Callers \cup {Cron}, NEW r \in LegalRequests,
         requests' = [requests EXCEPT ![c] = r], pendingRestoreKeys' = pendingRestoreKeys,
         \/ capacityMu' = capacityMu
         \/ capacityMu = c /\ capacityMu' = Free
         \/ capacityMu = Free /\ capacityMu' = c,
         c \in Callers /\ r.pc \in {"check", "write", "mirror", "local", "remote"} => capacityMu' = c,
         c = Cron => r.op # "restore",
         \A k \in BackupKeys : Reserves(r, k) <=> Reserves(requests[c], k),
         CopiesInv', RoomInv'
  PROVE  BackupsInv'
BY MutexStep, CountStep, Zenon DEF BackupsInv

\* A step that leaves the copies alone.
LEMMA QuietCopies ==
  ASSUME CopiesInv, UNCHANGED <<local, remote, config, activeBackup, outOfBand>>
  PROVE  CopiesInv' /\ Listed' \in SUBSET Listed /\ Listed' = Listed
BY Zenon DEF CopiesInv, Listed, Held

\* A request arrives, or waits for capacityMu, or is refused.
LEMMA RequestStep ==
  ASSUME BackupsInv, NEW c \in Callers, NEW op \in Ops, NEW k \in BackupKeys, Request(c, op, k)
  PROVE  BackupsInv'
<1> DEFINE r == [op |-> op, key |-> k, pc |-> FirstStep[op]]
<1>1. requests[c] = Nobody /\ requests' = [requests EXCEPT ![c] = r]
      /\ UNCHANGED <<local, remote, config, capacityMu, pendingRestoreKeys, activeBackup, outOfBand>>
  BY Zenon DEF Request
<1>2. /\ r \in LegalRequests /\ r.pc \in {"lock", "guard", "reserve", "exists"}
      /\ r.op = "restore" => r.pc = "reserve"
  BY DEF Ops, FirstStep, LegalRequests
<1>3. CopiesInv' /\ Listed' \in SUBSET Listed
  BY <1>1, QuietCopies, Zenon DEF BackupsInv
<1>4. c # Cron
  BY BackupsAssumption, Zenon
<1>5. \A j \in BackupKeys : ~Reserves(r, j) /\ ~Reserves(requests[c], j)
  BY <1>1, <1>2 DEF Reserves, Nobody
<1> HIDE DEF r
<1>6. RoomInv'
  BY <1>1, <1>2, <1>3, <1>4, RoomStep, Zenon DEF BackupsInv
<1> QED BY <1>1, <1>2, <1>3, <1>4, <1>5, <1>6, PlainStep, Zenon

\* The cron's backup starts.
LEMMA CronStep ==
  ASSUME BackupsInv, NEW k \in BackupKeys, CronBackup(k)
  PROVE  BackupsInv'
<1> DEFINE r == [op |-> "create", key |-> k, pc |-> "write"]
<1>1. requests[Cron] = Nobody /\ requests' = [requests EXCEPT ![Cron] = r] /\ outOfBand' = TRUE
      /\ UNCHANGED <<local, remote, config, capacityMu, pendingRestoreKeys, activeBackup>>
  BY Zenon DEF CronBackup
<1>2. r \in LegalRequests /\ r.op = "create"
  BY Zenon DEF LegalRequests
<1>3. CopiesInv' /\ RoomInv'
  BY <1>1, Zenon DEF BackupsInv, CopiesInv, RoomInv
<1>4. Cron \notin Callers
  BY BackupsAssumption, Zenon
<1>5. \A j \in BackupKeys : ~Reserves(r, j) /\ ~Reserves(requests[Cron], j)
  BY <1>1, <1>2 DEF Reserves, Nobody
<1> HIDE DEF r
<1> QED BY <1>1, <1>2, <1>3, <1>4, <1>5, PlainStep, Zenon

\* capacityMu is taken, or the capacity is checked.
LEMMA CheckStep ==
  ASSUME BackupsInv, NEW c \in Callers, Lock(c) \/ CheckCapacity(c) \/ DeleteGuard(c)
  PROVE  BackupsInv'
<1> DEFINE old == requests[c]
<1>1. old \in LegalRequests /\ requests \in [Callers \cup {Cron} -> LegalRequests] /\ c # Cron
  BY BackupsAssumption, Zenon DEF BackupsInv, MutexInv
<1>2. UNCHANGED <<local, remote, config, pendingRestoreKeys, activeBackup, outOfBand>>
  BY Zenon DEF Lock, CheckCapacity, DeleteGuard
<1>3. CopiesInv' /\ Listed' \in SUBSET Listed /\ Listed' = Listed
  BY <1>2, QuietCopies, Zenon DEF BackupsInv
<1>4. old.pc \in {"lock", "check", "guard"}
  BY Zenon DEF Lock, CheckCapacity, DeleteGuard, At
<1>5. old.op # "restore" /\ old.op \in Ops /\ old.key \in BackupKeys
      /\ (old.pc = "check" => old.op \in {"create", "upload"})
      /\ (old.pc = "guard" => old.op = "delete")
      /\ (old.pc = "lock" => old.op \in {"create", "upload", "delete"})
  BY <1>1, <1>4 DEF LegalRequests, Nobody, Ops
<1>6. ASSUME NEW pc, Go(c, pc)
      PROVE  requests' = [requests EXCEPT ![c] = [op |-> old.op, key |-> old.key, pc |-> pc]]
  BY <1>1, <1>6, GoRow, Zenon
<1>7. Nobody \in LegalRequests /\ Nobody.pc = "idle" /\ Nobody.op = "none"
  BY Zenon DEF LegalRequests, Nobody
<1>8. old.pc = "check" => capacityMu = c
  BY Zenon DEF BackupsInv, MutexInv
<1> HIDE DEF old
<1>9. ASSUME NEW r \in LegalRequests, requests' = [requests EXCEPT ![c] = r], r.op # "restore",
             \/ capacityMu' = capacityMu
             \/ capacityMu = c /\ capacityMu' = Free
             \/ capacityMu = Free /\ capacityMu' = c,
             r.pc \in {"check", "write", "mirror", "local", "remote"} => capacityMu' = c,
             r.pc = "write" => Cardinality(Listed) < MaxCount
      PROVE  BackupsInv'
  <2>1. \A k \in BackupKeys : ~Reserves(r, k) /\ ~Reserves(requests[c], k)
    BY <1>5, <1>9, Zenon DEF Reserves, old
  <2>2. RoomInv'
    <3>1. CASE r.pc # "write"
      BY <1>1, <1>2, <1>3, <1>9, <3>1, RoomStep, Zenon DEF BackupsInv
    <3>2. CASE Cardinality(Listed) < MaxCount
      BY <1>1, <1>2, <1>3, <1>9, <3>2, Zenon DEF RoomInv, BackupsInv
    <3> QED BY <1>9, <3>1, <3>2, Zenon
  <2> QED BY <1>1, <1>2, <1>3, <1>9, <2>1, <2>2, PlainStep, Zenon
<1>10. CASE Finish(c) /\ (Unlock(c) \/ UNCHANGED capacityMu)
  BY <1>7, <1>9, <1>10, Zenon DEF Finish, Unlock
<1>11. CASE Lock(c)
  <2>1. PICK pc : Go(c, pc) /\ pc = (IF old.op = "delete" THEN "local" ELSE "check")
    BY <1>11, Zenon DEF Lock, old
  <2>2. [op |-> old.op, key |-> old.key, pc |-> pc] \in LegalRequests
    <3>1. old.pc = "lock"
      BY <1>11, Zenon DEF Lock, old
    <3> QED BY <1>5, <2>1, <3>1, Zenon DEF LegalRequests
  <2>3. capacityMu = Free /\ capacityMu' = c /\ pc # "write"
    BY <1>11, <2>1, Zenon DEF Lock
  <2>4. requests' = [requests EXCEPT ![c] = [op |-> old.op, key |-> old.key, pc |-> pc]]
    BY <1>6, <2>1, Zenon
  <2> QED BY <1>5, <1>9, <2>2, <2>3, <2>4, Zenon
<1>12. CASE CheckCapacity(c) /\ ~Finish(c)
  <2>1. Go(c, "write") /\ Cardinality(Listed) < MaxCount /\ UNCHANGED capacityMu /\ old.pc = "check"
    BY <1>12, Zenon DEF CheckCapacity, old
  <2>2. [op |-> old.op, key |-> old.key, pc |-> "write"] \in LegalRequests
    BY <1>5, <2>1, Zenon DEF LegalRequests
  <2>3. requests' = [requests EXCEPT ![c] = [op |-> old.op, key |-> old.key, pc |-> "write"]]
    BY <1>6, <2>1, Zenon
  <2> QED BY <1>5, <1>8, <1>9, <2>1, <2>2, <2>3, Zenon
<1>13. CASE DeleteGuard(c) /\ ~Finish(c)
  <2>1. Go(c, "lock") /\ UNCHANGED capacityMu /\ old.pc = "guard"
    BY <1>13, Zenon DEF DeleteGuard, old, At
  <2>2. [op |-> old.op, key |-> old.key, pc |-> "lock"] \in LegalRequests
    BY <1>5, <2>1, Zenon DEF LegalRequests
  <2>3. requests' = [requests EXCEPT ![c] = [op |-> old.op, key |-> old.key, pc |-> "lock"]]
    BY <1>6, <2>1, Zenon
  <2> QED BY <1>5, <1>9, <2>1, <2>2, <2>3, Zenon
<1>14. ASSUME CheckCapacity(c) \/ DeleteGuard(c), Finish(c) PROVE Unlock(c) \/ UNCHANGED capacityMu
  BY <1>14, Zenon DEF CheckCapacity, DeleteGuard
<1> QED BY <1>10, <1>11, <1>12, <1>13, <1>14, Zenon

\* An archive is written and mirrored: only the holder of capacityMu, or the
\* cron, lists something new.
LEMMA WriteStep ==
  ASSUME BackupsInv, NEW c \in Callers \cup {Cron}, Write(c)
  PROVE  BackupsInv'
<1> DEFINE old == requests[c]
<1>1. old \in LegalRequests /\ requests \in [Callers \cup {Cron} -> LegalRequests] /\ old.pc = "write"
  BY Zenon DEF BackupsInv, MutexInv, Write
<1>2. old.op \in {"create", "upload"} /\ old.key \in BackupKeys
  BY <1>1 DEF LegalRequests, Nobody
<1>3. UNCHANGED <<remote, config, pendingRestoreKeys, outOfBand>>
  BY Zenon DEF Write
<1>4. c \in Callers => capacityMu = c
  BY <1>1, Zenon DEF BackupsInv, MutexInv
<1>5. CASE Finish(c) /\ Unlock(c) /\ UNCHANGED <<local, activeBackup>>
  <2>1. CopiesInv' /\ Listed' \in SUBSET Listed
    BY <1>3, <1>5, QuietCopies, Zenon DEF BackupsInv
  <2>2. Nobody \in LegalRequests /\ Nobody.pc = "idle" /\ Nobody.op = "none"
    BY Zenon DEF LegalRequests, Nobody
  <2>3. \A k \in BackupKeys : ~Reserves(Nobody, k) /\ ~Reserves(requests[c], k)
    BY <1>2, <2>2, Zenon DEF Reserves
  <2>4. RoomInv'
    BY <1>3, <1>5, <2>1, <2>2, RoomStep, Zenon DEF BackupsInv, Finish
  <2> QED BY <1>3, <1>5, <2>1, <2>2, <2>3, <2>4, PlainStep, Zenon DEF Finish, Unlock
<1>6. CASE /\ local' = [local EXCEPT ![KeyOf(c)] = "archive"] /\ Go(c, "mirror") /\ UNCHANGED capacityMu
           /\ activeBackup' = IF requests[c].op = "create" THEN KeyOf(c) ELSE activeBackup
  <2> DEFINE r == [op |-> old.op, key |-> old.key, pc |-> "mirror"]
  <2>1. requests' = [requests EXCEPT ![c] = r]
    BY <1>1, <1>6, GoRow, Zenon
  <2>2. r \in LegalRequests /\ r.op # "restore" /\ r.pc = "mirror"
    BY <1>2, Zenon DEF LegalRequests
  <2>3. \A k \in BackupKeys : ~Reserves(r, k) /\ ~Reserves(requests[c], k)
    BY <1>2, <2>2, Zenon DEF Reserves
  <2>4. CopiesInv'
    BY <1>2, <1>3, <1>6, Zenon DEF CopiesInv, BackupsInv, KeyOf
  <2>5. Listed' \in SUBSET (Listed \cup {old.key})
    BY <1>2, <1>3, <1>6, Zenon DEF Listed, Held, BackupsInv, CopiesInv, KeyOf
  <2> HIDE DEF r
  <2>6. ASSUME ~outOfBand
        PROVE  /\ requests'[Cron] = Nobody
               /\ Cardinality(Listed') <= MaxCount
               /\ \A q \in Callers : requests'[q].pc # "write"
    <3>1. requests[Cron] = Nobody
      BY <2>6, Zenon DEF BackupsInv, RoomInv
    <3>2. c # Cron
      BY <1>1, <3>1 DEF Nobody
    <3>3. Cardinality(Listed) < MaxCount
      BY <1>1, <2>6, <3>2, Zenon DEF BackupsInv, RoomInv
    <3>4. Listed \in SUBSET BackupKeys
      BY Zenon DEF Listed
    <3>5. Cardinality(Listed \cup {old.key}) <= Cardinality(Listed) + 1 /\ Cardinality(Listed) \in Nat
      BY <1>2, <3>4, ListedSize, Zenon
    <3>6. Listed \cup {old.key} \in SUBSET BackupKeys
      BY <1>2, <3>4, Zenon
    <3>7. Cardinality(Listed') <= Cardinality(Listed \cup {old.key})
          /\ Cardinality(Listed') \in Nat /\ Cardinality(Listed \cup {old.key}) \in Nat
      BY <2>5, <3>6, ListedSize, Zenon
    <3>8. Cardinality(Listed') <= MaxCount
      BY <3>3, <3>5, <3>7, BackupsAssumption
    <3>9. ASSUME NEW q \in Callers, requests'[q].pc = "write" PROVE FALSE
      <4>1. q # c
        BY <1>1, <2>1, <2>2, <3>9, Zenon
      <4>2. requests[q].pc = "write"
        BY <1>1, <2>1, <3>9, <4>1, Zenon
      <4>3. capacityMu = q
        BY <4>2, Zenon DEF BackupsInv, MutexInv
      <4> QED BY <1>4, <3>2, <4>1, <4>3, Zenon
    <3>10. requests'[Cron] = Nobody
      BY <1>1, <2>1, <3>1, <3>2, Zenon
    <3> QED BY <3>8, <3>9, <3>10, Zenon
  <2>7. RoomInv'
    BY <1>3, <2>6, Zenon DEF RoomInv
  <2> QED BY <1>3, <1>4, <1>6, <2>1, <2>2, <2>3, <2>4, <2>7, PlainStep, Zenon
<1> QED BY <1>5, <1>6, Zenon DEF Write

\* A step of the holder of capacityMu, or of the cron, that ends its request
\* and lists nothing new.
LEMMA BackupEndStep ==
  ASSUME BackupsInv, NEW c \in Callers \cup {Cron}, Finish(c), Unlock(c) \/ UNCHANGED capacityMu,
         requests[c].op # "restore",
         CopiesInv', Listed' \in SUBSET Listed, UNCHANGED <<pendingRestoreKeys, outOfBand>>
  PROVE  BackupsInv'
<1>1. Nobody \in LegalRequests /\ Nobody.pc = "idle" /\ Nobody.op = "none"
  BY Zenon DEF LegalRequests, Nobody
<1>2. requests' = [requests EXCEPT ![c] = Nobody]
  BY Zenon DEF Finish
<1>3. \A k \in BackupKeys : ~Reserves(Nobody, k) /\ ~Reserves(requests[c], k)
  BY <1>1, Zenon DEF Reserves
<1>4. RoomInv'
  BY <1>1, <1>2, RoomStep, Zenon DEF BackupsInv
<1> QED BY <1>1, <1>2, <1>3, <1>4, PlainStep, Zenon DEF Unlock

\* The mirror is written, or is not.
LEMMA MirrorStep ==
  ASSUME BackupsInv, NEW c \in Callers \cup {Cron}, Mirror(c)
  PROVE  BackupsInv'
<1>1. requests[c] \in LegalRequests /\ requests[c].pc = "mirror"
  BY Zenon DEF BackupsInv, MutexInv, Mirror
<1>2. requests[c].op \in {"create", "upload"} /\ requests[c].key \in BackupKeys
  BY <1>1 DEF LegalRequests, Nobody
<1>3. Form \in Forms
  BY Zenon DEF Form, Forms
<1>4. /\ UNCHANGED <<local, config, pendingRestoreKeys, outOfBand>> /\ Finish(c) /\ Unlock(c)
      /\ activeBackup' = IF requests[c].op = "create" THEN NoKey ELSE activeBackup
      /\ \/ remote' = remote
         \/ config.on /\ Held(KeyOf(c)) /\ remote' = [remote EXCEPT ![KeyOf(c)] = Form]
  BY Zenon DEF Mirror
<1>5. CopiesInv'
  BY <1>2, <1>3, <1>4, Zenon DEF CopiesInv, BackupsInv, KeyOf
<1>6. Listed' \in SUBSET Listed
  BY <1>2, <1>4, Zenon DEF Listed, Held, KeyOf, BackupsInv, CopiesInv
<1> QED BY <1>2, <1>4, <1>5, <1>6, BackupEndStep, Zenon

\* An archive is deleted, on disk and then in the remote storage.
LEMMA DeleteStep ==
  ASSUME BackupsInv, NEW c \in Callers, DeleteLocal(c) \/ DeleteRemote(c)
  PROVE  BackupsInv'
<1>1. /\ requests[c] \in LegalRequests /\ requests \in [Callers \cup {Cron} -> LegalRequests]
      /\ requests[c].op = "delete" /\ requests[c].pc \in {"local", "remote"} /\ c # Cron
  BY BackupsAssumption, Zenon DEF BackupsInv, MutexInv, DeleteLocal, DeleteRemote, At
<1>2. requests[c].key \in BackupKeys /\ capacityMu = c
  BY <1>1 DEF LegalRequests, Nobody, BackupsInv, MutexInv
<1>3. CASE DeleteRemote(c)
  <2>1. /\ UNCHANGED <<local, config, pendingRestoreKeys, activeBackup, outOfBand>> /\ Finish(c) /\ Unlock(c)
        /\ remote' = remote \/ remote' = [remote EXCEPT ![KeyOf(c)] = "none"]
    BY <1>3, Zenon DEF DeleteRemote
  <2>2. CopiesInv' /\ Listed' \in SUBSET Listed
    BY <1>2, <2>1, Zenon DEF CopiesInv, BackupsInv, KeyOf, Listed, Held
  <2> QED BY <1>1, <2>1, <2>2, BackupEndStep, Zenon
<1>4. CASE DeleteLocal(c) /\ UNCHANGED local /\ Finish(c)
  <2>1. UNCHANGED <<local, remote, config, pendingRestoreKeys, activeBackup, outOfBand>>
        /\ (Unlock(c) \/ UNCHANGED capacityMu)
    BY <1>4, Zenon DEF DeleteLocal
  <2>2. CopiesInv' /\ Listed' \in SUBSET Listed
    BY <2>1, QuietCopies, Zenon DEF BackupsInv
  <2> QED BY <1>1, <1>4, <2>1, <2>2, BackupEndStep, Zenon
<1>5. CASE /\ DeleteLocal(c) /\ local' = [local EXCEPT ![KeyOf(c)] = "none"]
           /\ Go(c, "remote") /\ UNCHANGED capacityMu
  <2> DEFINE r == [op |-> requests[c].op, key |-> requests[c].key, pc |-> "remote"]
  <2>1. UNCHANGED <<remote, config, pendingRestoreKeys, activeBackup, outOfBand>>
    BY <1>5, Zenon DEF DeleteLocal
  <2>2. CopiesInv' /\ Listed' \in SUBSET Listed
    BY <1>2, <1>5, <2>1, Zenon DEF CopiesInv, BackupsInv, KeyOf, Listed, Held
  <2>3. requests' = [requests EXCEPT ![c] = r]
    BY <1>1, <1>5, GoRow, Zenon
  <2>4. r \in LegalRequests /\ r.pc = "remote" /\ r.op = "delete"
    BY <1>1, <1>2, Zenon DEF LegalRequests
  <2>5. \A k \in BackupKeys : ~Reserves(r, k) /\ ~Reserves(requests[c], k)
    BY <1>1, <2>4, Zenon DEF Reserves
  <2> HIDE DEF r
  <2>6. RoomInv'
    BY <1>1, <2>1, <2>2, <2>3, <2>4, RoomStep, Zenon DEF BackupsInv
  <2> QED BY <1>1, <1>2, <1>5, <2>1, <2>2, <2>3, <2>4, <2>5, <2>6, PlainStep, Zenon
<1> QED BY <1>3, <1>4, <1>5, Zenon DEF DeleteLocal

\* A restore or a synchronisation steps on: from its reservation to the copy on
\* disk, which it takes as it is or fetches.
LEMMA RestoreStep ==
  ASSUME BackupsInv, NEW c \in Callers, Reserve(c) \/ FindLocal(c) \/ Fetch(c)
  PROVE  BackupsInv'
<1> DEFINE old == requests[c]
<1>1. /\ old \in LegalRequests /\ requests \in [Callers \cup {Cron} -> LegalRequests] /\ c # Cron
      /\ old.pc \in {"reserve", "exists", "fetch"}
  BY BackupsAssumption, Zenon DEF BackupsInv, MutexInv, Reserve, FindLocal, Fetch, At
<1>2. /\ old.op \in {"restore", "sync"} /\ old.key \in BackupKeys
      /\ old.pc = "reserve" => old.op = "restore"
  BY <1>1 DEF LegalRequests, Nobody
<1>3. UNCHANGED <<remote, config, capacityMu, activeBackup, outOfBand>>
  BY Zenon DEF Reserve, FindLocal, Fetch
<1>4. CopiesInv' /\ Listed' \in SUBSET Listed
  <2>1. CASE UNCHANGED local
    BY <1>3, <2>1, QuietCopies, Zenon DEF BackupsInv
  <2>2. CASE Fetch(c) /\ ~UNCHANGED local
    <3>1. /\ config.on /\ remote[old.key] # "none"
          /\ \E content \in Decrypts(remote[old.key]) : local' = [local EXCEPT ![old.key] = content]
      BY <2>2, Zenon DEF Fetch, KeyOf
    <3>2. local' = [local EXCEPT ![old.key] = "archive"]
      BY <3>1, Zenon DEF Decrypts
    <3> QED BY <1>2, <1>3, <3>1, <3>2, Zenon DEF CopiesInv, BackupsInv, Listed, Held
  <2> QED BY <2>1, <2>2, Zenon DEF Reserve, FindLocal
<1>5. Nobody \in LegalRequests /\ Nobody.pc = "idle" /\ Nobody.op = "none"
  BY Zenon DEF LegalRequests, Nobody
<1>6. ASSUME NEW pc, Go(c, pc)
      PROVE  requests' = [requests EXCEPT ![c] = [op |-> old.op, key |-> old.key, pc |-> pc]]
  BY <1>1, <1>6, GoRow, Zenon
<1>7. ASSUME NEW r \in LegalRequests, requests' = [requests EXCEPT ![c] = r],
             r.pc \in {"idle", "exists", "fetch", "committed"}, CountInv'
      PROVE  BackupsInv'
  <2>1. MutexInv'
    BY <1>1, <1>3, <1>7, MutexStep, Zenon DEF BackupsInv
  <2>2. RoomInv'
    BY <1>1, <1>3, <1>4, <1>7, RoomStep, Zenon DEF BackupsInv
  <2> QED BY <1>4, <1>7, <2>1, <2>2, Zenon DEF BackupsInv
<1> HIDE DEF old
<1>8. CountInv /\ MutexInv
  BY Zenon DEF BackupsInv
\* The reservation is made.
<1>9. CASE /\ Reserve(c) /\ Go(c, "exists")
           /\ pendingRestoreKeys' = [pendingRestoreKeys EXCEPT ![KeyOf(c)] = @ + 1]
  <2> DEFINE r == [op |-> old.op, key |-> old.key, pc |-> "exists"]
  <2>1. old.pc = "reserve" /\ old.op = "restore"
    BY <1>9, Zenon DEF Reserve, At, old
  <2>2. r \in LegalRequests /\ r.pc = "exists"
    BY <1>2, Zenon DEF LegalRequests
  <2>3. \A k \in BackupKeys : ~Reserves(requests[c], k) /\ (Reserves(r, k) <=> k = old.key)
    BY <2>1, Zenon DEF Reserves, old
  <2>4. pendingRestoreKeys' = [pendingRestoreKeys EXCEPT ![old.key] = pendingRestoreKeys[old.key] + 1]
    BY <1>9, Zenon DEF KeyOf, old
  <2>5. requests' = [requests EXCEPT ![c] = r]
    BY <1>6, <1>9, Zenon
  <2> HIDE DEF r
  <2>6. CountInv'
    BY <1>1, <1>2, <1>8, <2>2, <2>3, <2>4, <2>5, CountStep, Zenon
  <2> QED BY <1>7, <2>2, <2>5, <2>6, Zenon
\* The request goes on with what it has reserved.
<1>10. CASE (FindLocal(c) \/ Fetch(c)) /\ ~Finish(c)
  <2>1. PICK pc \in {"fetch", "committed"} : /\ Go(c, pc) /\ (pc = "committed" => old.op = "restore")
                                             /\ UNCHANGED pendingRestoreKeys
    BY <1>10, Zenon DEF FindLocal, Fetch, old
  <2> DEFINE r == [op |-> old.op, key |-> old.key, pc |-> pc]
  <2>2. r \in LegalRequests /\ r.pc = pc
    BY <1>2, <2>1, Zenon DEF LegalRequests
  <2>3. old.pc # "reserve"
    BY <1>10, Zenon DEF FindLocal, Fetch, old
  <2>4. \A k \in BackupKeys : Reserves(r, k) <=> Reserves(requests[c], k)
    BY <2>3, Zenon DEF Reserves, old
  <2>5. requests' = [requests EXCEPT ![c] = r]
    BY <1>6, <2>1, Zenon
  <2> HIDE DEF r
  <2>6. CountInv'
    BY <1>1, <1>8, <2>1, <2>2, <2>4, <2>5, CountStep, Zenon
  <2> QED BY <1>7, <2>1, <2>2, <2>5, <2>6, Zenon
\* The request ends, and what it has reserved is released.
<1>11. CASE Finish(c) /\ (Reserve(c) \/ FindLocal(c) \/ Fetch(c)) /\ ~Go(c, "exists")
  <2>1. requests' = [requests EXCEPT ![c] = Nobody] /\ \A k \in BackupKeys : ~Reserves(Nobody, k)
    BY <1>5, <1>11, Zenon DEF Finish, Reserves
  <2>2. CASE old.pc = "reserve" \/ old.op = "sync"
    <3>1. \A k \in BackupKeys : ~Reserves(requests[c], k)
      BY <2>2, Zenon DEF Reserves, old
    <3>2. UNCHANGED pendingRestoreKeys
      BY <1>11, <2>2, <1>2, Zenon DEF Reserve, FindLocal, Fetch, Released, old, At
    <3>3. CountInv'
      BY <1>1, <1>5, <1>8, <2>1, <3>1, <3>2, CountStep, Zenon
    <3> QED BY <1>5, <1>7, <2>1, <3>3, Zenon
  <2>3. CASE old.pc # "reserve" /\ old.op = "restore"
    <3>1. \A k \in BackupKeys : Reserves(requests[c], k) <=> k = old.key
      BY <2>3, Zenon DEF Reserves, old
    <3>2. pendingRestoreKeys' = Released(c)
      <4>1. ~Go(c, "committed") /\ ~Go(c, "fetch")
        <5>1. ASSUME NEW pc \in {"committed", "fetch"}, Go(c, pc) PROVE FALSE
          <6>1. requests'[c] = [op |-> old.op, key |-> old.key, pc |-> pc]
            BY <1>1, <1>6, <5>1, Zenon
          <6>2. requests'[c] = Nobody
            BY <1>1, <2>1, Zenon
          <6> QED BY <5>1, <6>1, <6>2, <1>5
        <5> QED BY <5>1, Zenon
      <4> QED BY <1>11, <2>3, <4>1, Zenon DEF Reserve, FindLocal, Fetch, At, old
    <3>3. pendingRestoreKeys' = [pendingRestoreKeys EXCEPT ![old.key] = pendingRestoreKeys[old.key] - 1]
      BY <2>3, <3>2, Zenon DEF Released, KeyOf, old
    <3>4. CountInv'
      BY <1>1, <1>2, <1>5, <1>8, <2>1, <3>1, <3>3, CountStep, Zenon
    <3> QED BY <1>5, <1>7, <2>1, <3>4, Zenon
  <2> QED BY <1>2, <2>2, <2>3, Zenon
<1>12. ASSUME Finish(c), Go(c, "exists") PROVE FALSE
  <2>1. requests'[c] = [op |-> old.op, key |-> old.key, pc |-> "exists"]
    BY <1>1, <1>6, <1>12, Zenon
  <2>2. requests'[c] = Nobody
    BY <1>1, <1>12, Zenon DEF Finish
  <2> QED BY <2>1, <2>2, <1>5
<1>13. Reserve(c) => Finish(c) \/ (/\ Go(c, "exists")
                                   /\ pendingRestoreKeys' = [pendingRestoreKeys EXCEPT ![KeyOf(c)] = @ + 1])
  BY Zenon DEF Reserve
<1> QED BY <1>9, <1>10, <1>11, <1>12, <1>13, Zenon

\* The restore runs: it fails, or the process is replaced.
LEMMA RunRestoreStep ==
  ASSUME BackupsInv, NEW c \in Callers, RunRestore(c)
  PROVE  BackupsInv'
<1>1. /\ requests[c] \in LegalRequests /\ requests \in [Callers \cup {Cron} -> LegalRequests] /\ c # Cron
      /\ requests[c].op = "restore" /\ requests[c].pc = "committed"
  BY BackupsAssumption, Zenon DEF BackupsInv, MutexInv, RunRestore, At
<1>2. requests[c].key \in BackupKeys
  BY <1>1 DEF LegalRequests, Nobody
<1>3. Nobody \in LegalRequests /\ Nobody.pc = "idle" /\ Nobody.op = "none"
  BY Zenon DEF LegalRequests, Nobody
<1>4. UNCHANGED <<local, remote>>
  BY Zenon DEF RunRestore
<1>5. CASE /\ Finish(c) /\ pendingRestoreKeys' = Released(c)
           /\ UNCHANGED <<config, capacityMu, activeBackup, outOfBand>>
  <2>1. CopiesInv' /\ Listed' \in SUBSET Listed
    BY <1>4, <1>5, QuietCopies, Zenon DEF BackupsInv
  <2>2. requests' = [requests EXCEPT ![c] = Nobody]
    BY <1>5, Zenon DEF Finish
  <2>3. \A k \in BackupKeys : ~Reserves(Nobody, k) /\ (Reserves(requests[c], k) <=> k = requests[c].key)
    BY <1>1, <1>3, Zenon DEF Reserves
  <2>4. pendingRestoreKeys' =
          [pendingRestoreKeys EXCEPT ![requests[c].key] = pendingRestoreKeys[requests[c].key] - 1]
    BY <1>1, <1>5, Zenon DEF Released, KeyOf
  <2>5. CountInv'
    BY <1>1, <1>2, <1>3, <2>2, <2>3, <2>4, CountStep, Zenon DEF BackupsInv
  <2>6. MutexInv'
    BY <1>1, <1>3, <1>5, <2>2, MutexStep, Zenon DEF BackupsInv
  <2>7. RoomInv'
    BY <1>1, <1>3, <1>5, <2>1, <2>2, RoomStep, Zenon DEF BackupsInv
  <2> QED BY <2>1, <2>5, <2>6, <2>7, Zenon DEF BackupsInv
<1>6. CASE Restarted /\ config' \in Settings /\ outOfBand' = TRUE
  <2>1. CopiesInv' /\ RoomInv'
    BY <1>4, <1>6, Zenon DEF BackupsInv, CopiesInv, RoomInv, Restarted
  <2>2. /\ requests' = [q \in Callers \cup {Cron} |-> Nobody] /\ capacityMu' = Free
        /\ pendingRestoreKeys' = [k \in BackupKeys |-> 0]
    BY <1>6, Zenon DEF Restarted
  <2>3. MutexInv'
    BY <1>3, <2>2, Zenon DEF MutexInv
  <2>4. \A k \in BackupKeys : {q \in Callers : Reserves(requests'[q], k)} = {}
    BY <1>3, <2>2, Zenon DEF Reserves
  <2>5. CountInv'
    BY <2>2, <2>4, FS_EmptySet DEF CountInv
  <2> QED BY <2>1, <2>3, <2>5, Zenon DEF BackupsInv
<1> QED BY <1>5, <1>6, Zenon DEF RunRestore

\* Archives stay within BACKUP_MAX_COUNT, are reserved by exactly the restores
\* that are on them, and are readable (Service of internal/backup), for any
\* number of concurrent requests, keys and any capacity.
THEOREM BackupsCorrect == BackupsSpec => []BackupsSafety
<1>1. BackupsInit => BackupsInv
  <2> SUFFICES ASSUME BackupsInit PROVE BackupsInv
    BY Zenon
  <2>1. Nobody \in LegalRequests /\ Nobody.pc = "idle" /\ Nobody.op = "none"
    BY Zenon DEF LegalRequests, Nobody
  <2>2. CopiesInv
    BY Zenon DEF BackupsInit, CopiesInv
  <2>3. MutexInv
    BY <2>1, Zenon DEF BackupsInit, MutexInv
  <2>4. Listed = {}
    BY Zenon DEF BackupsInit, Listed, Held
  <2>5. RoomInv
    BY <2>1, <2>4, FS_EmptySet, BackupsAssumption DEF BackupsInit, RoomInv
  <2>6. \A k \in BackupKeys : {q \in Callers : Reserves(requests[q], k)} = {}
    BY <2>1, Zenon DEF Reserves, BackupsInit
  <2>7. CountInv
    BY <2>6, FS_EmptySet DEF CountInv, BackupsInit
  <2> QED BY <2>2, <2>3, <2>5, <2>7, Zenon DEF BackupsInv
<1>2. BackupsInv /\ [BackupsNext]_backupVars => BackupsInv'
  <2> SUFFICES ASSUME BackupsInv, [BackupsNext]_backupVars PROVE BackupsInv'
    BY Zenon
  <2>1. CASE \E c \in Callers, op \in Ops, k \in BackupKeys : Request(c, op, k)
    BY <2>1, RequestStep, Zenon
  <2>2. CASE \E k \in BackupKeys : CronBackup(k)
    BY <2>2, CronStep, Zenon
  <2>3. CASE \E c \in Callers : Lock(c) \/ CheckCapacity(c) \/ DeleteGuard(c)
    BY <2>3, CheckStep, Zenon
  <2>4. CASE \E c \in Callers : DeleteLocal(c) \/ DeleteRemote(c)
    BY <2>4, DeleteStep, Zenon
  <2>5. CASE \E c \in Callers : Reserve(c) \/ FindLocal(c) \/ Fetch(c)
    BY <2>5, RestoreStep, Zenon
  <2>6. CASE \E c \in Callers : RunRestore(c)
    BY <2>6, RunRestoreStep, Zenon
  <2>7. CASE \E c \in Callers \cup {Cron} : Write(c)
    BY <2>7, WriteStep, Zenon
  <2>8. CASE \E c \in Callers \cup {Cron} : Mirror(c)
    BY <2>8, MirrorStep, Zenon
  <2>9. CASE \E cfg \in Settings : Configure(cfg)
    BY <2>9, Zenon DEF Configure, BackupsInv, CopiesInv, MutexInv, RoomInv, CountInv
  <2>10. CASE UNCHANGED backupVars
    BY <2>10, Zenon DEF backupVars, BackupsInv, CopiesInv, MutexInv, RoomInv, CountInv, Listed, Held
  <2> QED BY <2>1, <2>2, <2>3, <2>4, <2>5, <2>6, <2>7, <2>8, <2>9, <2>10, Zenon DEF BackupsNext
<1>3. BackupsInv => BackupsSafety
  <2> SUFFICES ASSUME BackupsInv PROVE BackupsSafety
    BY Zenon
  <2>1. ASSUME NEW k \in BackupKeys PROVE pendingRestoreKeys[k] \in 0 .. Cardinality(Callers)
    <3> DEFINE S == {c \in Callers : Reserves(requests[c], k)}
    <3>1. S \subseteq Callers /\ pendingRestoreKeys[k] = Cardinality(S)
      BY Zenon DEF BackupsInv, CountInv
    <3> HIDE DEF S
    <3>2. Cardinality(S) <= Cardinality(Callers) /\ Cardinality(S) \in Nat /\ Cardinality(Callers) \in Nat
      BY <3>1, BackupsAssumption, FS_Subset, FS_CardinalityType, Zenon
    <3> QED BY <3>1, <3>2
  <2>2. pendingRestoreKeys \in [BackupKeys -> 0 .. Cardinality(Callers)]
    BY <2>1, Zenon DEF BackupsInv, CountInv
  <2>3. LegalRequests \subseteq
          [op : Ops, key : BackupKeys, pc : {"lock", "check", "write", "mirror", "guard",
             "local", "remote", "reserve", "exists", "fetch", "committed"}] \cup {Nobody}
    BY Zenon DEF LegalRequests, Ops
  <2>4. BackupsTypeOK
    BY <2>2, <2>3, Zenon DEF BackupsTypeOK, BackupsInv, CopiesInv, MutexInv
  <2>5. CapacityHolds
    BY Zenon DEF CapacityHolds, BackupsInv, RoomInv
  <2>6. ReservationsAreCounted
    BY Zenon DEF ReservationsAreCounted, BackupsInv, CountInv, Reserves, KeyOf
  <2>7. CopiesAreArchives
    BY Zenon DEF CopiesAreArchives, BackupsInv, CopiesInv
  <2> QED BY <2>4, <2>5, <2>6, <2>7, Zenon DEF BackupsSafety
<1> QED BY <1>1, <1>2, <1>3, PTL DEF BackupsSpec

(***************************************************************************)
(* The refresh of an OAuth credential, for any number of loaders, tokens   *)
(* and attempts. With a provider that rotates, exactly one place has the   *)
(* refresh token that is still alive: the row, the pending pair or the     *)
(* flight. The invariant says which one at every stage of the flight, and  *)
(* that a reconnection has an identity no flight has started from.         *)
(***************************************************************************)

FlightRows == [at : FlightStages, base : IdentityType, refresh : 0..MaxTokens,
               got : PairType, held : PairType, tries : 0..(MaxAttempts - 1),
               retry : BOOLEAN, by : SUBSET Loaders]
\* The stages at which the flight has a refresh token or a pair in its hands.
InHand == {"redeem", "find", "save"}

\* The refresh token that the next flight redeems.
NextToken == IF pending # NoPending /\ pending.base = Identity(row)
             THEN pending.pair.refresh ELSE row.refresh

OAuthTypes == OAuthTypeOK /\ soon \in Nat /\ past \in Nat

\* Every identity names a token that was issued, so a reconnection has a new one;
\* while a flight has something in hand, a pending pair is the one it started from.
PendingInv ==
  /\ row.token <= issuedTokens /\ pending.base[2] <= issuedTokens /\ flight.base[2] <= issuedTokens
  /\ pending.pair.token <= issuedTokens /\ flight.got.token <= issuedTokens
  /\ pending # NoPending => pending.pair.token # NoToken
  /\ flight.at \in InHand => pending = NoPending \/ pending.base = flight.base
  /\ flight.at \in {"find", "save"} =>
       flight.got.token # NoToken /\ (flight.retry => pending # NoPending /\ pending.pair = flight.got)

\* A rotating provider: who has the live refresh token.
RotatingInv ==
  rotates /\ ~lost =>
    /\ flight.at \notin InHand => NextToken \in live
    /\ flight.at = "redeem" =>
         /\ flight.refresh \in live
         /\ flight.base = Identity(row) => flight.refresh = NextToken
         /\ flight.base # Identity(row) => row.refresh \in live /\ row.refresh # flight.refresh
    /\ flight.at \in {"find", "save"} =>
         flight.got.refresh \in live /\ (flight.base # Identity(row) => row.refresh \in live)

\* One that does not rotate: no refresh token ever dies.
KeepingInv ==
  ~rotates =>
    /\ row.refresh \in live
    /\ pending.pair.refresh \in live \cup {NoToken} /\ flight.refresh \in live \cup {NoToken}
    /\ flight.held.refresh \in live \cup {NoToken} /\ flight.got.refresh \in live \cup {NoToken}

OAuthInv == OAuthTypes /\ PendingInv /\ RotatingInv /\ KeepingInv

\* The values nothing is held in.
LEMMA EmptyTypes ==
  /\ NoPair \in PairType /\ NoPair.token = NoToken /\ NoPair.refresh = NoToken /\ NoPair.expires = NoToken
  /\ <<NoToken, NoToken>> \in IdentityType
  /\ NoPending \in [pair : PairType, base : IdentityType]
  /\ NoPending.pair = NoPair /\ NoPending.base = <<NoToken, NoToken>>
  /\ 0 \in 0..(MaxAttempts - 1) /\ 0 \in 0..MaxTokens
  /\ NoLoad \in [at : LoadStages, expires : 0..MaxTokens]
<1>1. 0 \in 0..(MaxAttempts - 1) /\ 0 \in 0..MaxTokens
  BY OAuthAssumption
<1>2. NoPair \in PairType /\ NoPair.token = NoToken /\ NoPair.refresh = NoToken /\ NoPair.expires = NoToken
  BY <1>1, Zenon DEF NoPair, Pair, PairType, NoToken
<1>3. <<NoToken, NoToken>> \in IdentityType
  BY <1>1, Zenon DEF IdentityType, NoToken
<1> QED BY <1>1, <1>2, <1>3, Zenon DEF NoPending, NoLoad, LoadAt, LoadStages, NoToken

\* A flight that ends leaves nothing in hand.
LEMMA EndedFlight ==
  ASSUME flight \in FlightRows, NEW how \in FlightStages
  PROVE  /\ Ended(how) \in FlightRows
         /\ Ended(how).at = how /\ Ended(how).base = <<NoToken, NoToken>> /\ Ended(how).refresh = NoToken
         /\ Ended(how).got = NoPair /\ Ended(how).held = NoPair
<1>1. NoFlight \in FlightRows
  BY EmptyTypes, Zenon DEF NoFlight, FlightRows, FlightStages, NoToken
<1>2. /\ NoFlight.base = <<NoToken, NoToken>> /\ NoFlight.refresh = NoToken
      /\ NoFlight.got = NoPair /\ NoFlight.held = NoPair
  BY Zenon DEF NoFlight
<1>3. flight.by \in SUBSET Loaders
  BY Zenon DEF FlightRows
<1>4. ASSUME NEW y \in SUBSET Loaders, NEW g, g = [NoFlight EXCEPT !.at = how, !.by = y]
      PROVE  /\ g \in FlightRows /\ g.at = how /\ g.base = NoFlight.base /\ g.refresh = NoFlight.refresh
             /\ g.got = NoFlight.got /\ g.held = NoFlight.held
  BY <1>1, <1>4, Zenon DEF FlightRows
<1> QED BY <1>2, <1>3, <1>4, Zenon DEF Ended

\* A flight that ends: what has to be live afterwards.
LEMMA EndStep ==
  ASSUME OAuthInv, NEW how \in FlightStages \ InHand, flight' = Ended(how),
         rotates' = rotates, issuedTokens <= issuedTokens', issuedTokens' \in Nat,
         row'.token <= issuedTokens',
         pending' \in [pair : PairType, base : IdentityType],
         pending'.base[2] <= issuedTokens', pending'.pair.token <= issuedTokens',
         pending' # NoPending => pending'.pair.token # NoToken,
         rotates /\ ~lost' => NextToken' \in live',
         ~rotates => row'.refresh \in live' /\ pending'.pair.refresh \in live' \cup {NoToken}
  PROVE  PendingInv' /\ RotatingInv' /\ KeepingInv' /\ flight' \in FlightRows
<1>1. flight \in FlightRows
  BY Zenon DEF OAuthInv, OAuthTypes, OAuthTypeOK, FlightRows
<1>2. flight' \in FlightRows
  BY <1>1, EndedFlight, Zenon
<1>3. /\ flight'.at = how /\ flight'.base = <<NoToken, NoToken>> /\ flight'.refresh = NoToken
      /\ flight'.got = NoPair /\ flight'.held = NoPair
  BY <1>1, EndedFlight, Zenon
<1>4. /\ flight'.at \notin InHand /\ flight'.at # "redeem" /\ flight'.at \notin {"find", "save"}
      /\ flight'.base[2] = 0 /\ flight'.got.token = 0 /\ flight'.got.refresh = NoToken
      /\ flight'.held.refresh = NoToken /\ flight'.refresh = NoToken
  BY <1>3, EmptyTypes DEF InHand, NoToken
<1>5. PendingInv'
  BY <1>4 DEF PendingInv
<1>6. RotatingInv'
  BY <1>4, Zenon DEF RotatingInv
<1>7. KeepingInv'
  BY <1>4, Zenon DEF KeepingInv
<1> QED BY <1>2, <1>5, <1>6, <1>7, Zenon

\* A step that leaves the key, the pending pair and what the flight has in hand.
LEMMA SameHands ==
  ASSUME OAuthInv, UNCHANGED <<live, rotates, issuedTokens, pending>>, lost => lost',
         row'.token = row.token, row'.refresh = row.refresh, row'.expires = row.expires,
         flight'.base = flight.base, flight'.refresh = flight.refresh, flight'.got = flight.got,
         flight'.held = flight.held, flight'.retry = flight.retry,
         \/ flight'.at = flight.at
         \/ flight.at \notin InHand /\ flight'.at \notin InHand
         \/ flight.at \in {"find", "save"} /\ flight'.at \in {"find", "save"}
  PROVE  PendingInv' /\ RotatingInv' /\ KeepingInv'
<1>1. Identity(row)' = Identity(row) /\ NextToken' = NextToken
  BY Zenon DEF Identity, NextToken
<1>2. PendingInv' 
  BY Zenon DEF OAuthInv, PendingInv, InHand
<1>3. RotatingInv'
  BY <1>1, Zenon DEF OAuthInv, RotatingInv, InHand
<1>4. KeepingInv'
  BY Zenon DEF OAuthInv, KeepingInv
<1> QED BY <1>2, <1>3, <1>4, Zenon

\* The types a step keeps, when nothing but the flight, the loads and the
\* pending pair moves.
LEMMA SameTypes ==
  ASSUME OAuthTypes, UNCHANGED <<soon, past, live, rotates, issuedTokens>>, lost' \in BOOLEAN,
         row' \in [token : Tokens, refresh : 0..MaxTokens, expires : 0..MaxTokens, error : BOOLEAN],
         loads' \in [Loaders -> [at : LoadStages, expires : 0..MaxTokens]],
         flight' \in FlightRows, pending' \in [pair : PairType, base : IdentityType],
         faults' \in 0..MaxOAuthFaults
  PROVE  OAuthTypes'
BY Zenon DEF OAuthTypes, OAuthTypeOK, FlightRows

\* What the types say of the variables.
LEMMA OAuthFacts ==
  ASSUME OAuthTypes
  PROVE  /\ row \in [token : Tokens, refresh : 0..MaxTokens, expires : 0..MaxTokens, error : BOOLEAN]
         /\ loads \in [Loaders -> [at : LoadStages, expires : 0..MaxTokens]]
         /\ flight \in FlightRows /\ pending \in [pair : PairType, base : IdentityType]
         /\ faults \in 0..MaxOAuthFaults /\ lost \in BOOLEAN /\ live \subseteq 1..issuedTokens
         /\ issuedTokens \in Nat /\ issuedTokens <= MaxTokens /\ 1 <= issuedTokens /\ MaxTokens \in Nat
         /\ Identity(row) \in IdentityType /\ row.expires \in 0..MaxTokens
<1>1. issuedTokens \in 1..MaxTokens /\ MaxTokens \in Nat
  BY OAuthAssumption, Zenon DEF OAuthTypes, OAuthTypeOK, Tokens
<1>2. issuedTokens \in Nat /\ issuedTokens <= MaxTokens /\ 1 <= issuedTokens
  BY <1>1
<1>3. row \in [token : Tokens, refresh : 0..MaxTokens, expires : 0..MaxTokens, error : BOOLEAN]
  BY Zenon DEF OAuthTypes, OAuthTypeOK
<1>4. row.token \in 0..MaxTokens /\ row.expires \in 0..MaxTokens
  BY <1>1, <1>3 DEF Tokens
<1>5. Identity(row) \in IdentityType
  BY <1>4, Zenon DEF Identity, IdentityType
<1> QED BY <1>1, <1>2, <1>3, <1>4, <1>5, Zenon DEF OAuthTypes, OAuthTypeOK, FlightRows

\* What a load reads back from the pending pair.
LEMMA HeldIsNext ==
  ASSUME OAuthInv
  PROVE  /\ pending # NoPending /\ pending.base = Identity(row) => HeldPair = pending.pair /\ HeldPair # NoPair
         /\ ~(pending # NoPending /\ pending.base = Identity(row)) => HeldPair = NoPair
         /\ NextToken = IF HeldPair # NoPair THEN HeldPair.refresh ELSE row.refresh
         /\ HeldPair \in PairType
<1>1. pending # NoPending => pending.pair # NoPair
  BY EmptyTypes, Zenon DEF OAuthInv, PendingInv
<1>2. pending.pair \in PairType
  BY OAuthFacts, Zenon DEF OAuthInv
<1> QED BY <1>1, <1>2, EmptyTypes, Zenon DEF HeldPair, NextToken

\* Time passes, or a load moves that has nothing to do with the flight.
LEMMA LoadStep ==
  ASSUME OAuthInv, Time \/ \E l \in Loaders : ReadKey(l) \/ Enter(l) \/ PersistRefreshError(l)
  PROVE  OAuthInv'
<1>1. OAuthTypes
  BY Zenon DEF OAuthInv
<1>2. CASE Time
  <2>1. /\ UNCHANGED <<row, live, rotates, issuedTokens, loads, flight, pending, faults, lost>>
        /\ soon' \in Nat /\ past' \in Nat /\ 0 <= past' /\ past' <= soon' /\ soon' <= issuedTokens
    BY <1>1, <1>2, OAuthFacts DEF Time, OAuthTypes, OAuthTypeOK
  <2>2. OAuthTypes'
    BY <1>1, <2>1, Zenon DEF OAuthTypes, OAuthTypeOK
  <2> QED BY <2>1, <2>2, SameHands, Zenon DEF OAuthInv
<1>3. ASSUME NEW l \in Loaders, ReadKey(l) PROVE OAuthInv'
  <2>1. /\ UNCHANGED <<row, soon, past, live, rotates, issuedTokens, flight, pending, faults, lost>>
        /\ loads' = [loads EXCEPT ![l] = LoadAt("read", row.expires)]
    BY <1>3, Zenon DEF ReadKey
  <2>2. LoadAt("read", row.expires) \in [at : LoadStages, expires : 0..MaxTokens]
    BY <1>1, OAuthFacts, Zenon DEF LoadAt, LoadStages
  <2>3. loads' \in [Loaders -> [at : LoadStages, expires : 0..MaxTokens]]
    BY <1>1, <2>1, <2>2, OAuthFacts, Zenon
  <2>4. OAuthTypes'
    BY <1>1, <2>1, <2>3, OAuthFacts, SameTypes, Zenon
  <2> QED BY <2>1, <2>4, SameHands, Zenon DEF OAuthInv
<1>4. ASSUME NEW l \in Loaders, PersistRefreshError(l) PROVE OAuthInv'
  <2>1. /\ UNCHANGED <<soon, past, live, rotates, issuedTokens, flight, pending, faults, lost>>
        /\ loads' = [loads EXCEPT ![l] = NoLoad]
        /\ row' = [row EXCEPT !.error = @ \/ row.expires = loads[l].expires]
    BY <1>4, Zenon DEF PersistRefreshError
  <2>2. loads' \in [Loaders -> [at : LoadStages, expires : 0..MaxTokens]]
    BY <1>1, <2>1, OAuthFacts, EmptyTypes, Zenon
  <2>3. /\ row' \in [token : Tokens, refresh : 0..MaxTokens, expires : 0..MaxTokens, error : BOOLEAN]
        /\ row'.token = row.token /\ row'.refresh = row.refresh /\ row'.expires = row.expires
    <3>1. PICK e \in BOOLEAN : e = (row.error \/ row.expires = loads[l].expires)
      BY Zenon
    <3>2. row' = [row EXCEPT !.error = e]
      BY <2>1, <3>1, Zenon
    <3> QED BY <1>1, <3>2, OAuthFacts, Zenon
  <2>4. OAuthTypes'
    BY <1>1, <2>1, <2>2, <2>3, OAuthFacts, SameTypes, Zenon
  <2> QED BY <2>1, <2>3, <2>4, SameHands, Zenon DEF OAuthInv
<1>5. ASSUME NEW l \in Loaders, Enter(l) PROVE OAuthInv'
  <2>1. /\ UNCHANGED <<row, soon, past, live, rotates, issuedTokens, pending, faults, lost>>
        /\ loads' = [loads EXCEPT ![l].at = "joined"]
    BY <1>5, Zenon DEF Enter
  <2>2. loads' \in [Loaders -> [at : LoadStages, expires : 0..MaxTokens]]
    BY <1>1, <2>1, OAuthFacts, Zenon DEF LoadStages
  <2>3. CASE flight.at = "none"
    <3>1. flight' = [NoFlight EXCEPT !.at = "start", !.by = {l}]
      BY <1>5, <2>3, Zenon DEF Enter
    <3>2. NoFlight \in FlightRows /\ "start" \in FlightStages /\ {l} \in SUBSET Loaders
      BY EmptyTypes, Zenon DEF NoFlight, FlightRows, FlightStages, NoToken
    <3>3. /\ flight' \in FlightRows /\ flight'.at = "start"
      BY <3>1, <3>2, Zenon DEF FlightRows
    <3>4. OAuthTypes'
      BY <1>1, <2>1, <2>2, <3>3, OAuthFacts, SameTypes, Zenon
    <3>5. /\ flight'.base = NoFlight.base /\ flight'.refresh = NoFlight.refresh
          /\ flight'.got = NoFlight.got /\ flight'.held = NoFlight.held
      BY <3>1, <3>2, Zenon DEF FlightRows
    <3>6. /\ flight'.base[2] = 0 /\ flight'.got.token = 0 /\ flight'.got.refresh = NoToken
          /\ flight'.held.refresh = NoToken /\ flight'.refresh = NoToken
      BY <3>5, EmptyTypes DEF NoFlight, NoToken
    <3>7. flight.at \notin InHand /\ flight'.at \notin InHand /\ flight'.at \notin {"find", "save"} /\ flight'.at # "redeem"
      BY <2>3, <3>3, Zenon DEF InHand
    <3>8. PendingInv'
      BY <1>1, <2>1, <3>6, <3>7, OAuthFacts DEF OAuthInv, PendingInv
    <3>9. RotatingInv' /\ KeepingInv'
      BY <2>1, <3>6, <3>7, Zenon DEF OAuthInv, RotatingInv, KeepingInv, NextToken
    <3> QED BY <3>4, <3>8, <3>9, Zenon DEF OAuthInv
  <2>4. CASE flight.at # "none"
    <3>1. flight' = [flight EXCEPT !.by = flight.by \cup {l}]
      BY <1>5, <2>4, Zenon DEF Enter
    <3>2. /\ flight' \in FlightRows /\ flight'.at = flight.at /\ flight'.base = flight.base
          /\ flight'.refresh = flight.refresh /\ flight'.got = flight.got
          /\ flight'.held = flight.held /\ flight'.retry = flight.retry
      BY <1>1, <3>1, OAuthFacts, Zenon DEF FlightRows
    <3>3. OAuthTypes'
      BY <1>1, <2>1, <2>2, <3>2, OAuthFacts, SameTypes, Zenon
    <3> QED BY <2>1, <3>2, <3>3, SameHands, Zenon DEF OAuthInv
  <2> QED BY <2>3, <2>4, Zenon
<1> QED BY <1>2, <1>3, <1>4, <1>5, Zenon

\* The flight reads the row again: it ends, or it has the next refresh token, or
\* the pending pair, in hand.
LEMMA DecideStep ==
  ASSUME OAuthInv, Decide
  PROVE  OAuthInv'
<1>1. OAuthTypes /\ flight.at = "start" /\ flight.at \notin InHand
  BY Zenon DEF OAuthInv, Decide, InHand
<1>2. UNCHANGED <<row, soon, past, live, rotates, issuedTokens, loads, faults, lost>>
  BY Zenon DEF Decide
<1>3. /\ rotates /\ ~lost => NextToken \in live
      /\ ~rotates => row.refresh \in live /\ pending.pair.refresh \in live \cup {NoToken}
  BY <1>1, Zenon DEF OAuthInv, RotatingInv, KeepingInv
<1>4. /\ row.token <= issuedTokens /\ pending.base[2] <= issuedTokens /\ pending.pair.token <= issuedTokens
      /\ pending # NoPending => pending.pair.token # NoToken
  BY Zenon DEF OAuthInv, PendingInv
<1>5. pending' \in {pending, NoPending} /\ (pending' = NoPending \/ pending'.base = Identity(row) \/ pending' = pending)
  BY Zenon DEF Decide
<1>6. /\ pending' \in [pair : PairType, base : IdentityType]
      /\ pending'.base[2] <= issuedTokens /\ pending'.pair.token <= issuedTokens
      /\ pending' # NoPending => pending'.pair.token # NoToken
      /\ ~rotates => pending'.pair.refresh \in live \cup {NoToken}
  <2>1. NoPending.base[2] <= issuedTokens /\ NoPending.pair.token <= issuedTokens
        /\ NoPending.pair.refresh = NoToken
    BY <1>1, EmptyTypes, OAuthFacts DEF NoToken
  <2> QED BY <1>1, <1>3, <1>4, <1>5, <2>1, EmptyTypes, OAuthFacts, Zenon
<1>7. CASE flight' = Ended("done") /\ NextToken' = NextToken
  <2>1. "done" \in FlightStages \ InHand
    BY Zenon DEF FlightStages, InHand
  <2>2. PendingInv' /\ RotatingInv' /\ KeepingInv' /\ flight' \in FlightRows
    BY <1>1, <1>2, <1>3, <1>4, <1>6, <1>7, <2>1, EndStep, OAuthFacts
  <2>3. OAuthTypes'
    BY <1>1, <1>2, <1>6, <2>2, OAuthFacts, SameTypes, Zenon
  <2> QED BY <2>2, <2>3, Zenon DEF OAuthInv
<1>8. CASE row.expires # NoToken /\ ~Due(row.expires) /\ flight' = Ended("done") /\ UNCHANGED pending
  <2>1. NextToken' = NextToken
    BY <1>2, <1>8, Zenon DEF NextToken, Identity
  <2> QED BY <1>7, <1>8, <2>1, Zenon
<1>9. CASE ~(row.expires # NoToken /\ ~Due(row.expires) /\ flight' = Ended("done") /\ UNCHANGED pending)
  <2> DEFINE next == [flight EXCEPT !.base = Identity(row), !.refresh = NextToken, !.held = HeldPair]
  <2>1. /\ pending' = IF HeldPair = NoPair THEN NoPending ELSE pending
        /\ flight' = IF PairUsable(HeldPair)
                     THEN [next EXCEPT !.at = "find", !.got = HeldPair, !.retry = TRUE]
                     ELSE IF NextToken = NoToken THEN Ended("done")
                     ELSE [next EXCEPT !.at = "redeem"]
    <3>1. NextToken = IF HeldPair # NoPair THEN HeldPair.refresh ELSE row.refresh
      BY HeldIsNext, Zenon
    <3> QED BY <1>9, <3>1, Zenon DEF Decide
  <2>2. NextToken' = NextToken /\ Identity(row)' = Identity(row)
        /\ (pending' = NoPending \/ pending'.base = Identity(row))
    BY <1>2, <2>1, HeldIsNext, Zenon DEF NextToken, Identity
  <2>3. HeldPair \in PairType /\ NextToken \in 0..MaxTokens /\ flight \in FlightRows /\ Identity(row) \in IdentityType
    <3>1. HeldPair \in PairType /\ row.refresh \in 0..MaxTokens /\ flight \in FlightRows
          /\ Identity(row) \in IdentityType
      BY <1>1, HeldIsNext, OAuthFacts, Zenon
    <3>2. HeldPair.refresh \in 0..MaxTokens
      BY <3>1, Zenon DEF PairType
    <3> QED BY <3>1, <3>2, HeldIsNext, Zenon
  <2>4. Identity(row)[2] = row.token
    BY Zenon DEF Identity
  <2>7. CASE PairUsable(HeldPair)
    <3>1. /\ flight' \in FlightRows /\ flight'.at = "find" /\ flight'.base = Identity(row)
          /\ flight'.refresh = NextToken /\ flight'.held = HeldPair /\ flight'.got = HeldPair
      <4>1. flight' = [[flight EXCEPT !.base = Identity(row), !.refresh = NextToken, !.held = HeldPair]
                         EXCEPT !.at = "find", !.got = HeldPair, !.retry = TRUE]
        BY <2>1, <2>7, Zenon
      <4>2. PICK b \in IdentityType, t \in 0..MaxTokens, h \in PairType :
              b = Identity(row) /\ t = NextToken /\ h = HeldPair
        BY <2>3, Zenon
      <4>3. flight' = [[flight EXCEPT !.base = b, !.refresh = t, !.held = h] EXCEPT !.at = "find", !.got = h, !.retry = TRUE]
        BY <4>1, <4>2, Zenon
      <4>4. /\ flight' \in FlightRows /\ flight'.at = "find" /\ flight'.base = b /\ flight'.refresh = t
            /\ flight'.held = h /\ flight'.got = h
        BY <2>3, <4>3, Zenon DEF FlightRows, FlightStages
      <4> QED BY <4>2, <4>4, Zenon
    <3>2. /\ pending # NoPending /\ pending.base = Identity(row) /\ HeldPair = pending.pair
          /\ pending' = pending /\ NextToken = pending.pair.refresh
      BY <2>1, <2>7, HeldIsNext, Zenon DEF PairUsable, NextToken
    <3>3. OAuthTypes'
      BY <1>1, <1>2, <1>6, <3>1, OAuthFacts, SameTypes, Zenon
    <3>4. PendingInv'
      BY <1>2, <1>4, <2>4, <3>1, <3>2, Zenon DEF PendingInv, InHand
    <3>5. RotatingInv'
      BY <1>2, <1>3, <2>2, <3>1, <3>2, Zenon DEF RotatingInv, InHand
    <3>6. KeepingInv'
      BY <1>2, <1>3, <3>1, <3>2, Zenon DEF KeepingInv
    <3> QED BY <3>3, <3>4, <3>5, <3>6, Zenon DEF OAuthInv
  <2>8. CASE ~PairUsable(HeldPair) /\ NextToken # NoToken
    <3>1. /\ flight' \in FlightRows /\ flight'.at = "redeem" /\ flight'.base = Identity(row)
          /\ flight'.refresh = NextToken /\ flight'.held = HeldPair /\ flight'.got = flight.got
      <4>1. flight' = [[flight EXCEPT !.base = Identity(row), !.refresh = NextToken, !.held = HeldPair]
                         EXCEPT !.at = "redeem"]
        BY <2>1, <2>8, Zenon
      <4>2. PICK b \in IdentityType, t \in 0..MaxTokens, h \in PairType :
              b = Identity(row) /\ t = NextToken /\ h = HeldPair
        BY <2>3, Zenon
      <4>3. flight' = [[flight EXCEPT !.base = b, !.refresh = t, !.held = h] EXCEPT !.at = "redeem"]
        BY <4>1, <4>2, Zenon
      <4>4. /\ flight' \in FlightRows /\ flight'.at = "redeem" /\ flight'.base = b /\ flight'.refresh = t
            /\ flight'.held = h /\ flight'.got = flight.got
        BY <2>3, <4>3, Zenon DEF FlightRows, FlightStages
      <4> QED BY <4>2, <4>4, Zenon
    <3>2. OAuthTypes'
      BY <1>1, <1>2, <1>6, <3>1, OAuthFacts, SameTypes, Zenon
    <3>3. flight.got.token <= issuedTokens
      BY Zenon DEF OAuthInv, PendingInv
    <3>4. PendingInv'
      BY <1>2, <1>4, <1>6, <2>2, <2>4, <3>1, <3>3, Zenon DEF PendingInv, InHand
    <3>5. RotatingInv'
      BY <1>2, <1>3, <2>2, <3>1, Zenon DEF RotatingInv, InHand
    <3>6. KeepingInv'
      <4>1. ~rotates => flight.got.refresh \in live \cup {NoToken}
        BY Zenon DEF OAuthInv, KeepingInv
      <4>2. ~rotates => NextToken \in live \cup {NoToken} /\ HeldPair.refresh \in live \cup {NoToken}
        BY <1>3, HeldIsNext, EmptyTypes, Zenon DEF NextToken
      <4> QED BY <1>2, <1>3, <1>6, <3>1, <4>1, <4>2, Zenon DEF KeepingInv
    <3> QED BY <3>2, <3>4, <3>5, <3>6, Zenon DEF OAuthInv
  <2>9. CASE ~PairUsable(HeldPair) /\ NextToken = NoToken
    BY <1>7, <2>1, <2>2, <2>9, Zenon
  <2> QED BY <2>7, <2>8, <2>9, Zenon
<1> QED BY <1>8, <1>9, Zenon

\* The provider answers with a new pair.
LEMMA RedeemStep ==
  ASSUME OAuthInv, Redeem
  PROVE  OAuthInv'
<1> DEFINE n == issuedTokens + 1
<1>1. /\ OAuthTypes /\ flight.at = "redeem" /\ flight.refresh \in live /\ issuedTokens < MaxTokens
      /\ issuedTokens' = n /\ live' = Redeemed(flight.refresh, n)
      /\ flight' = [flight EXCEPT !.at = "find", !.tries = 0, !.retry = FALSE, !.got = Yield(n)]
      /\ UNCHANGED <<row, soon, past, rotates, loads, pending, faults, lost>>
  BY Zenon DEF OAuthInv, Redeem
<1>2. n \in Nat /\ n <= MaxTokens /\ n \in Tokens /\ n \in 0..MaxTokens /\ n # NoToken
      /\ live \subseteq 1..n /\ issuedTokens \in Nat /\ 1 \in 1..n /\ n \in 1..n
  BY <1>1, OAuthFacts DEF Tokens, NoToken
<1>3. live' \subseteq 1..n /\ (rotates => n \in live' /\ \A t \in live : t # flight.refresh => t \in live')
      /\ (~rotates => live' = live)
  BY <1>1, <1>2, Zenon DEF Redeemed
<1>4. flight \in FlightRows /\ flight.held \in PairType
  BY <1>1, OAuthFacts, Zenon DEF FlightRows
<1>5. Yield(n) \in PairType /\ Yield(n).token = n /\ Yield(n).refresh = (IF rotates THEN n ELSE flight.held.refresh)
  BY <1>2, <1>4, Zenon DEF Yield, Pair, PairType
<1> HIDE DEF n
<1>7. /\ flight' \in FlightRows /\ flight'.at = "find" /\ flight'.base = flight.base /\ flight'.refresh = flight.refresh
      /\ flight'.held = flight.held /\ flight'.got = Yield(n) /\ flight'.retry = FALSE
  <2>1. flight' = [flight EXCEPT !.at = "find", !.tries = 0, !.retry = FALSE, !.got = Yield(n)]
    BY <1>1, Zenon
  <2>2. PICK x \in PairType : x = Yield(n)
    BY <1>5, Zenon
  <2>3. flight' = [flight EXCEPT !.at = "find", !.tries = 0, !.retry = FALSE, !.got = x]
    BY <2>1, <2>2, Zenon
  <2>4. 0 \in 0..(MaxAttempts - 1)
    BY EmptyTypes, Zenon
  <2>5. /\ flight' \in FlightRows /\ flight'.at = "find" /\ flight'.base = flight.base /\ flight'.refresh = flight.refresh
        /\ flight'.held = flight.held /\ flight'.got = x /\ flight'.retry = FALSE
    BY <1>4, <2>3, <2>4, Zenon DEF FlightRows, FlightStages
  <2> QED BY <2>2, <2>5, Zenon
<1>8. soon <= n
  BY <1>1, <1>2 DEF OAuthTypes, OAuthTypeOK, n
<1>9. OAuthTypes'
  BY <1>1, <1>2, <1>3, <1>7, <1>8, OAuthFacts, Zenon DEF OAuthTypes, OAuthTypeOK, FlightRows
<1>10. PendingInv'
  <2>1. /\ row.token \in Nat /\ pending.base[2] \in Nat /\ flight.base[2] \in Nat /\ pending.pair.token \in Nat
    BY <1>1, OAuthFacts DEF IdentityType, PairType, FlightRows, Tokens
  <2>2. /\ row.token <= n /\ pending.base[2] <= n /\ flight.base[2] <= n /\ pending.pair.token <= n
    BY <1>2, <2>1 DEF OAuthInv, PendingInv, n
  <2>3. pending = NoPending \/ pending.base = flight.base
    BY <1>1, Zenon DEF OAuthInv, PendingInv, InHand
  <2>4. pending # NoPending => pending.pair.token # NoToken
    BY Zenon DEF OAuthInv, PendingInv
  <2> QED BY <1>1, <1>2, <1>5, <1>7, <2>2, <2>3, <2>4 DEF PendingInv, InHand
<1>11. RotatingInv'
  <2>1. ASSUME rotates, ~lost PROVE flight.base # Identity(row) => row.refresh \in live /\ row.refresh # flight.refresh
    BY <1>1, <2>1, Zenon DEF OAuthInv, RotatingInv
  <2> QED BY <1>1, <1>3, <1>5, <1>7, <2>1, Zenon DEF RotatingInv, InHand, Identity
<1>12. KeepingInv'
  BY <1>1, <1>3, <1>5, <1>7, Zenon DEF OAuthInv, KeepingInv
<1> QED BY <1>9, <1>10, <1>11, <1>12, Zenon DEF OAuthInv

\* The flight ends without an answer it can use.
LEMMA NoAnswerStep ==
  ASSUME OAuthInv, RedeemLost \/ RedeemFails \/ RedeemRejected
  PROVE  OAuthInv'
<1>1. /\ OAuthTypes /\ flight.at = "redeem"
      /\ UNCHANGED <<row, soon, past, rotates, loads, pending>>
  BY Zenon DEF OAuthInv, RedeemLost, RedeemFails, RedeemRejected
<1>2. PICK how \in {"failed", "rejected"} : flight' = Ended(how)
  BY Zenon DEF RedeemLost, RedeemFails, RedeemRejected
<1>3. how \in FlightStages \ InHand
  BY <1>2, Zenon DEF FlightStages, InHand
<1>4. faults' \in 0..MaxOAuthFaults
  <2>1. faults \in 0..MaxOAuthFaults
    BY <1>1, OAuthFacts, Zenon
  <2> QED BY <2>1, OAuthAssumption DEF RedeemLost, RedeemFails, RedeemRejected
<1>5. /\ row.token <= issuedTokens /\ pending.base[2] <= issuedTokens /\ pending.pair.token <= issuedTokens
      /\ pending # NoPending => pending.pair.token # NoToken
      /\ pending = NoPending \/ pending.base = flight.base
  BY <1>1, Zenon DEF OAuthInv, PendingInv, InHand
<1>6. /\ rotates /\ ~lost => NextToken \in live
      /\ ~rotates => row.refresh \in live /\ pending.pair.refresh \in live \cup {NoToken}
  <2>1. ASSUME rotates, ~lost PROVE NextToken \in live
    <3>1. flight.refresh \in live /\ (flight.base = Identity(row) => flight.refresh = NextToken)
          /\ (flight.base # Identity(row) => row.refresh \in live)
      BY <1>1, <2>1, Zenon DEF OAuthInv, RotatingInv
    <3> QED BY <1>5, <3>1, Zenon DEF NextToken
  <2> QED BY <2>1, Zenon DEF OAuthInv, KeepingInv
<1>7. NextToken' = NextToken
  BY <1>1, Zenon DEF NextToken, Identity
<1>8. CASE RedeemFails \/ RedeemRejected
  <2>1. UNCHANGED <<live, issuedTokens, lost>>
    BY <1>8, Zenon DEF RedeemFails, RedeemRejected
  <2>2. PendingInv' /\ RotatingInv' /\ KeepingInv' /\ flight' \in FlightRows
    BY <1>1, <1>2, <1>3, <1>5, <1>6, <1>7, <2>1, EndStep, OAuthFacts
  <2>3. OAuthTypes'
    BY <1>1, <1>4, <2>1, <2>2, OAuthFacts, SameTypes, Zenon
  <2> QED BY <2>2, <2>3, Zenon DEF OAuthInv
<1>9. CASE RedeemLost
  <2> DEFINE n == issuedTokens + 1
  <2>1. /\ issuedTokens < MaxTokens /\ issuedTokens' = n /\ live' = Redeemed(flight.refresh, n)
        /\ lost' = (lost \/ rotates)
    BY <1>9, Zenon DEF RedeemLost
  <2>2. n \in Nat /\ n \in Tokens /\ live \subseteq 1..n /\ n \in 1..n /\ issuedTokens \in Nat /\ issuedTokens <= n
    BY <1>1, <2>1, OAuthFacts DEF Tokens
  <2>3. live' \subseteq 1..n /\ (~rotates => live' = live)
    BY <2>1, <2>2, Zenon DEF Redeemed
  <2>4. row.token <= n /\ pending.base[2] <= n /\ pending.pair.token <= n /\ soon <= n
    <3>1. row.token \in Nat /\ pending.base[2] \in Nat /\ pending.pair.token \in Nat /\ soon \in Nat
      BY <1>1, OAuthFacts DEF IdentityType, PairType, Tokens, OAuthTypes
    <3>2. soon <= issuedTokens
      BY <1>1, Zenon DEF OAuthTypes, OAuthTypeOK
    <3> QED BY <1>5, <2>2, <3>1, <3>2
  <2>5. pending' \in [pair : PairType, base : IdentityType]
    BY <1>1, OAuthFacts, Zenon
  <2> HIDE DEF n
  <2>6. PendingInv' /\ RotatingInv' /\ KeepingInv' /\ flight' \in FlightRows
    BY <1>1, <1>2, <1>3, <1>5, <1>6, <1>7, <2>1, <2>2, <2>3, <2>4, <2>5, EndStep, Zenon
  <2>7. lost' \in BOOLEAN
    BY <1>1, <2>1, Zenon DEF OAuthTypes, OAuthTypeOK
  <2>8. OAuthTypes'
    BY <1>1, <1>4, <2>1, <2>2, <2>3, <2>4, <2>6, <2>7, OAuthFacts, Zenon DEF OAuthTypes, OAuthTypeOK, FlightRows
  <2> QED BY <2>6, <2>8, Zenon DEF OAuthInv
<1> QED BY <1>8, <1>9, Zenon

\* An attempt to persist the pair: it goes on to the save or to another attempt,
\* it is done, or it is given up and the pair is kept in memory.
LEMMA PersistStep ==
  ASSUME OAuthInv, FindKeyRow \/ SaveRefreshed \/ RefreshSaveFails
  PROVE  OAuthInv'
<1>1. /\ OAuthTypes /\ flight.at \in {"find", "save"} /\ flight.at \in InHand
      /\ UNCHANGED <<soon, past, live, rotates, issuedTokens, loads, lost>>
  BY Zenon DEF OAuthInv, FindKeyRow, SaveRefreshed, RefreshSaveFails, InHand
<1>2. faults' \in 0..MaxOAuthFaults
  <2>1. faults \in 0..MaxOAuthFaults
    BY <1>1, OAuthFacts, Zenon
  <2>2. faults' = faults \/ (faults < MaxOAuthFaults /\ faults' = faults + 1)
    <3>1. FindKeyRow => faults' = faults
      BY Zenon DEF FindKeyRow
    <3>2. SaveRefreshed => faults' = faults
      BY Zenon DEF SaveRefreshed
    <3>3. RefreshSaveFails => faults < MaxOAuthFaults /\ faults' = faults + 1
      BY Zenon DEF RefreshSaveFails
    <3> QED BY <3>1, <3>2, <3>3, Zenon
  <2> QED BY <2>1, <2>2, OAuthAssumption
<1>3. flight \in FlightRows /\ flight.got \in PairType /\ flight.base \in IdentityType
  BY <1>1, OAuthFacts, Zenon DEF FlightRows
<1>4. /\ row.token <= issuedTokens /\ pending.base[2] <= issuedTokens /\ pending.pair.token <= issuedTokens
      /\ flight.base[2] <= issuedTokens /\ flight.got.token <= issuedTokens /\ flight.got.token # NoToken
      /\ pending # NoPending => pending.pair.token # NoToken
      /\ pending = NoPending \/ pending.base = flight.base
      /\ flight.retry => pending # NoPending /\ pending.pair = flight.got
  BY <1>1, Zenon DEF OAuthInv, PendingInv
<1>5. /\ rotates /\ ~lost => flight.got.refresh \in live
                              /\ (flight.base # Identity(row) => row.refresh \in live)
      /\ ~rotates => /\ row.refresh \in live /\ pending.pair.refresh \in live \cup {NoToken}
                     /\ flight.got.refresh \in live \cup {NoToken}
  BY <1>1, Zenon DEF OAuthInv, RotatingInv, KeepingInv
<1>6. /\ NoPending.base[2] <= issuedTokens /\ NoPending.pair.token <= issuedTokens
      /\ NoPending.pair.refresh = NoToken /\ NoPending \in [pair : PairType, base : IdentityType]
  BY <1>1, EmptyTypes, OAuthFacts DEF NoToken
<1>7. "done" \in FlightStages \ InHand
  BY Zenon DEF FlightStages, InHand
\* The flight ends.
<1>8. ASSUME flight' = Ended("done"),
             row' \in [token : Tokens, refresh : 0..MaxTokens, expires : 0..MaxTokens, error : BOOLEAN],
             row'.token <= issuedTokens, pending' \in [pair : PairType, base : IdentityType],
             pending'.base[2] <= issuedTokens, pending'.pair.token <= issuedTokens,
             pending' # NoPending => pending'.pair.token # NoToken,
             rotates /\ ~lost => NextToken' \in live,
             ~rotates => row'.refresh \in live /\ pending'.pair.refresh \in live \cup {NoToken}
      PROVE  OAuthInv'
  <2>1. PendingInv' /\ RotatingInv' /\ KeepingInv' /\ flight' \in FlightRows
    BY <1>1, <1>7, <1>8, EndStep, OAuthFacts
  <2>2. OAuthTypes'
    BY <1>1, <1>2, <1>8, <2>1, OAuthFacts, SameTypes, Zenon
  <2> QED BY <2>1, <2>2, Zenon DEF OAuthInv
\* It goes on.
<1>9. ASSUME UNCHANGED <<row, pending>>, flight' \in FlightRows, flight'.at \in {"find", "save"},
             flight'.base = flight.base, flight'.refresh = flight.refresh, flight'.got = flight.got,
             flight'.held = flight.held, flight'.retry = flight.retry
      PROVE  OAuthInv'
  <2>1. OAuthTypes'
    BY <1>1, <1>2, <1>9, OAuthFacts, SameTypes, Zenon
  <2> QED BY <1>1, <1>9, <2>1, SameHands, Zenon DEF OAuthInv
<1>10. CASE FindKeyRow
  <2>1. UNCHANGED row
    BY <1>10, Zenon DEF FindKeyRow
  <2>2. CASE Identity(row) = flight.base
    <3>1. flight' = [flight EXCEPT !.at = "save"] /\ UNCHANGED pending
      BY <1>10, <2>2, Zenon DEF FindKeyRow
    <3>2. /\ flight' \in FlightRows /\ flight'.at = "save"
          /\ flight'.base = flight.base /\ flight'.refresh = flight.refresh /\ flight'.got = flight.got
          /\ flight'.held = flight.held /\ flight'.retry = flight.retry
      BY <1>3, <3>1, Zenon DEF FlightRows, FlightStages
    <3> QED BY <1>9, <2>1, <3>1, <3>2, Zenon
  <2>3. CASE Identity(row) # flight.base
    <3>1. flight' = Ended("done") /\ pending' = NoPending
      BY <1>10, <2>3, Zenon DEF FindKeyRow, Persisted
    <3>2. NextToken' = row.refresh
      BY <2>1, <3>1, Zenon DEF NextToken
    <3>3. row' \in [token : Tokens, refresh : 0..MaxTokens, expires : 0..MaxTokens, error : BOOLEAN]
      BY <1>1, <2>1, OAuthFacts, Zenon
    <3> QED BY <1>4, <1>5, <1>6, <1>8, <2>1, <2>3, <3>1, <3>2, <3>3, Zenon
  <2> QED BY <2>2, <2>3, Zenon
<1>11. CASE SaveRefreshed
  <2>1. flight' = Ended("done") /\ pending' = NoPending /\ row' = Applied(flight.got)
    BY <1>11, Zenon DEF SaveRefreshed, Persisted
  <2>2. row.refresh \in 0..MaxTokens /\ row.expires \in 0..MaxTokens /\ flight.got.refresh \in 0..MaxTokens
        /\ flight.got.expires \in 0..MaxTokens /\ flight.got.token \in Tokens
    <3>1. flight.got.token \in 0..MaxTokens /\ flight.got.token # 0 /\ MaxTokens \in Nat
      BY <1>3, <1>4, OAuthAssumption, Zenon DEF PairType, NoToken
    <3>2. flight.got.token \in Tokens
      BY <3>1 DEF Tokens
    <3> QED BY <1>1, <1>3, <3>2, OAuthFacts, Zenon DEF PairType
  <2>3. /\ row' \in [token : Tokens, refresh : 0..MaxTokens, expires : 0..MaxTokens, error : BOOLEAN]
        /\ row'.token = flight.got.token
        /\ row'.refresh = IF flight.got.refresh # NoToken THEN flight.got.refresh ELSE row.refresh
    BY <2>1, <2>2, Zenon DEF Applied
  <2>4. NextToken' = row'.refresh
    BY <2>1, Zenon DEF NextToken
  <2>5. NoToken \notin live
    BY <1>1, OAuthFacts DEF NoToken
  <2>6. rotates /\ ~lost => row'.refresh \in live
    BY <1>5, <2>3, <2>5, Zenon
  <2>7. ~rotates => row'.refresh \in live
    BY <1>5, <2>3, Zenon
  <2> QED BY <1>4, <1>6, <1>8, <2>1, <2>3, <2>4, <2>6, <2>7, Zenon
<1>12. CASE RefreshSaveFails
  <2>1. UNCHANGED row /\ Again
    BY <1>12, Zenon DEF RefreshSaveFails
  <2>2. CASE flight.tries + 1 < MaxAttempts
    <3>1. flight' = [flight EXCEPT !.at = "find", !.tries = flight.tries + 1] /\ UNCHANGED pending
      BY <2>1, <2>2, Zenon DEF Again
    <3>2. PICK z \in 0..(MaxAttempts - 1) : z = flight.tries + 1
      <4>1. flight.tries \in 0..(MaxAttempts - 1)
        BY <1>3, Zenon DEF FlightRows
      <4>2. flight.tries + 1 \in 0..(MaxAttempts - 1)
        BY <2>2, <4>1, OAuthAssumption
      <4> QED BY <4>2, Zenon
    <3>3. flight' = [flight EXCEPT !.at = "find", !.tries = z]
      BY <3>1, <3>2, Zenon
    <3>4. /\ flight' \in FlightRows /\ flight'.at = "find"
          /\ flight'.base = flight.base /\ flight'.refresh = flight.refresh /\ flight'.got = flight.got
          /\ flight'.held = flight.held /\ flight'.retry = flight.retry
      BY <1>3, <3>3, Zenon DEF FlightRows, FlightStages
    <3> QED BY <1>9, <2>1, <3>1, <3>4, Zenon
  <2>3. CASE ~(flight.tries + 1 < MaxAttempts)
    <3>1. flight' = Ended("done") /\ pending' = IF flight.retry THEN pending ELSE NotPersisted
      BY <2>1, <2>3, Zenon DEF Again, Persisted
    <3>2. pending'.pair = flight.got /\ pending'.base = flight.base
          /\ pending' \in [pair : PairType, base : IdentityType] /\ pending' # NoPending
      <4>1. NotPersisted \in [pair : PairType, base : IdentityType]
            /\ NotPersisted.pair = flight.got /\ NotPersisted.base = flight.base
        BY <1>3, Zenon DEF NotPersisted
      <4>2. NotPersisted # NoPending
        BY <1>4, <4>1, EmptyTypes, Zenon
      <4> QED BY <1>1, <1>4, <3>1, <4>1, <4>2, OAuthFacts, Zenon
    <3>3. NextToken' = IF flight.base = Identity(row) THEN flight.got.refresh ELSE row.refresh
      BY <2>1, <3>2, Zenon DEF NextToken, Identity
    <3>4. row' \in [token : Tokens, refresh : 0..MaxTokens, expires : 0..MaxTokens, error : BOOLEAN]
      BY <1>1, <2>1, OAuthFacts, Zenon
    <3>5. rotates /\ ~lost => NextToken' \in live
      BY <1>5, <3>3, Zenon
    <3> QED BY <1>4, <1>5, <1>8, <2>1, <3>1, <3>2, <3>4, <3>5, Zenon
  <2> QED BY <2>2, <2>3, Zenon
<1> QED BY <1>10, <1>11, <1>12, Zenon

\* Every load that joined the flight gets its outcome.
LEMMA LandStep ==
  ASSUME OAuthInv, Land
  PROVE  OAuthInv'
<1>1. /\ OAuthTypes /\ flight.at \notin InHand /\ flight' = NoFlight
      /\ UNCHANGED <<row, soon, past, live, rotates, issuedTokens, pending, faults, lost>>
  BY Zenon DEF OAuthInv, Land, InHand
<1>2. loads' \in [Loaders -> [at : LoadStages, expires : 0..MaxTokens]]
  <2>1. \A l \in Loaders : /\ loads[l] \in [at : LoadStages, expires : 0..MaxTokens]
                           /\ LoadAt("reject", loads[l].expires) \in [at : LoadStages, expires : 0..MaxTokens]
    BY <1>1, OAuthFacts, Zenon DEF LoadAt, LoadStages
  <2> QED BY <2>1, EmptyTypes, Zenon DEF Land
<1>3. /\ NoFlight \in FlightRows /\ NoFlight.at = "none" /\ NoFlight.base[2] = 0 /\ NoFlight.got = NoPair
      /\ NoFlight.held = NoPair /\ NoFlight.refresh = NoToken
  BY EmptyTypes, Zenon DEF NoFlight, FlightRows, FlightStages, NoToken
<1>4. OAuthTypes'
  BY <1>1, <1>2, <1>3, OAuthFacts, SameTypes, Zenon
<1>5. PendingInv'
  BY <1>1, <1>3, EmptyTypes, OAuthFacts DEF OAuthInv, PendingInv, InHand, NoToken
<1>6. RotatingInv' /\ KeepingInv'
  BY <1>1, <1>3, EmptyTypes, Zenon DEF OAuthInv, RotatingInv, KeepingInv, NextToken, Identity, InHand
<1> QED BY <1>4, <1>5, <1>6, Zenon DEF OAuthInv

\* A reconnection has a token of its own, which no pending pair was derived from.
LEMMA ReconnectStep ==
  ASSUME OAuthInv, Reconnect
  PROVE  OAuthInv'
<1> DEFINE n == issuedTokens + 1
<1>1. /\ OAuthTypes /\ issuedTokens < MaxTokens /\ issuedTokens' = n /\ live' = live \cup {n}
      /\ UNCHANGED <<soon, past, rotates, loads, flight, pending, faults, lost>>
  BY Zenon DEF OAuthInv, Reconnect
<1>2. PICK e \in 0..MaxTokens : row' = [token |-> n, refresh |-> n, error |-> FALSE, expires |-> e]
  <2>1. n \in 0..MaxTokens /\ row.expires \in 0..MaxTokens
    BY <1>1, OAuthFacts
  <2> QED BY <2>1, Zenon DEF Reconnect
<1>3. n \in Nat /\ n \in Tokens /\ n \in 0..MaxTokens /\ live' \subseteq 1..n /\ issuedTokens < n /\ issuedTokens \in Nat
  BY <1>1, OAuthFacts DEF Tokens
<1>4. /\ row.token \in Nat /\ pending.base[2] \in Nat /\ flight.base[2] \in Nat
      /\ pending.pair.token \in Nat /\ flight.got.token \in Nat /\ soon \in Nat
  BY <1>1, OAuthFacts DEF IdentityType, PairType, FlightRows, Tokens, OAuthTypes
<1>5. pending.base[2] < n /\ flight.base[2] < n /\ pending.pair.token < n /\ flight.got.token < n
  BY <1>3, <1>4 DEF OAuthInv, PendingInv
<1>6. soon <= n
  BY <1>1, <1>3, <1>4 DEF OAuthTypes, OAuthTypeOK
<1>7. n \notin live
  BY <1>1, <1>3, OAuthFacts
<1> HIDE DEF n
<1>8. /\ row' \in [token : Tokens, refresh : 0..MaxTokens, expires : 0..MaxTokens, error : BOOLEAN]
      /\ row'.token = n /\ row'.refresh = n /\ Identity(row)'[2] = n
  BY <1>2, <1>3, Zenon DEF Identity
<1>9. pending.base # Identity(row)' /\ flight.base # Identity(row)' /\ NextToken' = n
  BY <1>1, <1>3, <1>4, <1>5, <1>8 DEF NextToken
<1>10. OAuthTypes'
  BY <1>1, <1>3, <1>6, <1>8, OAuthFacts, Zenon DEF OAuthTypes, OAuthTypeOK
<1>11. PendingInv'
  <2>1. /\ row'.token <= n /\ pending.base[2] <= n /\ flight.base[2] <= n
        /\ pending.pair.token <= n /\ flight.got.token <= n
    BY <1>3, <1>4, <1>5, <1>8
  <2> QED BY <1>1, <2>1, Zenon DEF OAuthInv, PendingInv
<1>12. RotatingInv'
  BY <1>1, <1>7, <1>8, <1>9, Zenon DEF OAuthInv, RotatingInv
<1>13. KeepingInv'
  BY <1>1, <1>8, Zenon DEF OAuthInv, KeepingInv
<1> QED BY <1>10, <1>11, <1>12, <1>13, Zenon DEF OAuthInv

\* The server restarts: what was only in memory is gone.
LEMMA OAuthRestartStep ==
  ASSUME OAuthInv, OAuthRestart
  PROVE  OAuthInv'
<1>1. /\ OAuthTypes /\ flight' = NoFlight /\ pending' = NoPending
      /\ loads' = [l \in Loaders |-> NoLoad] /\ faults < MaxOAuthFaults /\ faults' = faults + 1
      /\ lost' = (lost \/ pending # NoPending \/ flight.at \in {"find", "save"})
      /\ UNCHANGED <<row, soon, past, live, rotates, issuedTokens>>
  BY Zenon DEF OAuthInv, OAuthRestart
<1>2. faults' \in 0..MaxOAuthFaults
  <2>1. faults \in 0..MaxOAuthFaults
    BY <1>1, OAuthFacts, Zenon
  <2> QED BY <1>1, <2>1, OAuthAssumption
<1>3. /\ NoFlight \in FlightRows /\ NoFlight.at = "none" /\ NoFlight.base[2] = 0 /\ NoFlight.got = NoPair
      /\ NoFlight.held = NoPair /\ NoFlight.refresh = NoToken
  BY EmptyTypes, Zenon DEF NoFlight, FlightRows, FlightStages, NoToken
<1>4. loads' \in [Loaders -> [at : LoadStages, expires : 0..MaxTokens]] /\ lost' \in BOOLEAN
      /\ pending' \in [pair : PairType, base : IdentityType]
  BY <1>1, EmptyTypes, Zenon DEF OAuthTypes, OAuthTypeOK
<1>5. OAuthTypes'
  BY <1>1, <1>2, <1>3, <1>4, OAuthFacts, SameTypes, Zenon
<1>6. PendingInv'
  <2>1. /\ NoPending.base[2] <= issuedTokens /\ NoPending.pair.token <= issuedTokens
        /\ NoPair.token <= issuedTokens /\ 0 <= issuedTokens
    BY <1>1, EmptyTypes, OAuthFacts DEF NoToken
  <2> QED BY <1>1, <1>3, <2>1, Zenon DEF OAuthInv, PendingInv, InHand
<1>7. RotatingInv'
  <2> SUFFICES ASSUME rotates, ~lost' PROVE row.refresh \in live
    BY <1>1, <1>3, Zenon DEF RotatingInv, NextToken, InHand
  <2>1. ~lost /\ pending = NoPending /\ flight.at \notin {"find", "save"} /\ NextToken = row.refresh
    BY <1>1, Zenon DEF NextToken
  <2> QED BY <2>1, Zenon DEF OAuthInv, RotatingInv, InHand
<1>8. KeepingInv'
  BY <1>1, <1>3, EmptyTypes, Zenon DEF OAuthInv, KeepingInv
<1> QED BY <1>5, <1>6, <1>7, <1>8, Zenon DEF OAuthInv

\* A repository key can always be refreshed again (doRefreshOAuthToken and
\* persistRefreshedToken of credential_store.go), for any number of concurrent
\* loads, reconnections, attempts and faults: the refresh token the next refresh
\* redeems is one the provider accepts, unless an answer was lost.
THEOREM OAuthCorrect == OAuthSpec => []OAuthSafety
<1>1. OAuthInit => OAuthInv
  <2> SUFFICES ASSUME OAuthInit PROVE OAuthInv
    BY Zenon
  <2>1. /\ NoFlight \in FlightRows /\ NoFlight.at = "none" /\ NoFlight.base[2] = 0 /\ NoFlight.got = NoPair
        /\ NoFlight.held = NoPair /\ NoFlight.refresh = NoToken
    BY EmptyTypes, Zenon DEF NoFlight, FlightRows, FlightStages, NoToken
  <2>2. /\ 1 \in Tokens /\ 1 \in 0..MaxTokens /\ 0 \in 0..MaxOAuthFaults
    BY OAuthAssumption DEF Tokens
  <2>3. row = [token |-> 1, refresh |-> 1, expires |-> 1, error |-> FALSE] /\ live = {1} /\ issuedTokens = 1
        /\ flight = NoFlight /\ pending = NoPending /\ soon = 0 /\ past = 0 /\ lost = FALSE /\ rotates \in BOOLEAN
        /\ loads = [l \in Loaders |-> NoLoad] /\ faults = 0
    BY Zenon DEF OAuthInit
  <2>4. row \in [token : Tokens, refresh : 0..MaxTokens, expires : 0..MaxTokens, error : BOOLEAN]
        /\ row.token = 1 /\ row.refresh = 1
    BY <2>2, <2>3, Zenon
  <2>5. OAuthTypes
    <3>1. 0 <= past /\ past <= soon /\ soon <= issuedTokens /\ soon \in Nat /\ past \in Nat
          /\ live \subseteq 1..issuedTokens /\ issuedTokens \in Tokens
      BY <2>2, <2>3
    <3>2. loads \in [Loaders -> [at : LoadStages, expires : 0..MaxTokens]]
      BY <2>3, EmptyTypes, Zenon
    <3>3. flight \in FlightRows /\ pending \in [pair : PairType, base : IdentityType]
      BY <2>1, <2>3, EmptyTypes, Zenon
    <3>4. faults \in 0..MaxOAuthFaults /\ lost \in BOOLEAN /\ rotates \in BOOLEAN
      BY <2>2, <2>3, Zenon
    <3> QED BY <2>4, <3>1, <3>2, <3>3, <3>4, Zenon DEF OAuthTypes, OAuthTypeOK, FlightRows
  <2>6. PendingInv
    BY <2>1, <2>3, <2>4, EmptyTypes DEF PendingInv, InHand, NoToken
  <2>7. RotatingInv /\ KeepingInv
    BY <2>1, <2>3, <2>4, EmptyTypes, Zenon DEF RotatingInv, KeepingInv, NextToken, InHand
  <2> QED BY <2>5, <2>6, <2>7, Zenon DEF OAuthInv
<1>2. OAuthInv /\ [OAuthNext]_oauthVars => OAuthInv'
  <2> SUFFICES ASSUME OAuthInv, [OAuthNext]_oauthVars PROVE OAuthInv'
    BY Zenon
  <2>1. CASE UNCHANGED oauthVars
    <3>1. OAuthTypes'
      BY <2>1, Zenon DEF OAuthInv, OAuthTypes, OAuthTypeOK, oauthVars
    <3> QED BY <2>1, <3>1, SameHands, Zenon DEF OAuthInv, oauthVars
  <2> QED BY <2>1, LoadStep, DecideStep, RedeemStep, NoAnswerStep, PersistStep, LandStep,
             ReconnectStep, OAuthRestartStep, Zenon DEF OAuthNext
<1>3. OAuthInv => OAuthSafety
  <2> SUFFICES ASSUME OAuthInv PROVE OAuthSafety
    BY Zenon
  <2> DEFINE next == IF flight.at = "redeem" THEN flight.refresh
                     ELSE IF HeldPair # NoPair THEN HeldPair.refresh ELSE row.refresh
  <2>1. next = IF flight.at = "redeem" THEN flight.refresh ELSE NextToken
    BY HeldIsNext, Zenon
  <2>2. CASE rotates /\ ~lost
    BY <2>1, <2>2, Zenon DEF OAuthInv, RotatingInv, NextRefreshIsLive, OAuthSafety, OAuthTypes, InHand
  <2>3. CASE ~rotates
    <3>1. NextToken \in live \cup {NoToken} /\ flight.refresh \in live \cup {NoToken}
      BY <2>3, Zenon DEF OAuthInv, KeepingInv, NextToken
    <3>2. next \in live \/ next = NoToken
      BY <2>1, <3>1, Zenon
    <3> QED BY <2>3, <3>2, Zenon DEF OAuthInv, NextRefreshIsLive, OAuthSafety, OAuthTypes
  <2>4. CASE lost
    BY <2>4, Zenon DEF OAuthInv, NextRefreshIsLive, OAuthSafety, OAuthTypes
  <2> QED BY <2>2, <2>3, <2>4, Zenon
<1> QED BY <1>1, <1>2, <1>3, PTL DEF OAuthSpec
=============================================================================
