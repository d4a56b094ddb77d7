----------------------------- MODULE References ----------------------------
(***************************************************************************)
(* The rules the record hooks of internal/hooks enforce between rows:      *)
(* which key a repository may use, which keys, repositories and jobs may   *)
(* be deleted, which fields of a stack only its definition in git may      *)
(* change, and that there is one worker policy.                            *)
(*                                                                         *)
(* A hook reads other rows before the transaction of its own save starts.  *)
(* A request is therefore three steps: it loads its row, its hook checks   *)
(* what the database holds then, and the save commits the columns the      *)
(* request changed.  At the commit PocketBase itself handles references to *)
(* a deleted row: an optional one is cleared, a required one refuses the   *)
(* deletion.                                                               *)
(***************************************************************************)
EXTENDS Integers, FiniteSets

CONSTANTS
  Editors,     \* requests at work at the same time
  Families,    \* which rows a behaviour is about: the families are independent
  MaxSaves     \* bound on the requests that start

ASSUME ReferencesAssumption ==
  /\ IsFiniteSet(Editors) /\ MaxSaves \in Nat
  /\ Families \subseteq {"keys", "stacks", "jobs", "policy"}

VARIABLES
  family,      \* the rows this behaviour is about
  key,         \* [kept, type], a repository key
  repository,  \* [kept, url, key]
  managedStack, \* [kept, repository, field], a stack managed by a file in git
  parentJob,   \* [kept, children], a scheduled job and the rows that refer to it
  policies,    \* rows in worker_policies
  committed,   \* the definition in git
  bypass,      \* the stack is in bypassStacks
  editor,      \* what each request is doing, with its copy and its changes
  collided,    \* a request committed on what another has changed since
  saves

referenceVars == <<family, key, repository, managedStack, parentJob, policies, committed, bypass,
                   editor, collided, saves>>

KeyTypes == {"ssh_key", "basic"}
Urls == {"ssh", "http"}
Children == {"run", "env", "binding"}
Definitions == {"v1", "v2"}

KeyRows == [kept : BOOLEAN, type : KeyTypes]
RepositoryRows == [kept : BOOLEAN, url : Urls, key : BOOLEAN]
StackRows == [kept : BOOLEAN, repository : BOOLEAN, field : Definitions \cup {"typed"}]

OpsOf(f) ==
  CASE f = "keys"    -> {"patchRepository", "patchKey", "deleteKey"}
    [] f = "stacks"  -> {"createStack", "deleteRepository", "patchStack", "refresh"}
    [] f = "jobs"    -> {"deleteJob", "createChild", "deleteRepository"}
    [] f = "policy"  -> {"createPolicy"}
EditKinds == UNION {OpsOf(f) : f \in Families}

NoEdit == [op |-> "none", at |-> "rest", url |-> "http", key |-> FALSE,
           columns |-> {}, type |-> "basic", field |-> "v1"]
EditRecords == [op : EditKinds \cup {"none"}, at : {"rest", "hook", "commit"} \cup Children, url : Urls,
          key : BOOLEAN, columns : SUBSET {"url", "key"}, type : KeyTypes,
          field : Definitions \cup {"typed"}]

ReferencesTypeOK ==
  /\ family \in Families
  /\ key \in KeyRows /\ repository \in RepositoryRows /\ managedStack \in StackRows
  /\ parentJob \in [kept : BOOLEAN, children : SUBSET Children]
  /\ policies \in 0..Cardinality(Editors)
  /\ committed \in Definitions /\ bypass \in BOOLEAN /\ collided \in BOOLEAN
  /\ editor \in [Editors -> EditRecords] /\ saves \in 0..MaxSaves

ReferencesInit ==
  /\ family \in Families
  /\ key \in {[kept |-> TRUE, type |-> t] : t \in IF family = "keys" THEN KeyTypes
                                                  ELSE {"ssh_key"}}
  /\ repository = [kept |-> TRUE, url |-> "http", key |-> FALSE]
  /\ managedStack = [kept |-> FALSE, repository |-> FALSE, field |-> "v1"]
  /\ parentJob = [kept |-> family = "jobs", children |-> {}]
  /\ policies = 0 /\ committed = "v1" /\ bypass = FALSE
  /\ editor = [p \in Editors |-> NoEdit] /\ collided = FALSE /\ saves = 0

RuleRows == <<key, repository, managedStack, parentJob, policies>>
Doing(p, op, at) == editor[p].op = op /\ editor[p].at = at
GoesOn(p, at) == editor' = [editor EXCEPT ![p].at = at]
EndsEdit(p) == editor' = [editor EXCEPT ![p] = NoEdit]
\* Another request is between its hook and its commit.
Overlaps(p) == \E q \in Editors \ {p} : editor[q].at \notin {"rest", "hook"}
CommitsEdit(p) == EndsEdit(p) /\ collided' = (collided \/ Overlaps(p))

-----------------------------------------------------------------------------
\* The columns of the repository that a PATCH changes.
ChangedColumns(op, url, k) ==
  IF op # "patchRepository" THEN {}
  ELSE (IF url # repository.url THEN {"url"} ELSE {})
       \cup (IF k # repository.key THEN {"key"} ELSE {})

\* A request loads its row and applies its changes to the copy.
Load(p, op) ==
  /\ editor[p].at = "rest" /\ saves < MaxSaves /\ saves' = saves + 1
  /\ op \in OpsOf(family) \ {"refresh"}
  /\ \E url \in Urls, k \in BOOLEAN, type \in KeyTypes, field \in {"v1", "typed"} :
       /\ op # "patchRepository" => url = NoEdit.url /\ k = NoEdit.key
       /\ op # "patchKey" => type = NoEdit.type
       /\ field = IF op = "patchStack" THEN "typed" ELSE NoEdit.field
       /\ editor' = [editor EXCEPT ![p] =
            [op |-> op, at |-> "hook", url |-> url, key |-> k, type |-> type,
             columns |-> ChangedColumns(op, url, k),
             field |-> IF op = "createStack" THEN committed ELSE field]]
  /\ \/ op \in {"patchRepository", "deleteRepository"} /\ repository.kept
     \/ op \in {"patchKey", "deleteKey"} /\ key.kept
     \/ op = "createStack" /\ ~managedStack.kept
     \/ op = "patchStack" /\ managedStack.kept
     \/ op \in {"deleteJob", "createChild"} /\ parentJob.kept
     \/ op = "createPolicy"
  /\ UNCHANGED <<family, RuleRows, committed, bypass, collided>>

\* A refresh reads the definition in git under the stack lock, which admits one at a
\* time, and saves only what differs from the row.
ResyncDefinition(p) ==
  /\ editor[p].at = "rest" /\ saves < MaxSaves /\ saves' = saves + 1
  /\ family = "stacks" /\ managedStack.kept /\ managedStack.field # committed
  /\ \A q \in Editors : editor[q].op # "refresh"
  /\ editor' = [editor EXCEPT ![p] = [NoEdit EXCEPT !.op = "refresh", !.at = "hook",
                                                   !.field = committed]]
  /\ UNCHANGED <<family, RuleRows, committed, bypass, collided>>

\* validateRepositoryKeyAssignment: a repository reached over ssh needs an ssh key,
\* one reached over http none or a basic one.
KeyFits(url, k) ==
  IF url = "ssh" THEN k /\ key.kept /\ key.type = "ssh_key"
  ELSE k => key.kept /\ key.type = "basic"

\* The hook's verdict on what is in the database when it runs.
MayDeleteKey == ~(repository.kept /\ repository.key)
MayDeleteRepository ==
  ~(managedStack.kept /\ managedStack.repository) /\ ~(parentJob.kept /\ family = "jobs")
\* Mutant: a key's type may change.
KeyTypeImmutable_Off(type) == TRUE

KeyTypeImmutable(type) == type = key.type
WireopsFieldsImmutable(field) == bypass \/ field = managedStack.field
PolicyIsFirst == policies = 0

HookAccepts(p) ==
  LET e == editor[p] IN
  CASE e.op = "patchRepository"  -> KeyFits(e.url, e.key)
    [] e.op = "patchKey"         -> KeyTypeImmutable(e.type)
    [] e.op = "deleteKey"        -> MayDeleteKey
    [] e.op = "deleteRepository" -> MayDeleteRepository
    [] e.op = "patchStack"       -> WireopsFieldsImmutable(e.field)
    [] e.op = "createPolicy"     -> PolicyIsFirst
    [] OTHER                     -> TRUE

\* WithBypass surrounds the hook and the save of a refresh.
Hook(p) ==
  /\ editor[p].at = "hook"
  /\ IF HookAccepts(p) THEN GoesOn(p, IF editor[p].op = "deleteJob" THEN "run" ELSE "commit")
     ELSE EndsEdit(p)
  /\ bypass' = (bypass \/ editor[p].op = "refresh")
  /\ UNCHANGED <<family, RuleRows, committed, collided, saves>>

\* Mutant: the bindings are left to the database.
AfterSweep_SkipsBindings(child) == IF child = "run" THEN "env" ELSE "commit"

\* The hook of a job's deletion deletes its runs, then its variables, then its
\* bindings.  Each deletion commits by itself, and an error ends the request there.
AfterSweep(child) ==
  CASE child = "run" -> "env" [] child = "env" -> "binding" [] child = "binding" -> "commit"

SweepChildren(p) ==
  /\ editor[p].at \in Children
  /\ \/ /\ parentJob' = [parentJob EXCEPT !.children = @ \ {editor[p].at}]
        /\ GoesOn(p, AfterSweep(editor[p].at))
     \/ editor[p].at \in parentJob.children /\ EndsEdit(p) /\ UNCHANGED parentJob
  /\ UNCHANGED <<family, key, repository, managedStack, policies, committed, bypass,
                 collided, saves>>

-----------------------------------------------------------------------------
\* The commits.
PatchRepository(p) ==
  /\ Doing(p, "patchRepository", "commit")
  /\ repository' =
       [repository EXCEPT !.url = IF "url" \in editor[p].columns THEN editor[p].url ELSE @,
                          !.key = IF "key" \in editor[p].columns THEN editor[p].key ELSE @]
  /\ CommitsEdit(p) /\ UNCHANGED <<family, key, managedStack, parentJob, policies, committed, bypass, saves>>

PatchKey(p) ==
  /\ Doing(p, "patchKey", "commit")
  /\ key' = [key EXCEPT !.type = editor[p].type]
  /\ CommitsEdit(p)
  /\ UNCHANGED <<family, repository, managedStack, parentJob, policies, committed, bypass, saves>>

DeleteKey(p) ==
  /\ Doing(p, "deleteKey", "commit")
  /\ key' = [key EXCEPT !.kept = FALSE]
  /\ repository' = [repository EXCEPT !.key = FALSE]
  /\ CommitsEdit(p) /\ UNCHANGED <<family, managedStack, parentJob, policies, committed, bypass, saves>>

AddStack(p) ==
  /\ Doing(p, "createStack", "commit")
  /\ managedStack' = IF repository.kept /\ ~managedStack.kept
              THEN [kept |-> TRUE, repository |-> TRUE, field |-> editor[p].field]
              ELSE managedStack
  /\ CommitsEdit(p)
  /\ UNCHANGED <<family, key, repository, parentJob, policies, committed, bypass, saves>>

DropRepository(p) ==
  /\ Doing(p, "deleteRepository", "commit")
  /\ IF family = "jobs" /\ parentJob.kept THEN UNCHANGED <<repository, managedStack>>
     ELSE /\ repository' = [repository EXCEPT !.kept = FALSE]
          /\ managedStack' = [managedStack EXCEPT !.repository = FALSE]
  /\ CommitsEdit(p) /\ UNCHANGED <<family, key, parentJob, policies, committed, bypass, saves>>

PatchStack(p) ==
  /\ Doing(p, "patchStack", "commit")
  /\ managedStack' = [managedStack EXCEPT !.field = editor[p].field]
  /\ CommitsEdit(p)
  /\ UNCHANGED <<family, key, repository, parentJob, policies, committed, bypass, saves>>

\* Mutant: the bypass is not closed.
RefreshDefinition_StaysOpen(p) ==
  /\ Doing(p, "refresh", "commit")
  /\ managedStack' = [managedStack EXCEPT !.field = editor[p].field]
  /\ CommitsEdit(p)
  /\ UNCHANGED <<family, key, repository, parentJob, policies, committed, bypass, saves>>

RefreshDefinition(p) ==
  /\ Doing(p, "refresh", "commit")
  /\ managedStack' = [managedStack EXCEPT !.field = editor[p].field]
  /\ bypass' = FALSE
  /\ CommitsEdit(p)
  /\ UNCHANGED <<family, key, repository, parentJob, policies, committed, saves>>

DropJob(p) ==
  /\ Doing(p, "deleteJob", "commit")
  /\ parentJob' = IF parentJob.children = {} THEN [parentJob EXCEPT !.kept = FALSE] ELSE parentJob
  /\ CommitsEdit(p)
  /\ UNCHANGED <<family, key, repository, managedStack, policies, committed, bypass, saves>>

CreateChild(p) ==
  /\ Doing(p, "createChild", "commit")
  /\ \E c \in Children :
       parentJob' = IF parentJob.kept THEN [parentJob EXCEPT !.children = @ \cup {c}] ELSE parentJob
  /\ CommitsEdit(p)
  /\ UNCHANGED <<family, key, repository, managedStack, policies, committed, bypass, saves>>

CreatePolicy(p) ==
  /\ Doing(p, "createPolicy", "commit")
  /\ policies' = policies + 1
  /\ CommitsEdit(p)
  /\ UNCHANGED <<family, key, repository, managedStack, parentJob, committed, bypass, saves>>

PushDefinition ==
  /\ family = "stacks" /\ committed = "v1" /\ committed' = "v2"
  /\ UNCHANGED <<family, RuleRows, bypass, editor, collided, saves>>

ReferencesNext ==
  \/ PushDefinition
  \/ \E p \in Editors :
       \/ \E op \in EditKinds : Load(p, op)
       \/ ResyncDefinition(p)
       \/ Hook(p) \/ SweepChildren(p)
       \/ PatchRepository(p) \/ PatchKey(p) \/ DeleteKey(p)
       \/ AddStack(p) \/ DropRepository(p) \/ PatchStack(p) \/ RefreshDefinition(p)
       \/ DropJob(p) \/ CreateChild(p) \/ CreatePolicy(p)

ReferencesSpec == ReferencesInit /\ [][ReferencesNext]_referenceVars

-----------------------------------------------------------------------------
(* A repository has the key its URL needs, of a type that fits it            *)
(* (validateRepositoryKeyAssignment, validateRepositoryKeyTypeImmutable, the *)
(* guard on deleting a key), a stack has its repository, and there is one    *)
(* worker policy: these rules of the hooks hold in every state that no two   *)
(* requests reached together, each between its hook and its commit.          *)
RulesHoldUnlessTogether ==
  ~collided =>
    /\ repository.kept => KeyFits(repository.url, repository.key)
    /\ managedStack.kept => managedStack.repository /\ repository.kept
    /\ policies <= 1

(* A field that a definition in git manages only ever holds what git held,  *)
(* unless a PATCH of the stack ran while a refresh was between its bypass    *)
(* and its commit: WithBypass is keyed by the stack and not by the save.     *)
ManagedFieldsComeFromGit == ~collided => managedStack.field \in Definitions

(* A job's deletion that reaches its commit alone deletes the job: its hook  *)
(* has removed every row whose reference would refuse the deletion.          *)
JobDeletionCompletes ==
  \A p \in Editors :
    Doing(p, "deleteJob", "commit") /\ editor'[p].at = "rest" /\ ~collided'
      => ~parentJob'.kept

(* The rules of the record hooks hold for requests that do not overlap, and a *)
(* job's deletion completes.                                                  *)
ReferencesSafety ==
  [][/\ ReferencesTypeOK' /\ RulesHoldUnlessTogether'
     /\ ManagedFieldsComeFromGit' /\ JobDeletionCompletes]_referenceVars
============================================================================
