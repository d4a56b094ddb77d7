----------------------------- MODULE RowProofs ------------------------------
(***************************************************************************)
(* Rows that depend on other rows: the theorems of References and          *)
(* Relocation, for every value of their constants.                         *)
(***************************************************************************)
EXTENDS References, Relocation, FiniteSetTheorems, TLAPS

(***************************************************************************)
(* The rules between records, for any number of editors and saves. A hook  *)
(* looks and the commit follows later, so the invariant carries every      *)
(* verdict of a hook to its commit, for the requests that no other one     *)
(* collided with. That the policies stay fewer than the editors is proved  *)
(* by counting: every policy had an editor that found none.                *)
(***************************************************************************)

\* KeyFits, of a key that is given.
Fits(url, k, ky) ==
  IF url = "ssh" THEN k /\ ky.kept /\ ky.type = "ssh_key"
  ELSE k => ky.kept /\ ky.type = "basic"

\* What a request's hook has found, and the columns a PATCH of the repository
\* changes: it was read from a row that fitted.
Stands(e, ky, repo, st, kids, pol) ==
  /\ e.op = "patchRepository" =>
       /\ e.at = "commit" => Fits(e.url, e.key, ky)
       /\ ky.type = "ssh_key" /\ (e.url = "ssh" <=> e.key) =>
            e.columns = {} \/ ("url" \in e.columns /\ "key" \in e.columns)
       /\ ky.type = "basic" /\ e.url = "http" => "url" \notin e.columns
  /\ e.op = "patchKey" /\ e.at = "commit" => e.type = ky.type
  /\ e.op = "deleteKey" /\ e.at = "commit" => ~(repo.kept /\ repo.key)
  /\ e.op = "deleteRepository" /\ e.at = "commit" => ~(st.kept /\ st.repository)
  /\ e.op = "createPolicy" /\ e.at = "commit" => pol = 0
  /\ e.op = "deleteJob" /\ e.at = "commit" => kids = {}
  /\ e.at = "env" => "run" \notin kids
  /\ e.at = "binding" => "run" \notin kids /\ "env" \notin kids

\* The requests themselves.
EditsInv ==
  /\ editor \in [Editors -> EditRecords]
  /\ \A p \in Editors :
       /\ editor[p].at = "rest" <=> editor[p].op = "none"
       /\ editor[p].at \in Children => editor[p].op = "deleteJob"
       /\ editor[p].op \in {"refresh", "createStack"} => editor[p].field \in Definitions
       /\ editor[p].op = "patchStack" => editor[p].field = "typed"
       /\ editor[p].op = "refresh" => \A q \in Editors : editor[q].op = "refresh" => q = p
  /\ bypass => \E q \in Editors : Doing(q, "refresh", "commit")

\* A hook's verdict stands until its commit, as long as no two requests collide.
VerdictsInv ==
  ~collided =>
    /\ repository.kept => Fits(repository.url, repository.key, key)
    /\ managedStack.kept => managedStack.repository /\ repository.kept
    /\ policies <= 1 /\ managedStack.field \in Definitions
    /\ \A p \in Editors :
         /\ Stands(editor[p], key, repository, managedStack, parentJob.children, policies)
         /\ Doing(p, "patchStack", "commit") => \E q \in Editors : Doing(q, "refresh", "commit")

RulesTypes ==
  /\ family \in Families
  /\ key \in KeyRows /\ repository \in RepositoryRows /\ managedStack \in StackRows
  /\ parentJob \in [kept : BOOLEAN, children : SUBSET Children]
  /\ policies \in Nat /\ committed \in Definitions /\ bypass \in BOOLEAN
  /\ collided \in BOOLEAN /\ saves \in 0..MaxSaves

\* Every policy that was created, and every one that will be, had an editor of
\* its own that found none.
PolicyInv ==
  policies > 0 =>
    policies + Cardinality({p \in Editors : Doing(p, "createPolicy", "commit")}) <= Cardinality(Editors)

ReferencesInv == RulesTypes /\ EditsInv /\ VerdictsInv /\ PolicyInv

\* A step of one request.
LEMMA EditStep ==
  ASSUME editor \in [Editors -> EditRecords], NEW p \in Editors
  PROVE  /\ \A at \in {"rest", "hook", "commit"} \cup Children : GoesOn(p, at) =>
              /\ editor' \in [Editors -> EditRecords] /\ \A q \in Editors \ {p} : editor'[q] = editor[q]
              /\ editor'[p].at = at /\ editor'[p].op = editor[p].op /\ editor'[p].url = editor[p].url
              /\ editor'[p].key = editor[p].key /\ editor'[p].columns = editor[p].columns
              /\ editor'[p].type = editor[p].type /\ editor'[p].field = editor[p].field
         /\ EndsEdit(p) =>
              /\ editor' \in [Editors -> EditRecords] /\ \A q \in Editors \ {p} : editor'[q] = editor[q]
              /\ editor'[p] = NoEdit
         /\ NoEdit \in EditRecords /\ NoEdit.op = "none" /\ NoEdit.at = "rest"
<1>1. NoEdit \in EditRecords /\ NoEdit.op = "none" /\ NoEdit.at = "rest"
  BY Zenon DEF NoEdit, EditRecords, Urls, KeyTypes, Definitions
<1>2. ASSUME NEW at \in {"rest", "hook", "commit"} \cup Children, GoesOn(p, at)
      PROVE  /\ editor' \in [Editors -> EditRecords] /\ \A q \in Editors \ {p} : editor'[q] = editor[q]
             /\ editor'[p].at = at /\ editor'[p].op = editor[p].op /\ editor'[p].url = editor[p].url
             /\ editor'[p].key = editor[p].key /\ editor'[p].columns = editor[p].columns
             /\ editor'[p].type = editor[p].type /\ editor'[p].field = editor[p].field
  <2>1. PICK e \in EditRecords : e = editor[p]
    BY Zenon
  <2>2. editor' = [editor EXCEPT ![p] = [e EXCEPT !.at = at]]
    BY <1>2, <2>1, Zenon DEF GoesOn
  <2>3. PICK g : g = [e EXCEPT !.at = at]
    BY Zenon
  <2>4. /\ g \in EditRecords /\ g.at = at /\ g.op = e.op /\ g.url = e.url /\ g.key = e.key
        /\ g.columns = e.columns /\ g.type = e.type /\ g.field = e.field
    BY <2>1, <2>3, Zenon DEF EditRecords
  <2>5. editor' = [editor EXCEPT ![p] = g]
    BY <2>2, <2>3, Zenon
  <2> QED BY <2>1, <2>4, <2>5, Zenon
<1>3. ASSUME EndsEdit(p)
      PROVE  /\ editor' \in [Editors -> EditRecords] /\ \A q \in Editors \ {p} : editor'[q] = editor[q]
             /\ editor'[p] = NoEdit
  BY <1>1, <1>3, Zenon DEF EndsEdit
<1> QED BY <1>1, <1>2, <1>3, Zenon

\* The counted editors are finitely many.
LEMMA PolicyCount ==
  ASSUME NEW S \in SUBSET Editors
  PROVE  /\ IsFiniteSet(S) /\ Cardinality(S) \in Nat /\ Cardinality(Editors) \in Nat
         /\ Cardinality(S) <= Cardinality(Editors)
         /\ \A T \in SUBSET S : Cardinality(T) <= Cardinality(S) /\ Cardinality(T) \in Nat
         /\ \A p \in S : Cardinality(S \ {p}) = Cardinality(S) - 1
<1>1. IsFiniteSet(S) /\ Cardinality(S) \in Nat /\ Cardinality(Editors) \in Nat
      /\ Cardinality(S) <= Cardinality(Editors)
  BY ReferencesAssumption, FS_Subset, FS_CardinalityType, Zenon
<1>2. ASSUME NEW T \in SUBSET S PROVE Cardinality(T) <= Cardinality(S) /\ Cardinality(T) \in Nat
  BY <1>1, FS_Subset, FS_CardinalityType, Zenon
<1>3. ASSUME NEW p \in S PROVE Cardinality(S \ {p}) = Cardinality(S) - 1
  BY <1>1, FS_RemoveElement, Zenon
<1> QED BY <1>1, <1>2, <1>3, Zenon

\* Policies are counted whatever a request does: it creates one, or it passes
\* its hook only when there is none.
LEMMA PolicyStep ==
  ASSUME ReferencesInv, editor' \in [Editors -> EditRecords], NEW p \in Editors,
         \A q \in Editors \ {p} : editor'[q] = editor[q],
         \/ /\ policies' = policies
            /\ Doing(p, "createPolicy", "commit")' => Doing(p, "createPolicy", "commit") \/ policies = 0
         \/ /\ policies' = policies + 1 /\ Doing(p, "createPolicy", "commit")
            /\ ~Doing(p, "createPolicy", "commit")'
  PROVE  PolicyInv' /\ policies' \in Nat
<1> DEFINE S == {q \in Editors : Doing(q, "createPolicy", "commit")}
           T == {q \in Editors : Doing(q, "createPolicy", "commit")'}
<1>1. policies \in Nat /\ (policies > 0 => policies + Cardinality(S) <= Cardinality(Editors))
  BY Zenon DEF ReferencesInv, RulesTypes, PolicyInv
<1>2. S \in SUBSET Editors
  BY Zenon
<1>3. \A q \in Editors \ {p} : Doing(q, "createPolicy", "commit")' <=> Doing(q, "createPolicy", "commit")
  BY Zenon DEF Doing
<1>4. CASE policies' = policies /\ (Doing(p, "createPolicy", "commit")' => Doing(p, "createPolicy", "commit"))
  <2>1. T \in SUBSET S
    BY <1>3, <1>4, Zenon
  <2> HIDE DEF S, T
  <2>2. policies > 0 => policies + Cardinality(T) <= Cardinality(Editors)
    BY <1>1, <1>2, <2>1, PolicyCount
  <2> QED BY <1>1, <1>4, <2>2, Zenon DEF PolicyInv, T
<1>5. CASE policies' = policies /\ policies = 0
  BY <1>1, <1>5 DEF PolicyInv
<1>6. CASE policies' = policies + 1 /\ Doing(p, "createPolicy", "commit") /\ ~Doing(p, "createPolicy", "commit")'
  <2>1. p \in S /\ T = S \ {p}
    BY <1>3, <1>6, Zenon
  <2> HIDE DEF S, T
  <2>2. Cardinality(T) = Cardinality(S) - 1 /\ Cardinality(S) <= Cardinality(Editors)
        /\ Cardinality(S) \in Nat /\ Cardinality(Editors) \in Nat
    BY <1>2, <2>1, PolicyCount, Zenon
  <2>3. policies + 1 + Cardinality(T) <= Cardinality(Editors)
    BY <1>1, <2>2
  <2> QED BY <1>1, <1>6, <2>3 DEF PolicyInv, T
<1> QED BY <1>4, <1>5, <1>6, Zenon

\* A request that ends, with its commit or without.
LEMMA EndedEdits ==
  ASSUME EditsInv, NEW p \in Editors, EndsEdit(p), bypass' => bypass /\ ~Doing(p, "refresh", "commit")
  PROVE  EditsInv'
<1>1. /\ editor' \in [Editors -> EditRecords] /\ \A q \in Editors \ {p} : editor'[q] = editor[q]
      /\ editor'[p].op = "none" /\ editor'[p].at = "rest"
  BY EditStep, Zenon DEF EditsInv
<1>2. bypass' => (\E q \in Editors : Doing(q, "refresh", "commit"))'
  BY <1>1, Zenon DEF EditsInv, Doing
<1>3. ASSUME NEW q \in Editors
      PROVE  /\ editor'[q].at = "rest" <=> editor'[q].op = "none"
             /\ editor'[q].at \in Children => editor'[q].op = "deleteJob"
             /\ editor'[q].op \in {"refresh", "createStack"} => editor'[q].field \in Definitions
             /\ editor'[q].op = "patchStack" => editor'[q].field = "typed"
             /\ editor'[q].op = "refresh" => \A r \in Editors : editor'[r].op = "refresh" => r = q
  <2>1. CASE q = p
    BY <1>1, <2>1, Zenon DEF Children
  <2>2. CASE q # p
    BY <1>1, <2>2 DEF EditsInv
  <2> QED BY <2>1, <2>2, Zenon
<1> QED BY <1>1, <1>2, <1>3, Zenon DEF EditsInv

\* A commit that no other request's check overlaps leaves the checks that are
\* still to come as they were.
LEMMA CommitStep ==
  ASSUME EditsInv, VerdictsInv, RulesTypes, NEW p \in Editors, NEW op, Doing(p, op, "commit"),
         CommitsEdit(p), bypass' => bypass /\ op # "refresh",
         ~collided /\ ~Overlaps(p) =>
           /\ key'.type = key.type
           /\ repository'.kept => Fits(repository'.url, repository'.key, key')
           /\ managedStack'.kept => managedStack'.repository /\ repository'.kept
           /\ policies' <= 1 /\ managedStack'.field \in Definitions
  PROVE  EditsInv' /\ VerdictsInv' /\ collided' \in BOOLEAN
<1>1. EndsEdit(p) /\ collided' = (collided \/ Overlaps(p)) /\ collided' \in BOOLEAN
  BY Zenon DEF CommitsEdit, RulesTypes
<1>2. EditsInv'
  BY <1>1, EndedEdits, Zenon DEF Doing
<1>3. /\ \A q \in Editors \ {p} : editor'[q] = editor[q]
      /\ editor'[p].op = "none" /\ editor'[p].at = "rest"
  BY <1>1, EditStep, Zenon DEF EditsInv
<1>4. ASSUME ~collided'
      PROVE  \A q \in Editors :
               /\ Stands(editor'[q], key', repository', managedStack', parentJob'.children, policies')
               /\ ~Doing(q, "patchStack", "commit")'
  <2>1. ~collided /\ ~Overlaps(p) /\ key'.type = key.type
    BY <1>1, <1>4, Zenon
  <2> SUFFICES ASSUME NEW q \in Editors
               PROVE  /\ Stands(editor'[q], key', repository', managedStack', parentJob'.children, policies')
                      /\ ~Doing(q, "patchStack", "commit")'
    BY Zenon
  <2>2. CASE q = p
    BY <1>3, <2>2, Zenon DEF Stands, Doing
  <2>3. CASE q # p
    <3>1. editor'[q] = editor[q] /\ editor[q].at \in {"rest", "hook"}
      BY <1>3, <2>1, <2>3, Zenon DEF Overlaps
    <3>2. Stands(editor[q], key, repository, managedStack, parentJob.children, policies)
      BY <2>1, Zenon DEF VerdictsInv
    <3> QED BY <2>1, <3>1, <3>2, Zenon DEF Stands, Doing
  <2> QED BY <2>2, <2>3, Zenon
<1>5. VerdictsInv'
  BY <1>1, <1>4, Zenon DEF VerdictsInv
<1> QED BY <1>1, <1>2, <1>5, Zenon

\* A step that commits no row.
LEMMA QuietStep ==
  ASSUME EditsInv, VerdictsInv, NEW p \in Editors,
         UNCHANGED <<key, repository, managedStack, policies, collided>>,
         parentJob'.children \subseteq parentJob.children,
         \A q \in Editors \ {p} : editor'[q] = editor[q],
         ~Doing(p, "refresh", "commit"),
         ~collided =>
           /\ Stands(editor'[p], key, repository, managedStack, parentJob'.children, policies)
           /\ Doing(p, "patchStack", "commit")' => bypass
  PROVE  VerdictsInv'
<1> SUFFICES ASSUME ~collided PROVE VerdictsInv'
  BY Zenon DEF VerdictsInv
<1>1. ASSUME NEW q \in Editors
      PROVE  Stands(editor'[q], key, repository, managedStack, parentJob'.children, policies)
  <2>1. CASE q = p
    BY <2>1, Zenon
  <2>2. CASE q # p
    <3>1. Stands(editor[q], key, repository, managedStack, parentJob.children, policies) /\ editor'[q] = editor[q]
      BY <2>2, Zenon DEF VerdictsInv
    <3> QED BY <3>1 DEF Stands
  <2> QED BY <2>1, <2>2, Zenon
<1>2. ASSUME NEW q \in Editors, Doing(q, "refresh", "commit") PROVE Doing(q, "refresh", "commit")'
  BY <1>2, Zenon DEF Doing
<1>3. ASSUME NEW q \in Editors, Doing(q, "patchStack", "commit")'
      PROVE  \E r \in Editors : Doing(r, "refresh", "commit")
  <2>1. CASE q = p
    BY <1>3, <2>1, Zenon DEF EditsInv
  <2>2. CASE q # p
    <3>1. Doing(q, "patchStack", "commit")
      BY <1>3, <2>2, Zenon DEF Doing
    <3> QED BY <3>1, Zenon DEF VerdictsInv
  <2> QED BY <2>1, <2>2, Zenon
<1>4. ASSUME NEW q \in Editors, Doing(q, "patchStack", "commit")'
      PROVE  \E r \in Editors : Doing(r, "refresh", "commit")'
  BY <1>2, <1>3, <1>4, Zenon
<1> QED BY <1>1, <1>4, Zenon DEF VerdictsInv

\* Load: the copy that is read, with the columns it changes.
LEMMA LoadStep ==
  ASSUME ReferencesInv, NEW p \in Editors, NEW op \in EditKinds, Load(p, op)
  PROVE  ReferencesInv'
<1>1. PICK url \in Urls, k \in BOOLEAN, type \in KeyTypes, field \in {"v1", "typed"} :
        /\ op # "patchRepository" => url = NoEdit.url /\ k = NoEdit.key
        /\ op # "patchKey" => type = NoEdit.type
        /\ field = IF op = "patchStack" THEN "typed" ELSE NoEdit.field
        /\ editor' = [editor EXCEPT ![p] =
             [op |-> op, at |-> "hook", url |-> url, key |-> k, type |-> type,
              columns |-> ChangedColumns(op, url, k),
              field |-> IF op = "createStack" THEN committed ELSE field]]
  BY Zenon DEF Load
<1>2. PICK f \in Definitions \cup {"typed"} : f = IF op = "createStack" THEN committed ELSE field
  BY Zenon DEF ReferencesInv, RulesTypes, Definitions
<1>3. PICK c \in SUBSET {"url", "key"} : c = ChangedColumns(op, url, k)
  BY Zenon DEF ChangedColumns
<1>4. PICK e : e = [op |-> op, at |-> "hook", url |-> url, key |-> k, type |-> type, columns |-> c, field |-> f]
  BY Zenon
<1>5. /\ e \in EditRecords /\ e.op = op /\ e.at = "hook" /\ e.url = url /\ e.key = k /\ e.columns = c
      /\ e.field = f
  BY <1>1, <1>2, <1>3, <1>4, Zenon DEF EditRecords
<1>6. editor' = [editor EXCEPT ![p] = e]
  BY <1>1, <1>2, <1>3, <1>4, Zenon
<1>7. /\ editor' \in [Editors -> EditRecords] /\ \A q \in Editors \ {p} : editor'[q] = editor[q]
      /\ editor'[p] = e /\ editor[p].at = "rest"
  BY <1>5, <1>6 DEF ReferencesInv, EditsInv, Load
<1>8. op # "refresh" /\ op # "none"
  BY ReferencesAssumption, Zenon DEF Load, ReferencesInv, RulesTypes, OpsOf
<1>9. UNCHANGED <<family, key, repository, managedStack, parentJob, policies, committed, bypass, collided>>
      /\ saves' \in 0..MaxSaves
  BY ReferencesAssumption DEF Load, RuleRows, ReferencesInv, RulesTypes
<1>10. RulesTypes'
  BY <1>9, Zenon DEF ReferencesInv, RulesTypes
<1>11. PolicyInv'
  BY <1>5, <1>7, <1>9, PolicyStep, Zenon DEF Doing
<1>12. (op = "createStack" => f \in Definitions) /\ (op = "patchStack" => f = "typed")
  BY <1>1, <1>2, Zenon DEF ReferencesInv, RulesTypes
<1>13. EditsInv'
  <2>1. bypass' => (\E q \in Editors : Doing(q, "refresh", "commit"))'
    BY <1>7, <1>9 DEF ReferencesInv, EditsInv, Doing
  <2>2. ASSUME NEW q \in Editors
        PROVE  /\ editor'[q].at = "rest" <=> editor'[q].op = "none"
               /\ editor'[q].at \in Children => editor'[q].op = "deleteJob"
               /\ editor'[q].op \in {"refresh", "createStack"} => editor'[q].field \in Definitions
               /\ editor'[q].op = "patchStack" => editor'[q].field = "typed"
               /\ editor'[q].op = "refresh" => \A r \in Editors : editor'[r].op = "refresh" => r = q
    <3>1. CASE q = p
      BY <1>5, <1>7, <1>8, <1>12, <3>1, Zenon DEF Children
    <3>2. CASE q # p
      BY <1>5, <1>7, <1>8, <3>2 DEF ReferencesInv, EditsInv
    <3> QED BY <3>1, <3>2, Zenon
  <2> QED BY <1>7, <2>1, <2>2, Zenon DEF EditsInv
<1>14. VerdictsInv'
  <2>1. ~collided => Stands(e, key, repository, managedStack, parentJob.children, policies)
    <3> SUFFICES ASSUME ~collided, op = "patchRepository"
                 PROVE  /\ key.type = "ssh_key" /\ (url = "ssh" <=> k) =>
                             c = {} \/ ("url" \in c /\ "key" \in c)
                        /\ key.type = "basic" /\ url = "http" => "url" \notin c
      BY <1>5, Zenon DEF Stands, Children
    <3>1. repository.kept /\ Fits(repository.url, repository.key, key)
      BY Zenon DEF Load, ReferencesInv, VerdictsInv
    <3>2. repository.url \in Urls /\ repository.key \in BOOLEAN /\ key.type \in KeyTypes
      BY Zenon DEF ReferencesInv, RulesTypes, RepositoryRows, KeyRows
    <3>3. c = (IF url # repository.url THEN {"url"} ELSE {}) \cup (IF k # repository.key THEN {"key"} ELSE {})
      BY <1>3, Zenon DEF ChangedColumns
    <3> QED BY <3>1, <3>2, <3>3, Zenon DEF Fits, Urls, KeyTypes
  <2> QED BY <1>5, <1>7, <1>9, <2>1, QuietStep, Zenon DEF ReferencesInv, Doing
<1> QED BY <1>10, <1>11, <1>13, <1>14, Zenon DEF ReferencesInv

\* ResyncDefinition: one refresh at a time, of what git holds.
LEMMA ResyncStep ==
  ASSUME ReferencesInv, NEW p \in Editors, ResyncDefinition(p)
  PROVE  ReferencesInv'
<1>1. "refresh" \in EditKinds
  <2>1. "stacks" \in Families /\ "refresh" \in OpsOf("stacks")
    BY Zenon DEF ResyncDefinition, ReferencesInv, RulesTypes, OpsOf
  <2> QED BY <2>1, Zenon DEF EditKinds
<1>2. committed \in Definitions
  BY Zenon DEF ReferencesInv, RulesTypes
<1>3. PICK e : e = [NoEdit EXCEPT !.op = "refresh", !.at = "hook", !.field = committed]
  BY Zenon
<1>4. e \in EditRecords /\ e.op = "refresh" /\ e.at = "hook" /\ e.field = committed
  BY <1>1, <1>2, <1>3, Zenon DEF EditRecords, NoEdit, Urls, KeyTypes
<1>5. editor' = [editor EXCEPT ![p] = e]
  BY <1>3, Zenon DEF ResyncDefinition
<1>6. /\ editor' \in [Editors -> EditRecords] /\ \A q \in Editors \ {p} : editor'[q] = editor[q]
      /\ editor'[p] = e /\ editor[p].at = "rest" /\ \A q \in Editors : editor[q].op # "refresh"
  BY <1>4, <1>5 DEF ReferencesInv, EditsInv, ResyncDefinition
<1>7. UNCHANGED <<family, key, repository, managedStack, parentJob, policies, committed, bypass, collided>>
      /\ saves' \in 0..MaxSaves
  BY ReferencesAssumption DEF ResyncDefinition, RuleRows, ReferencesInv, RulesTypes
<1>8. RulesTypes'
  BY <1>7, Zenon DEF ReferencesInv, RulesTypes
<1>9. PolicyInv'
  BY <1>4, <1>6, <1>7, PolicyStep, Zenon DEF Doing
<1>10. EditsInv'
  <2>1. bypass' => (\E q \in Editors : Doing(q, "refresh", "commit"))'
    BY <1>6, <1>7, Zenon DEF ReferencesInv, EditsInv, Doing
  <2>2. ASSUME NEW q \in Editors
        PROVE  /\ editor'[q].at = "rest" <=> editor'[q].op = "none"
               /\ editor'[q].at \in Children => editor'[q].op = "deleteJob"
               /\ editor'[q].op \in {"refresh", "createStack"} => editor'[q].field \in Definitions
               /\ editor'[q].op = "patchStack" => editor'[q].field = "typed"
               /\ editor'[q].op = "refresh" => \A r \in Editors : editor'[r].op = "refresh" => r = q
    <3>1. CASE q = p
      BY <1>2, <1>4, <1>6, <3>1, Zenon DEF Children
    <3>2. CASE q # p
      BY <1>4, <1>6, <3>2 DEF ReferencesInv, EditsInv
    <3> QED BY <3>1, <3>2, Zenon
  <2> QED BY <1>6, <2>1, <2>2, Zenon DEF EditsInv
<1>11. VerdictsInv'
  <2>1. Stands(e, key, repository, managedStack, parentJob.children, policies)
    BY <1>4, Zenon DEF Stands, Children
  <2> QED BY <1>4, <1>6, <1>7, <2>1, QuietStep, Zenon DEF ReferencesInv, Doing
<1> QED BY <1>8, <1>9, <1>10, <1>11, Zenon DEF ReferencesInv

\* Hook: what it accepts goes on to its commit with a verdict that is true now.
LEMMA HookStep ==
  ASSUME ReferencesInv, NEW p \in Editors, Hook(p)
  PROVE  ReferencesInv'
<1>1. UNCHANGED <<family, key, repository, managedStack, parentJob, policies, committed, collided, saves>>
  BY Zenon DEF Hook, RuleRows
<1>2. /\ editor[p].at = "hook" /\ bypass \in BOOLEAN /\ bypass' = (bypass \/ editor[p].op = "refresh")
      /\ EditsInv /\ VerdictsInv /\ editor \in [Editors -> EditRecords]
  BY Zenon DEF Hook, ReferencesInv, RulesTypes, EditsInv
<1>3. RulesTypes'
  BY <1>1, <1>2, Zenon DEF ReferencesInv, RulesTypes
<1>4. CASE HookAccepts(p)
  <2>1. PICK at \in {"run", "commit"} : at = IF editor[p].op = "deleteJob" THEN "run" ELSE "commit"
    BY Zenon
  <2>2. /\ editor' \in [Editors -> EditRecords] /\ \A q \in Editors \ {p} : editor'[q] = editor[q]
        /\ editor'[p].at = at /\ editor'[p].op = editor[p].op /\ editor'[p].url = editor[p].url
        /\ editor'[p].key = editor[p].key /\ editor'[p].columns = editor[p].columns
        /\ editor'[p].type = editor[p].type /\ editor'[p].field = editor[p].field
    <3>1. GoesOn(p, at) /\ at \in {"rest", "hook", "commit"} \cup Children
      BY <1>4, <2>1, Zenon DEF Hook, Children
    <3> QED BY <1>2, <3>1, EditStep, Zenon
  <2>3. bypass' => (\E q \in Editors : Doing(q, "refresh", "commit"))'
    <3>1. CASE editor[p].op = "refresh"
      BY <2>1, <2>2, <3>1, Zenon DEF Doing
    <3>2. CASE editor[p].op # "refresh"
      BY <1>2, <2>2, <3>2 DEF EditsInv, Doing
    <3> QED BY <3>1, <3>2, Zenon
  <2>4. EditsInv'
    <3>1. ASSUME NEW q \in Editors
          PROVE  /\ editor'[q].at = "rest" <=> editor'[q].op = "none"
                 /\ editor'[q].at \in Children => editor'[q].op = "deleteJob"
                 /\ editor'[q].op \in {"refresh", "createStack"} => editor'[q].field \in Definitions
                 /\ editor'[q].op = "patchStack" => editor'[q].field = "typed"
                 /\ editor'[q].op = "refresh" => \A r \in Editors : editor'[r].op = "refresh" => r = q
      <4>1. \A r \in Editors : editor'[r].op = editor[r].op /\ editor'[r].field = editor[r].field
        BY <2>2, Zenon
      <4>2. CASE q = p
        BY <1>2, <2>1, <2>2, <4>1, <4>2 DEF EditsInv, Children
      <4>3. CASE q # p
        BY <1>2, <2>2, <4>1, <4>3 DEF EditsInv
      <4> QED BY <4>2, <4>3, Zenon
    <3> QED BY <2>2, <2>3, <3>1, Zenon DEF EditsInv
  <2>5. /\ editor[p].op = "patchRepository" => Fits(editor[p].url, editor[p].key, key)
        /\ editor[p].op = "patchKey" => editor[p].type = key.type
        /\ editor[p].op = "deleteKey" => ~(repository.kept /\ repository.key)
        /\ editor[p].op = "deleteRepository" => ~(managedStack.kept /\ managedStack.repository)
        /\ editor[p].op = "patchStack" => bypass \/ editor[p].field = managedStack.field
        /\ editor[p].op = "createPolicy" => policies = 0
    BY <1>4, Zenon DEF HookAccepts, KeyFits, KeyTypeImmutable, MayDeleteKey, MayDeleteRepository,
                WireopsFieldsImmutable, PolicyIsFirst, Fits
  <2>6. PolicyInv'
    BY <1>1, <2>2, <2>5, PolicyStep, Zenon DEF Doing
  <2>7. VerdictsInv'
    <3>1. ~collided => Stands(editor'[p], key, repository, managedStack, parentJob.children, policies)
      <4>1. ~collided => Stands(editor[p], key, repository, managedStack, parentJob.children, policies)
        BY <1>2, Zenon DEF VerdictsInv
      <4> QED BY <2>1, <2>2, <2>5, <4>1, Zenon DEF Stands
    <3>2. ~collided => (Doing(p, "patchStack", "commit")' => bypass)
      BY <1>2, <2>2, <2>5, Zenon DEF VerdictsInv, EditsInv, Doing, Definitions
    <3> QED BY <1>1, <1>2, <2>2, <3>1, <3>2, QuietStep, Zenon DEF Doing
  <2> QED BY <1>3, <2>4, <2>6, <2>7, Zenon DEF ReferencesInv
<1>5. CASE ~HookAccepts(p)
  <2>1. EndsEdit(p) /\ editor[p].op # "refresh"
    BY <1>5, Zenon DEF Hook, HookAccepts
  <2>2. EditsInv'
    BY <1>2, <2>1, EndedEdits, Zenon DEF Doing
  <2>3. /\ editor' \in [Editors -> EditRecords] /\ \A q \in Editors \ {p} : editor'[q] = editor[q]
        /\ editor'[p].op = "none" /\ editor'[p].at = "rest"
    BY <1>2, <2>1, EditStep, Zenon
  <2>4. PolicyInv'
    BY <1>1, <2>3, PolicyStep, Zenon DEF Doing
  <2>5. Stands(editor'[p], key, repository, managedStack, parentJob.children, policies)
    BY <2>3, Zenon DEF Stands
  <2>6. VerdictsInv'
    BY <1>1, <1>2, <2>3, <2>5, QuietStep, Zenon DEF Doing
  <2> QED BY <1>3, <2>2, <2>4, <2>6, Zenon DEF ReferencesInv
<1> QED BY <1>4, <1>5, Zenon

\* SweepChildren: the kinds of rows a deletion has swept stay gone until its commit.
LEMMA SweepStep ==
  ASSUME ReferencesInv, NEW p \in Editors, SweepChildren(p)
  PROVE  ReferencesInv'
<1>1. UNCHANGED <<family, key, repository, managedStack, policies, committed, bypass, collided, saves>>
  BY Zenon DEF SweepChildren
<1>2. /\ editor[p].at \in Children /\ editor[p].op = "deleteJob" /\ EditsInv /\ VerdictsInv
      /\ editor \in [Editors -> EditRecords] /\ parentJob \in [kept : BOOLEAN, children : SUBSET Children]
  BY Zenon DEF SweepChildren, ReferencesInv, RulesTypes, EditsInv
<1>3. CASE /\ parentJob' = [parentJob EXCEPT !.children = @ \ {editor[p].at}]
           /\ GoesOn(p, AfterSweep(editor[p].at))
  <2>1. /\ parentJob' \in [kept : BOOLEAN, children : SUBSET Children]
        /\ parentJob'.children = parentJob.children \ {editor[p].at}
    BY <1>2, <1>3, Zenon
  <2>2. PICK at \in {"env", "binding", "commit"} : at = AfterSweep(editor[p].at)
    BY <1>2, Zenon DEF AfterSweep, Children
  <2>3. GoesOn(p, at) /\ at \in {"rest", "hook", "commit"} \cup Children
    BY <1>3, <2>2, Zenon DEF Children
  <2>4. /\ editor' \in [Editors -> EditRecords] /\ \A q \in Editors \ {p} : editor'[q] = editor[q]
        /\ editor'[p].at = at /\ editor'[p].op = "deleteJob"
    BY <1>2, <2>3, EditStep, Zenon
  <2>5. RulesTypes'
    BY <1>1, <2>1, Zenon DEF ReferencesInv, RulesTypes
  <2>6. PolicyInv'
    BY <1>1, <2>4, PolicyStep, Zenon DEF Doing
  <2>7. EditsInv'
    <3>1. bypass' => (\E q \in Editors : Doing(q, "refresh", "commit"))'
      BY <1>1, <1>2, <2>4, Zenon DEF EditsInv, Doing
    <3>2. ASSUME NEW q \in Editors
          PROVE  /\ editor'[q].at = "rest" <=> editor'[q].op = "none"
                 /\ editor'[q].at \in Children => editor'[q].op = "deleteJob"
                 /\ editor'[q].op \in {"refresh", "createStack"} => editor'[q].field \in Definitions
                 /\ editor'[q].op = "patchStack" => editor'[q].field = "typed"
                 /\ editor'[q].op = "refresh" => \A r \in Editors : editor'[r].op = "refresh" => r = q
      <4>1. CASE q = p
        BY <2>4, <4>1, Zenon
      <4>2. CASE q # p
        BY <1>2, <2>4, <4>2 DEF EditsInv
      <4> QED BY <4>1, <4>2, Zenon
    <3> QED BY <2>4, <3>1, <3>2, Zenon DEF EditsInv
  <2>8. ~collided => Stands(editor'[p], key, repository, managedStack, parentJob'.children, policies)
    <3>1. ~collided => Stands(editor[p], key, repository, managedStack, parentJob.children, policies)
      BY <1>2, Zenon DEF VerdictsInv
    <3>2. CASE editor[p].at = "run"
      <4>1. at = "env"
        BY <2>2, <3>2, Zenon DEF AfterSweep
      <4> QED BY <2>1, <2>4, <3>2, <4>1, Zenon DEF Stands
    <3>3. CASE editor[p].at = "env"
      <4>1. at = "binding"
        BY <2>2, <3>3, Zenon DEF AfterSweep
      <4> QED BY <2>1, <2>4, <3>1, <3>3, <4>1, Zenon DEF Stands
    <3>4. CASE editor[p].at = "binding"
      <4>1. at = "commit"
        BY <2>2, <3>4, Zenon DEF AfterSweep
      <4>2. ~collided => parentJob'.children = {}
        BY <1>2, <2>1, <3>1, <3>4 DEF Stands, Children
      <4> QED BY <2>4, <4>1, <4>2, Zenon DEF Stands
    <3> QED BY <1>2, <3>2, <3>3, <3>4, Zenon DEF Children
  <2>9. VerdictsInv'
    BY <1>1, <1>2, <2>1, <2>4, <2>8, QuietStep, Zenon DEF Doing
  <2> QED BY <2>5, <2>6, <2>7, <2>9, Zenon DEF ReferencesInv
<1>4. CASE EndsEdit(p) /\ UNCHANGED parentJob
  <2>1. EditsInv'
    BY <1>1, <1>2, <1>4, EndedEdits, Zenon DEF Doing
  <2>2. /\ editor' \in [Editors -> EditRecords] /\ \A q \in Editors \ {p} : editor'[q] = editor[q]
        /\ editor'[p].op = "none" /\ editor'[p].at = "rest"
    BY <1>2, <1>4, EditStep, Zenon
  <2>3. RulesTypes'
    BY <1>1, <1>4, Zenon DEF ReferencesInv, RulesTypes
  <2>4. PolicyInv'
    BY <1>1, <2>2, PolicyStep, Zenon DEF Doing
  <2>5. Stands(editor'[p], key, repository, managedStack, parentJob'.children, policies)
    BY <2>2, Zenon DEF Stands
  <2>6. VerdictsInv'
    BY <1>1, <1>2, <1>4, <2>2, <2>5, QuietStep, Zenon DEF Doing
  <2> QED BY <2>1, <2>3, <2>4, <2>6, Zenon DEF ReferencesInv
<1> QED BY <1>3, <1>4, Zenon DEF SweepChildren

\* The commits: each writes its rows, and what its hook found keeps the rules.
LEMMA CommitEdits ==
  ASSUME ReferencesInv, NEW p \in Editors,
         \/ PatchRepository(p) \/ PatchKey(p) \/ DeleteKey(p) \/ AddStack(p) \/ DropRepository(p)
         \/ PatchStack(p) \/ RefreshDefinition(p) \/ DropJob(p) \/ CreateChild(p) \/ CreatePolicy(p)
  PROVE  ReferencesInv'
<1>1. /\ EditsInv /\ VerdictsInv /\ RulesTypes /\ editor[p] \in EditRecords
      /\ key \in KeyRows /\ repository \in RepositoryRows /\ managedStack \in StackRows
      /\ parentJob \in [kept : BOOLEAN, children : SUBSET Children] /\ policies \in Nat
      /\ editor \in [Editors -> EditRecords] /\ editor[p].at = "commit" /\ CommitsEdit(p)
      /\ UNCHANGED <<family, committed, saves>>
  BY Zenon DEF ReferencesInv, EditsInv, RulesTypes, PatchRepository, PatchKey, DeleteKey, AddStack,
         DropRepository, PatchStack, RefreshDefinition, DropJob, CreateChild, CreatePolicy, Doing
<1>2. ~collided => Stands(editor[p], key, repository, managedStack, parentJob.children, policies)
  BY <1>1, Zenon DEF VerdictsInv
<1>3. ~collided =>
        /\ repository.kept => Fits(repository.url, repository.key, key)
        /\ managedStack.kept => managedStack.repository /\ repository.kept
        /\ policies <= 1 /\ managedStack.field \in Definitions
  BY <1>1, Zenon DEF VerdictsInv
<1> DEFINE Rules == ~collided /\ ~Overlaps(p) =>
        /\ key'.type = key.type
        /\ repository'.kept => Fits(repository'.url, repository'.key, key')
        /\ managedStack'.kept => managedStack'.repository /\ repository'.kept
        /\ policies' <= 1 /\ managedStack'.field \in Definitions
     Types == /\ key' \in KeyRows /\ repository' \in RepositoryRows /\ managedStack' \in StackRows
              /\ parentJob' \in [kept : BOOLEAN, children : SUBSET Children] /\ policies' \in Nat
              /\ bypass' \in BOOLEAN
<1>4. /\ editor' \in [Editors -> EditRecords] /\ \A q \in Editors \ {p} : editor'[q] = editor[q]
      /\ editor'[p].op = "none"
  BY <1>1, EditStep, Zenon DEF CommitsEdit
<1>5. ASSUME Rules, Types, bypass' => bypass /\ editor[p].op # "refresh",
             policies' = policies \/ (editor[p].op = "createPolicy" /\ policies' = policies + 1)
      PROVE  ReferencesInv'
  <2>1. EditsInv' /\ VerdictsInv' /\ collided' \in BOOLEAN
    <3>1. Doing(p, editor[p].op, "commit")
      BY <1>1, <1>5, Zenon DEF Doing
    <3> QED BY <1>1, <1>5, <3>1, CommitStep, Zenon
  <2>2. PolicyInv'
    BY <1>1, <1>4, <1>5, PolicyStep, Zenon DEF Doing
  <2>3. RulesTypes'
    BY <1>1, <1>5, <2>1, Zenon DEF RulesTypes
  <2> QED BY <2>1, <2>2, <2>3, Zenon DEF ReferencesInv
<1>6. bypass \in BOOLEAN
  BY <1>1, Zenon DEF RulesTypes
<1> HIDE DEF Rules, Types
<1>7. ASSUME PatchRepository(p) PROVE ReferencesInv'
  <2>1. /\ editor[p].op = "patchRepository"
        /\ UNCHANGED <<key, managedStack, parentJob, policies, bypass>>
    BY <1>7, Zenon DEF PatchRepository, Doing
  <2>2. PICK e \in EditRecords : e = editor[p]
    BY <1>1, Zenon
  <2>3. PICK u \in Urls : u = IF "url" \in e.columns THEN e.url ELSE repository.url
    BY <1>1, Zenon DEF EditRecords, RepositoryRows
  <2>4. PICK k \in BOOLEAN : k = IF "key" \in e.columns THEN e.key ELSE repository.key
    BY <1>1, Zenon DEF EditRecords, RepositoryRows
  <2>5. repository' = [repository EXCEPT !.url = u, !.key = k]
    BY <1>7, <2>2, <2>3, <2>4, Zenon DEF PatchRepository
  <2>6. /\ repository' \in RepositoryRows /\ repository'.kept = repository.kept
        /\ repository'.url = u /\ repository'.key = k
    BY <1>1, <2>5, Zenon DEF RepositoryRows
  <2>7. ~collided /\ repository.kept => Fits(u, k, key)
    <3>1. /\ e.url \in Urls /\ e.key \in BOOLEAN /\ e.columns \in SUBSET {"url", "key"}
          /\ repository.url \in Urls /\ repository.key \in BOOLEAN /\ key.type \in KeyTypes
      BY <1>1, Zenon DEF EditRecords, RepositoryRows, KeyRows
    <3>2. ~collided =>
            /\ Fits(e.url, e.key, key)
            /\ key.type = "ssh_key" /\ (e.url = "ssh" <=> e.key) =>
                 e.columns = {} \/ ("url" \in e.columns /\ "key" \in e.columns)
            /\ key.type = "basic" /\ e.url = "http" => "url" \notin e.columns
      BY <1>1, <1>2, <2>1, <2>2, Zenon DEF Stands
    <3>3. CASE key.type = "ssh_key"
      BY <1>3, <2>3, <2>4, <3>1, <3>2, <3>3, Zenon DEF Fits, Urls
    <3>4. CASE key.type = "basic"
      BY <1>3, <2>3, <2>4, <3>1, <3>2, <3>4, Zenon DEF Fits, Urls
    <3> QED BY <3>1, <3>3, <3>4, Zenon DEF KeyTypes
  <2>8. Rules
    BY <1>3, <2>1, <2>6, <2>7, Zenon DEF Rules
  <2>9. Types
    BY <1>1, <1>6, <2>1, <2>6, Zenon DEF Types
  <2> QED BY <1>5, <2>1, <2>8, <2>9, Zenon
<1>8. ASSUME PatchKey(p) PROVE ReferencesInv'
  <2>1. /\ editor[p].op = "patchKey" /\ editor[p].type \in KeyTypes
        /\ UNCHANGED <<repository, managedStack, parentJob, policies, bypass>>
    BY <1>1, <1>8, Zenon DEF PatchKey, Doing, EditRecords
  <2>2. key' \in KeyRows /\ key'.type = editor[p].type /\ key'.kept = key.kept
    BY <1>1, <1>8, <2>1, Zenon DEF PatchKey, KeyRows
  <2>3. ~collided => key'.type = key.type
    BY <1>1, <1>2, <2>1, <2>2, Zenon DEF Stands
  <2>4. Rules
    BY <1>3, <2>1, <2>2, <2>3, Zenon DEF Fits, Rules
  <2>5. Types
    BY <1>1, <1>6, <2>1, <2>2, Zenon DEF Types
  <2> QED BY <1>5, <2>1, <2>4, <2>5, Zenon
<1>9. ASSUME DeleteKey(p) PROVE ReferencesInv'
  <2>1. /\ editor[p].op = "deleteKey" /\ UNCHANGED <<managedStack, parentJob, policies, bypass>>
    BY <1>9, Zenon DEF DeleteKey, Doing
  <2>2. key' \in KeyRows /\ key'.type = key.type
    BY <1>1, <1>9, Zenon DEF DeleteKey, KeyRows
  <2>3. /\ repository' \in RepositoryRows /\ repository'.kept = repository.kept
        /\ repository'.url = repository.url /\ repository'.key = FALSE
    BY <1>1, <1>9, Zenon DEF DeleteKey, RepositoryRows
  <2>4. ~collided => ~(repository.kept /\ repository.key)
    BY <1>1, <1>2, <2>1, Zenon DEF Stands
  <2>5. Rules
    BY <1>3, <2>1, <2>2, <2>3, <2>4, Zenon DEF Fits, Rules
  <2>6. Types
    BY <1>1, <1>6, <2>1, <2>2, <2>3, Zenon DEF Types
  <2> QED BY <1>5, <2>1, <2>5, <2>6, Zenon
<1>10. ASSUME AddStack(p) PROVE ReferencesInv'
  <2>1. /\ editor[p].op = "createStack" /\ UNCHANGED <<key, repository, parentJob, policies, bypass>>
        /\ editor[p].field \in Definitions
    BY <1>1, <1>10, Zenon DEF AddStack, Doing, EditsInv
  <2>2. CASE repository.kept /\ ~managedStack.kept
    <3>1. /\ managedStack' \in StackRows /\ managedStack'.repository = TRUE
          /\ managedStack'.field = editor[p].field
      BY <1>10, <2>1, <2>2, Zenon DEF AddStack, StackRows
    <3>2. Rules
      BY <1>3, <2>1, <2>2, <3>1, Zenon DEF Rules
    <3>3. Types
      BY <1>1, <1>6, <2>1, <3>1, Zenon DEF Types
    <3> QED BY <1>5, <2>1, <3>2, <3>3, Zenon
  <2>3. CASE ~(repository.kept /\ ~managedStack.kept)
    <3>1. managedStack' = managedStack
      BY <1>10, <2>3, Zenon DEF AddStack
    <3>2. Rules /\ Types
      BY <1>1, <1>3, <1>6, <2>1, <3>1, Zenon DEF Rules, Types
    <3> QED BY <1>5, <2>1, <3>2, Zenon
  <2> QED BY <2>2, <2>3, Zenon
<1>11. ASSUME DropRepository(p) PROVE ReferencesInv'
  <2>1. /\ editor[p].op = "deleteRepository" /\ UNCHANGED <<key, parentJob, policies, bypass>>
    BY <1>11, Zenon DEF DropRepository, Doing
  <2>2. CASE UNCHANGED <<repository, managedStack>>
    <3>1. Rules /\ Types
      BY <1>1, <1>3, <1>6, <2>1, <2>2, Zenon DEF Rules, Types
    <3> QED BY <1>5, <2>1, <3>1, Zenon
  <2>3. CASE /\ repository' = [repository EXCEPT !.kept = FALSE]
             /\ managedStack' = [managedStack EXCEPT !.repository = FALSE]
    <3>1. repository' \in RepositoryRows /\ repository'.kept = FALSE
      BY <1>1, <2>3, Zenon DEF RepositoryRows
    <3>2. /\ managedStack' \in StackRows /\ managedStack'.kept = managedStack.kept
          /\ managedStack'.field = managedStack.field
      BY <1>1, <2>3, Zenon DEF StackRows
    <3>3. ~collided => ~managedStack.kept
      BY <1>1, <1>2, <1>3, <2>1, Zenon DEF Stands
    <3>4. Rules
      BY <1>3, <2>1, <3>1, <3>2, <3>3, Zenon DEF Rules
    <3>5. Types
      BY <1>1, <1>6, <2>1, <3>1, <3>2, Zenon DEF Types
    <3> QED BY <1>5, <2>1, <3>4, <3>5, Zenon
  <2> QED BY <1>11, <2>2, <2>3, Zenon DEF DropRepository
<1>12. ASSUME PatchStack(p) PROVE ReferencesInv'
  <2>1. /\ editor[p].op = "patchStack" /\ UNCHANGED <<key, repository, parentJob, policies, bypass>>
        /\ editor[p].field \in Definitions \cup {"typed"}
    BY <1>1, <1>12, Zenon DEF PatchStack, Doing, EditRecords
  <2>2. managedStack' \in StackRows
    BY <1>1, <1>12, <2>1, Zenon DEF PatchStack, StackRows
  <2>3. ~collided => Overlaps(p)
    <3>1. Doing(p, "patchStack", "commit")
      BY <1>12, Zenon DEF PatchStack
    <3> QED BY <1>1, <3>1, Zenon DEF VerdictsInv, Doing, Overlaps
  <2>4. Rules
    BY <2>3, Zenon DEF Rules
  <2>5. Types
    BY <1>1, <1>6, <2>1, <2>2, Zenon DEF Types
  <2> QED BY <1>5, <2>1, <2>4, <2>5, Zenon
<1>13. ASSUME RefreshDefinition(p) PROVE ReferencesInv'
  <2>1. /\ editor[p].op = "refresh" /\ UNCHANGED <<key, repository, parentJob, policies>>
        /\ editor[p].field \in Definitions /\ bypass' = FALSE
    BY <1>1, <1>13, Zenon DEF RefreshDefinition, Doing, EditsInv
  <2>2. /\ managedStack' \in StackRows /\ managedStack'.kept = managedStack.kept
        /\ managedStack'.repository = managedStack.repository /\ managedStack'.field = editor[p].field
    BY <1>1, <1>13, <2>1, Zenon DEF RefreshDefinition, StackRows
  <2>3. Rules
    BY <1>3, <2>1, <2>2, Zenon DEF Rules
  <2>4. Types
    BY <1>1, <2>1, <2>2, Zenon DEF Types
  <2> QED BY <1>5, <2>1, <2>3, <2>4, Zenon
<1>14. ASSUME DropJob(p) PROVE ReferencesInv'
  <2>1. /\ editor[p].op = "deleteJob" /\ UNCHANGED <<key, repository, managedStack, policies, bypass>>
    BY <1>14, Zenon DEF DropJob, Doing
  <2>2. parentJob' \in [kept : BOOLEAN, children : SUBSET Children]
    BY <1>1, <1>14, Zenon DEF DropJob
  <2>3. Rules
    BY <1>3, <2>1, Zenon DEF Rules
  <2>4. Types
    BY <1>1, <1>6, <2>1, <2>2, Zenon DEF Types
  <2> QED BY <1>5, <2>1, <2>3, <2>4, Zenon
<1>15. ASSUME CreateChild(p) PROVE ReferencesInv'
  <2>1. /\ editor[p].op = "createChild" /\ UNCHANGED <<key, repository, managedStack, policies, bypass>>
    BY <1>15, Zenon DEF CreateChild, Doing
  <2>2. parentJob' \in [kept : BOOLEAN, children : SUBSET Children]
    BY <1>1, <1>15, Zenon DEF CreateChild
  <2>3. Rules
    BY <1>3, <2>1, Zenon DEF Rules
  <2>4. Types
    BY <1>1, <1>6, <2>1, <2>2, Zenon DEF Types
  <2> QED BY <1>5, <2>1, <2>3, <2>4, Zenon
<1>16. ASSUME CreatePolicy(p) PROVE ReferencesInv'
  <2>1. /\ editor[p].op = "createPolicy" /\ policies' = policies + 1
        /\ UNCHANGED <<key, repository, managedStack, parentJob, bypass>>
    BY <1>16, Zenon DEF CreatePolicy, Doing
  <2>2. ~collided => policies = 0
    BY <1>1, <1>2, <2>1, Zenon DEF Stands
  <2>3. Rules
    BY <1>1, <1>3, <2>1, <2>2 DEF Rules
  <2>4. Types
    BY <1>1, <1>6, <2>1 DEF Types
  <2> QED BY <1>5, <2>1, <2>3, <2>4, Zenon
<1> QED BY <1>7, <1>8, <1>9, <1>10, <1>11, <1>12, <1>13, <1>14, <1>15, <1>16, Zenon

\* The rules of the record hooks hold between rows as long as no two requests
\* collide between hook and commit, a job's deletion that commits alone deletes
\* the job, and there is a row in worker_policies for at most every editor, for
\* any number of requests at a time.
THEOREM ReferencesCorrect == ReferencesSpec => ReferencesSafety
<1>1. ReferencesInit => ReferencesInv
  <2> SUFFICES ASSUME ReferencesInit PROVE ReferencesInv
    BY Zenon
  <2>1. NoEdit \in EditRecords /\ NoEdit.op = "none" /\ NoEdit.at = "rest"
    BY Zenon DEF NoEdit, EditRecords, Urls, KeyTypes, Definitions
  <2>2. /\ editor \in [Editors -> EditRecords]
        /\ \A p \in Editors : editor[p] = NoEdit
    BY <2>1, Zenon DEF ReferencesInit
  <2>3. RulesTypes
    <3>1. key \in KeyRows
      <4>1. PICK t \in KeyTypes : key = [kept |-> TRUE, type |-> t]
        BY Zenon DEF ReferencesInit, KeyTypes
      <4> QED BY <4>1, Zenon DEF KeyRows
    <3>2. repository \in RepositoryRows /\ managedStack \in StackRows
      BY Zenon DEF ReferencesInit, RepositoryRows, StackRows, Urls, Definitions
    <3>3. parentJob \in [kept : BOOLEAN, children : SUBSET Children]
      BY Zenon DEF ReferencesInit
    <3>4. /\ family \in Families /\ policies \in Nat /\ committed \in Definitions /\ bypass \in BOOLEAN
          /\ collided \in BOOLEAN
      BY Zenon DEF ReferencesInit, Definitions
    <3>5. saves \in 0..MaxSaves
      BY ReferencesAssumption DEF ReferencesInit
    <3> QED BY <3>1, <3>2, <3>3, <3>4, <3>5, Zenon DEF RulesTypes
  <2>4. EditsInv
    BY <2>1, <2>2, Zenon DEF EditsInv, ReferencesInit, Children
  <2>5. VerdictsInv
    <3>1. /\ Fits(repository.url, repository.key, key) /\ ~managedStack.kept
          /\ policies <= 1 /\ managedStack.field \in Definitions
      BY DEF ReferencesInit, Fits, Definitions
    <3>2. ASSUME NEW p \in Editors
          PROVE  /\ Stands(editor[p], key, repository, managedStack, parentJob.children, policies)
                 /\ ~Doing(p, "patchStack", "commit")
      BY <2>1, <2>2, Zenon DEF Stands, Doing
    <3> QED BY <3>1, <3>2, Zenon DEF VerdictsInv
  <2>6. PolicyInv
    BY DEF ReferencesInit, PolicyInv
  <2> QED BY <2>3, <2>4, <2>5, <2>6, Zenon DEF ReferencesInv
<1>2. ReferencesInv /\ [ReferencesNext]_referenceVars => ReferencesInv'
  <2> SUFFICES ASSUME ReferencesInv, [ReferencesNext]_referenceVars PROVE ReferencesInv'
    BY Zenon
  <2>1. CASE PushDefinition
    <3>1. UNCHANGED <<family, key, repository, managedStack, parentJob, policies, bypass, editor, collided, saves>>
          /\ committed' \in Definitions
      BY <2>1, Zenon DEF PushDefinition, RuleRows, Definitions
    <3> QED BY <3>1, Zenon DEF ReferencesInv, RulesTypes, EditsInv, VerdictsInv, PolicyInv, Doing
  <2>2. ASSUME NEW p \in Editors, NEW op \in EditKinds, Load(p, op) PROVE ReferencesInv'
    BY <2>2, LoadStep, Zenon
  <2>3. ASSUME NEW p \in Editors, ResyncDefinition(p) PROVE ReferencesInv'
    BY <2>3, ResyncStep, Zenon
  <2>4. ASSUME NEW p \in Editors, Hook(p) PROVE ReferencesInv'
    BY <2>4, HookStep, Zenon
  <2>5. ASSUME NEW p \in Editors, SweepChildren(p) PROVE ReferencesInv'
    BY <2>5, SweepStep, Zenon
  <2>6. CASE UNCHANGED referenceVars
    BY <2>6, Zenon DEF referenceVars, ReferencesInv, RulesTypes, EditsInv, VerdictsInv, PolicyInv, Doing
  <2> QED BY <2>1, <2>2, <2>3, <2>4, <2>5, <2>6, CommitEdits, Zenon DEF ReferencesNext
<1> DEFINE Good == /\ ReferencesTypeOK' /\ RulesHoldUnlessTogether'
                   /\ ManagedFieldsComeFromGit' /\ JobDeletionCompletes
<1>3. ReferencesInv => ReferencesTypeOK /\ RulesHoldUnlessTogether /\ ManagedFieldsComeFromGit
  <2> SUFFICES ASSUME ReferencesInv
               PROVE  ReferencesTypeOK /\ RulesHoldUnlessTogether /\ ManagedFieldsComeFromGit
    BY Zenon
  <2>1. policies \in 0..Cardinality(Editors)
    <3> DEFINE S == {p \in Editors : Doing(p, "createPolicy", "commit")}
    <3>1. S \in SUBSET Editors
      BY Zenon
    <3>2. policies \in Nat /\ (policies > 0 => policies + Cardinality(S) <= Cardinality(Editors))
      BY Zenon DEF ReferencesInv, RulesTypes, PolicyInv
    <3> HIDE DEF S
    <3> QED BY <3>1, <3>2, PolicyCount
  <2> QED BY <2>1, Zenon DEF ReferencesInv, RulesTypes, EditsInv, VerdictsInv, ReferencesTypeOK,
                      RulesHoldUnlessTogether, ManagedFieldsComeFromGit, KeyFits, Fits
<1>4. ReferencesInv /\ [ReferencesNext]_referenceVars => [Good]_referenceVars
  <2> SUFFICES ASSUME ReferencesInv, ReferencesNext PROVE Good
    BY Zenon
  <2>1. ReferencesInv'
    BY <1>2, Zenon
  <2>2. ReferencesTypeOK' /\ RulesHoldUnlessTogether' /\ ManagedFieldsComeFromGit'
    BY <1>3, <2>1, PTL
  <2>3. JobDeletionCompletes
    <3> SUFFICES ASSUME NEW p \in Editors, Doing(p, "deleteJob", "commit"), editor'[p].at = "rest", ~collided'
                 PROVE  ~parentJob'.kept
      BY Zenon DEF JobDeletionCompletes
    <3>1. editor \in [Editors -> EditRecords]
      BY Zenon DEF ReferencesInv, EditsInv
    <3>3. CASE DropJob(p)
      <4>1. parentJob \in [kept : BOOLEAN, children : SUBSET Children] /\ ~collided
        BY <3>3, Zenon DEF ReferencesInv, RulesTypes, DropJob, CommitsEdit
      <4>2. parentJob.children = {}
        BY <4>1, Zenon DEF ReferencesInv, VerdictsInv, Stands, Doing
      <4> QED BY <3>3, <4>1, <4>2, Zenon DEF DropJob
    <3>4. editor'[p] # editor[p]
      BY Zenon DEF Doing
    <3>5. ~PushDefinition
      BY <3>4, Zenon DEF PushDefinition
    <3>6. PICK q \in Editors :
            \/ \E op \in EditKinds : Load(q, op)
            \/ ResyncDefinition(q)
            \/ Hook(q) \/ SweepChildren(q)
            \/ PatchRepository(q) \/ PatchKey(q) \/ DeleteKey(q)
            \/ AddStack(q) \/ DropRepository(q) \/ PatchStack(q) \/ RefreshDefinition(q)
            \/ DropJob(q) \/ CreateChild(q) \/ CreatePolicy(q)
      BY <3>5, Zenon DEF ReferencesNext
    <3>7. \E g : editor' = [editor EXCEPT ![q] = g]
      BY <3>6 DEF Load, ResyncDefinition, Hook, SweepChildren, GoesOn, EndsEdit, CommitsEdit,
                  PatchRepository, PatchKey, DeleteKey, AddStack, DropRepository, PatchStack,
                  RefreshDefinition, DropJob, CreateChild, CreatePolicy
    <3>8. q = p
      BY <3>1, <3>4, <3>7, Zenon
    <3>9. DropJob(p)
      BY <3>6, <3>8, Zenon DEF Load, ResyncDefinition, Hook, SweepChildren, Doing, Children,
                  PatchRepository, PatchKey, DeleteKey, AddStack, DropRepository, PatchStack,
                  RefreshDefinition, CreateChild, CreatePolicy
    <3> QED BY <3>3, <3>9, Zenon
  <2> QED BY <2>2, <2>3, Zenon
<1> QED BY <1>1, <1>2, <1>4, PTL DEF ReferencesSpec, ReferencesSafety

(***************************************************************************)
(* A stack that is transferred, migrated, deployed or deleted, for any     *)
(* number of hosts and operations. The promises are about copies that      *)
(* nobody knows of. They are not inductive: a transfer makes its copy      *)
(* steps before the row names the host that has it, so the invariant says  *)
(* where in a transfer the new copy is allowed to be unknown, which host   *)
(* each operation works from, and that a deletion which nothing raced has  *)
(* the stack to itself.                                                    *)
(***************************************************************************)

StackFields == [exists : BOOLEAN, host : Hosts, status : Statuses, deployed : BOOLEAN, files : BOOLEAN]
TransferPlaces == {"probe", "deploy", "cleanup", "failed", "teardown", "record"}
MoveRows ==
  [kind : {"none", "deploy", "transfer", "migrate"}, at : TransferPlaces \cup {"idle", "repoint"},
   from : Hosts \cup {NoHost}, to : Hosts \cup {NoHost}, before : Statuses,
   told : {"none", "done", "failed", "lost"}]
DeletionRows ==
  [at : {"idle", "teardown", "children", "row", "deleted"}, from : Hosts \cup {NoHost},
   teardown : BOOLEAN, raced : BOOLEAN]

RelocationTypes ==
  /\ stack \in StackFields /\ move \in MoveRows /\ deletion \in DeletionRows
  /\ runs \in [Hosts -> BOOLEAN] /\ answered \in [Hosts -> [Purposes -> Answers]]
  /\ online \subseteq Hosts /\ known \subseteq Hosts
  /\ asked \in [from : Hosts \cup {NoHost}, deployed : BOOLEAN]
  /\ broken \in BOOLEAN /\ begun \in 0 .. MaxOperations

\* The operation that holds the lock.  A deployment and a transfer work from the
\* host in the row; a migration from the host its request has read.
MoveInv ==
  /\ move.kind = "none" => move = NoMove /\ (~broken => stack.status # "syncing")
  /\ move.kind = "deploy" => /\ move.at \in {"deploy", "record"} /\ move.from = stack.host
                             /\ move.at = "record" => move.before # "syncing"
  /\ move.kind = "transfer" => /\ move.at \in TransferPlaces /\ move.from = stack.host
                               /\ move.to \in Hosts /\ move.from # move.to
                               /\ ~broken => move.before # "syncing"
  /\ move.kind = "migrate" => /\ move.at \in {"teardown", "repoint"} /\ move.from \in Hosts
                              /\ ~broken => stack.status # "syncing"
  /\ asked # NotAsked => asked.from \in Hosts

\* A copy away from the row's host is known, or is the one a transfer under way
\* has just made; the transfer records the new host once it knows of the old copy.
StrayInv ==
  stack.exists /\ ~broken =>
    /\ \A h \in Hosts : runs[h] /\ h # stack.host =>
         \/ h \in known
         \/ /\ move.kind = "transfer" /\ h = move.to
            /\ move.at \in {"cleanup", "teardown", "record"}
    /\ move.kind = "transfer" /\ move.at = "record" /\ runs[move.from] => move.from \in known

\* A deletion that nothing raced has the stack to itself.
DeletionInv ==
  /\ deletion.at # "idle" => deletion.from \in Hosts
  /\ ~deletion.raced =>
     /\ deletion.at # "idle" => move = NoMove
     /\ deletion.at = "teardown" => stack.exists /\ deletion.from = stack.host
     /\ deletion.at \in {"children", "row", "deleted"} =>
          \A h \in Hosts : runs[h] => h \in known \/ broken

RelocationInv == RelocationTypes /\ MoveInv /\ StrayInv /\ DeletionInv

\* The rows that stand for nothing under way.
LEMMA NoneRows ==
  /\ NoMove \in MoveRows /\ NoMove.kind = "none" /\ NoMove.at = "idle"
  /\ NoDeletion \in DeletionRows /\ NoDeletion.at = "idle" /\ NoDeletion.raced = FALSE
<1>1. NoMove \in MoveRows /\ NoMove.kind = "none" /\ NoMove.at = "idle"
  BY Zenon DEF NoMove, MoveRows, Statuses
<1>2. NoDeletion \in DeletionRows /\ NoDeletion.at = "idle" /\ NoDeletion.raced = FALSE
  BY Zenon DEF NoDeletion, DeletionRows
<1> QED BY <1>1, <1>2, Zenon

\* A teardown starts nothing, and its answer is true or was cached.
LEMMA TeardownStep ==
  ASSUME RelocationTypes, NEW h \in Hosts, NEW p \in Purposes, NEW said, Teardown(h, p, said)
  PROVE  /\ runs' \in [Hosts -> BOOLEAN] /\ answered' \in [Hosts -> [Purposes -> Answers]]
         /\ \A g \in Hosts : runs'[g] => runs[g]
         /\ said = "done" => ~runs'[h] \/ answered[h][p] = "done"
<1>1. runs \in [Hosts -> BOOLEAN] /\ answered \in [Hosts -> [Purposes -> Answers]]
  BY Zenon DEF RelocationTypes
<1>2. ASSUME NEW r, Executes(h, p, r)
      PROVE  /\ runs' \in [Hosts -> BOOLEAN] /\ answered' \in [Hosts -> [Purposes -> Answers]]
             /\ \A g \in Hosts : runs'[g] => runs[g]
             /\ r = "done" => ~runs'[h] \/ answered[h][p] = "done"
  <2>1. CASE UNCHANGED <<runs, answered>> /\ r = answered[h][p]
    BY <1>1, <2>1, Zenon
  <2>2. CASE runs' = [runs EXCEPT ![h] = FALSE] /\ answered' = [answered EXCEPT ![h][p] = "done"]
    BY <1>1, <2>2, Zenon DEF Answers
  <2>3. CASE r = "failed" /\ answered' = [answered EXCEPT ![h][p] = "failed"] /\ UNCHANGED runs
    BY <1>1, <2>3, Zenon DEF Answers
  <2> QED BY <1>2, <2>1, <2>2, <2>3, Zenon DEF Executes
<1>3. CASE Executes(h, p, said)
  BY <1>2, <1>3, Zenon
<1>4. CASE Unheard(h, p, said)
  BY <1>1, <1>2, <1>4, Zenon DEF Unheard
<1> QED BY <1>3, <1>4, Zenon DEF Teardown

\* A deployment changes what runs on its own host only.
LEMMA DeploymentStep ==
  ASSUME RelocationTypes, NEW h \in Hosts, NEW said, Deployment(h, said)
  PROVE  /\ runs' \in [Hosts -> BOOLEAN] /\ answered' = answered
         /\ \A g \in Hosts \ {h} : runs'[g] = runs[g]
<1>1. runs \in [Hosts -> BOOLEAN]
  BY Zenon DEF RelocationTypes
<1> QED BY <1>1, Zenon DEF Deployment

\* A save of the status reaches the row or breaks something.
LEMMA StatusStep ==
  ASSUME RelocationTypes, NEW s \in Statuses, SaveStatus(s)
  PROVE  /\ stack' \in StackFields /\ broken' \in BOOLEAN /\ (broken => broken')
         /\ stack'.exists = stack.exists /\ stack'.host = stack.host
         /\ stack'.status = s \/ (broken' /\ stack' = stack)
<1>1. stack \in StackFields /\ broken \in BOOLEAN
  BY Zenon DEF RelocationTypes
<1>2. CASE stack' = [stack EXCEPT !.status = s] /\ UNCHANGED broken
  BY <1>1, <1>2, Zenon DEF StackFields
<1>3. CASE broken' = TRUE /\ UNCHANGED stack
  BY <1>1, <1>3, Zenon
<1> QED BY <1>2, <1>3, Zenon DEF SaveStatus

\* An operation that begins races the deletion under way, if there is one.
LEMMA RaceStep ==
  ASSUME RelocationTypes, Races
  PROVE  /\ deletion' \in DeletionRows /\ deletion'.at = deletion.at /\ deletion'.from = deletion.from
         /\ deletion.at # "idle" => deletion'.raced
         /\ deletion.at = "idle" => deletion' = deletion
<1>1. deletion \in DeletionRows
  BY Zenon DEF RelocationTypes
<1>2. CASE deletion.at = "idle"
  BY <1>1, <1>2, Zenon DEF Races
<1>3. CASE deletion.at # "idle"
  <2>1. deletion' = [deletion EXCEPT !.raced = TRUE]
    BY <1>3, Zenon DEF Races
  <2> QED BY <1>1, <1>3, <2>1, Zenon DEF DeletionRows
<1> QED BY <1>2, <1>3, Zenon

\* The workers come and go, and forget what they answered.
LEMMA HostSteps ==
  ASSUME RelocationInv, NEW h \in Hosts, NEW p \in Purposes, Disconnect(h) \/ Connect(h) \/ Forget(h, p)
  PROVE  RelocationInv'
<1>1. UNCHANGED <<stack, runs, move, deletion, known, broken, begun, asked>>
  BY Zenon DEF Disconnect, Connect, Forget
<1>2. online' \subseteq Hosts /\ answered' \in [Hosts -> [Purposes -> Answers]]
  BY DEF Disconnect, Connect, Forget, RelocationInv, RelocationTypes, Answers
<1>3. RelocationTypes'
  BY <1>1, <1>2, Zenon DEF RelocationInv, RelocationTypes
<1> QED BY <1>1, <1>3, Zenon DEF RelocationInv, MoveInv, StrayInv, DeletionInv

\* The places of an operation that has the lock are its own, and it races every
\* deletion that is under way.
LEMMA MoveFacts ==
  ASSUME RelocationInv, move.kind # "none"
  PROVE  /\ move # NoMove /\ RelocationTypes /\ MoveInv /\ StrayInv /\ DeletionInv
         /\ move.from \in Hosts /\ stack.host \in Hosts
         /\ deletion.at # "idle" => deletion.raced
<1>1. move # NoMove
  BY NoneRows, Zenon
<1>2. stack.host \in Hosts /\ move.kind \in {"none", "deploy", "transfer", "migrate"}
  BY Zenon DEF RelocationInv, RelocationTypes, StackFields, MoveRows
<1> QED BY <1>1, <1>2, Zenon DEF RelocationInv, MoveInv, DeletionInv

\* A step of an operation that has the lock, which the deletion does not see.
LEMMA MovedDeletion ==
  ASSUME RelocationInv, move.kind # "none", deletion' = deletion
  PROVE  DeletionInv'
<1>1. deletion.at # "idle" => deletion.raced
  BY MoveFacts, Zenon
<1> QED BY <1>1, Zenon DEF RelocationInv, DeletionInv

\* BeginDeploy and BeginTransfer.
LEMMA BeginSteps ==
  ASSUME RelocationInv, BeginDeploy \/ (\E h \in Hosts : BeginTransfer(h))
  PROVE  RelocationInv'
<1>1. /\ RelocationTypes /\ stack.host \in Hosts /\ stack.status \in Statuses /\ "syncing" \in Statuses
      /\ "active" \in Statuses
  BY Zenon DEF RelocationInv, RelocationTypes, StackFields, Statuses
<1>2. /\ move = NoMove /\ move.kind = "none" /\ stack.exists /\ SaveStatus("syncing") /\ Races
      /\ UNCHANGED <<runs, online, answered, known, asked>> /\ begun' \in 0 .. MaxOperations
  BY <1>1, NoneRows, RelocationAssumption DEF BeginDeploy, BeginTransfer, MayMove, TransferAccepted, RelocationTypes
<1>3. /\ stack' \in StackFields /\ broken' \in BOOLEAN /\ (broken => broken')
      /\ stack'.exists = stack.exists /\ stack'.host = stack.host
      /\ stack'.status = "syncing" \/ (broken' /\ stack' = stack)
  BY <1>1, <1>2, StatusStep, Zenon
<1>4. /\ deletion' \in DeletionRows /\ deletion'.at = deletion.at /\ deletion'.from = deletion.from
      /\ deletion.at # "idle" => deletion'.raced
  BY <1>1, <1>2, RaceStep, Zenon
<1>5. DeletionInv'
  BY <1>4, Zenon DEF RelocationInv, DeletionInv
<1>6. ~broken => stack.status # "syncing"
  BY <1>2, Zenon DEF RelocationInv, MoveInv
<1>7. CASE move' = NoMove /\ stack'.status # "syncing"
  <2>1. RelocationTypes'
    BY <1>1, <1>2, <1>3, <1>4, <1>7, NoneRows, Zenon DEF RelocationTypes
  <2>2. MoveInv'
    BY <1>2, <1>7, NoneRows, Zenon DEF RelocationInv, MoveInv
  <2>3. StrayInv'
    BY <1>2, <1>3, <1>7, NoneRows, Zenon DEF RelocationInv, StrayInv
  <2> QED BY <1>5, <2>1, <2>2, <2>3, Zenon DEF RelocationInv
<1>8. CASE move' = [NoMove EXCEPT !.kind = "deploy", !.at = "deploy", !.from = stack.host]
  <2>1. move' \in MoveRows /\ move'.kind = "deploy" /\ move'.at = "deploy" /\ move'.from = stack.host
    BY <1>1, <1>8, Zenon DEF NoMove, MoveRows, TransferPlaces
  <2>2. RelocationTypes'
    BY <1>1, <1>2, <1>3, <1>4, <2>1, Zenon DEF RelocationTypes
  <2>3. MoveInv'
    BY <1>2, <1>3, <2>1, Zenon DEF RelocationInv, MoveInv
  <2>4. StrayInv'
    BY <1>2, <1>3, <2>1, Zenon DEF RelocationInv, StrayInv
  <2> QED BY <1>5, <2>2, <2>3, <2>4, Zenon DEF RelocationInv
<1>9. ASSUME NEW h \in Hosts, h # stack.host,
             move' = [kind |-> "transfer", at |-> "probe", from |-> stack.host, to |-> h,
                      before |-> stack.status, told |-> "none"]
      PROVE  RelocationInv'
  <2>1. /\ move' \in MoveRows /\ move'.kind = "transfer" /\ move'.at = "probe" /\ move'.from = stack.host
        /\ move'.to = h /\ move'.before = stack.status
    BY <1>1, <1>9, Zenon DEF MoveRows, TransferPlaces
  <2>2. RelocationTypes'
    BY <1>1, <1>2, <1>3, <1>4, <2>1, Zenon DEF RelocationTypes
  <2>3. MoveInv'
    BY <1>2, <1>3, <1>6, <1>9, <2>1, Zenon DEF RelocationInv, MoveInv, TransferPlaces
  <2>4. StrayInv'
    BY <1>2, <1>3, <2>1, Zenon DEF RelocationInv, StrayInv
  <2> QED BY <1>5, <2>2, <2>3, <2>4, Zenon DEF RelocationInv
<1>10. CASE BeginDeploy
  <2>1. \/ stack'.status # "syncing" /\ move' = NoMove
        \/ move' = [NoMove EXCEPT !.kind = "deploy", !.at = "deploy", !.from = stack.host]
    BY <1>10, Zenon DEF BeginDeploy
  <2> QED BY <1>7, <1>8, <2>1, Zenon
<1>11. ASSUME NEW h \in Hosts, BeginTransfer(h) PROVE RelocationInv'
  <2>1. \/ stack'.status # "syncing" /\ move' = NoMove
        \/ move' = [kind |-> "transfer", at |-> "probe", from |-> stack.host, to |-> h,
                    before |-> stack.status, told |-> "none"]
    BY <1>11, Zenon DEF BeginTransfer
  <2>2. h # stack.host
    BY <1>11, Zenon DEF BeginTransfer, TransferAccepted
  <2> QED BY <1>7, <1>9, <2>1, <2>2, Zenon
<1> QED BY <1>10, <1>11, Zenon

\* Deploy and RecordDeploy work on the row's own host.
LEMMA DeploySteps ==
  ASSUME RelocationInv, Deploy \/ RecordDeploy
  PROVE  RelocationInv'
<1>1. move.kind = "deploy" /\ move.kind # "none"
  BY Zenon DEF Deploy, RecordDeploy
<1>2. /\ RelocationTypes /\ MoveInv /\ StrayInv /\ move.from \in Hosts /\ move.from = stack.host
      /\ move \in MoveRows /\ stack \in StackFields
  BY <1>1, MoveFacts, Zenon DEF RelocationTypes, MoveInv
<1>3. UNCHANGED <<online, deletion, known, begun, asked>>
  BY Zenon DEF Deploy, RecordDeploy
<1>4. DeletionInv'
  BY <1>1, <1>3, MovedDeletion, Zenon
<1>5. CASE Deploy
  <2>1. PICK said \in {"done", "failed"} :
          /\ Deployment(move.from, said)
          /\ move' = [move EXCEPT !.at = "record", !.before = IF said = "done" THEN "active" ELSE "error"]
    BY <1>5, Zenon DEF Deploy
  <2>2. PICK b \in {"active", "error"} : b = IF said = "done" THEN "active" ELSE "error"
    BY Zenon
  <2>3. move' = [move EXCEPT !.at = "record", !.before = b]
    BY <2>1, <2>2, Zenon
  <2>4. /\ move' \in MoveRows /\ move'.kind = "deploy" /\ move'.at = "record" /\ move'.from = move.from
        /\ move'.before # "syncing"
    BY <1>1, <1>2, <2>3, Zenon DEF MoveRows, TransferPlaces, Statuses
  <2>5. runs' \in [Hosts -> BOOLEAN] /\ answered' = answered /\ \A g \in Hosts \ {move.from} : runs'[g] = runs[g]
    BY <1>2, <2>1, DeploymentStep, Zenon
  <2>6. UNCHANGED <<stack, broken>>
    BY <1>5, Zenon DEF Deploy
  <2>7. RelocationTypes'
    BY <1>2, <1>3, <2>4, <2>5, <2>6, Zenon DEF RelocationTypes
  <2>8. MoveInv'
    BY <1>2, <1>3, <2>4, <2>6, Zenon DEF MoveInv
  <2>9. StrayInv'
    BY <1>1, <1>2, <1>3, <2>4, <2>5, <2>6, Zenon DEF StrayInv
  <2> QED BY <1>4, <2>7, <2>8, <2>9, Zenon DEF RelocationInv
<1>6. CASE RecordDeploy
  <2>1. /\ move.at = "record" /\ move.before # "syncing" /\ move.before \in Statuses
        /\ move' = NoMove /\ UNCHANGED <<runs, answered>>
    BY <1>1, <1>2, <1>6, Zenon DEF RecordDeploy, MoveInv, MoveRows, Ends
  <2>2. /\ stack' \in StackFields /\ broken' \in BOOLEAN /\ (broken => broken')
        /\ stack'.exists = stack.exists /\ stack'.host = stack.host
        /\ stack'.status # "syncing" \/ broken'
    <3>1. CASE broken' = TRUE /\ UNCHANGED stack
      BY <1>2, <3>1, Zenon
    <3>2. CASE /\ stack' = [stack EXCEPT !.status = move.before,
                                  !.deployed = @ \/ move.before = "active",
                                  !.files = @ \/ move.before = "active"]
               /\ UNCHANGED broken
      <4>1. PICK d \in BOOLEAN : d = (stack.deployed \/ move.before = "active")
        BY Zenon
      <4>2. PICK f \in BOOLEAN : f = (stack.files \/ move.before = "active")
        BY Zenon
      <4>3. stack' = [stack EXCEPT !.status = move.before, !.deployed = d, !.files = f]
        BY <3>2, <4>1, <4>2, Zenon
      <4>4. broken \in BOOLEAN
        BY <1>2, Zenon DEF RelocationTypes
      <4> QED BY <1>2, <2>1, <3>2, <4>3, <4>4, Zenon DEF StackFields
    <3> QED BY <1>6, <3>1, <3>2, Zenon DEF RecordDeploy
  <2>3. RelocationTypes'
    BY <1>2, <1>3, <2>1, <2>2, NoneRows, Zenon DEF RelocationTypes
  <2>4. MoveInv'
    BY <1>2, <1>3, <2>1, <2>2, NoneRows, Zenon DEF MoveInv
  <2>5. StrayInv'
    BY <1>1, <1>2, <1>3, <2>1, <2>2, NoneRows, Zenon DEF StrayInv
  <2> QED BY <1>4, <2>3, <2>4, <2>5, Zenon DEF RelocationInv
<1> QED BY <1>5, <1>6, Zenon

\* The steps of a transfer that give up the lock on the old host: the copy on the
\* target is the one that was there, or it was cleaned up or is known.
LEMMA TransferEnds ==
  ASSUME RelocationInv, LogFails \/ TransferFails \/ (ProbeTarget /\ move' = NoMove)
  PROVE  RelocationInv'
<1>1. move.kind = "transfer" /\ move.kind # "none" /\ move.at \in {"probe", "failed"}
  BY Zenon DEF LogFails, TransferFails, ProbeTarget
<1>2. /\ RelocationTypes /\ MoveInv /\ StrayInv /\ move \in MoveRows /\ stack \in StackFields
      /\ move.before \in Statuses /\ (~broken => move.before # "syncing") /\ "error" \in Statuses
      /\ broken \in BOOLEAN
  BY <1>1, MoveFacts, Zenon DEF RelocationTypes, MoveInv, MoveRows, Statuses
<1>3. UNCHANGED <<runs, online, answered, deletion, known, begun, asked>> /\ move' = NoMove
  BY Zenon DEF LogFails, TransferFails, ProbeTarget, Ends
<1>4. DeletionInv'
  BY <1>1, <1>3, MovedDeletion, Zenon
<1>5. /\ stack' \in StackFields /\ broken' \in BOOLEAN /\ (broken => broken')
      /\ stack'.exists = stack.exists /\ stack'.host = stack.host
      /\ stack'.status # "syncing" \/ broken'
  <2>1. CASE LogFails
    <3>1. broken' = TRUE /\ (stack' = [stack EXCEPT !.status = "error"] \/ UNCHANGED stack)
      BY <2>1, Zenon DEF LogFails
    <3> QED BY <1>2, <3>1, Zenon DEF StackFields
  <2>2. CASE TransferFails
    BY <1>2, <2>2, StatusStep, Zenon DEF TransferFails
  <2>3. CASE ProbeTarget
    <3>1. SaveStatus(move.before)
      <4>1. ~Goes("deploy")
        <5>1. NoMove.kind # move.kind
          BY <1>1, NoneRows, Zenon
        <5>2. [move EXCEPT !.at = "deploy"].kind = move.kind
          BY <1>2, Zenon DEF MoveRows
        <5> QED BY <1>3, <5>1, <5>2, Zenon DEF Goes
      <4> QED BY <2>3, <4>1, Zenon DEF ProbeTarget
    <3> QED BY <1>2, <3>1, StatusStep, Zenon
  <2> QED BY <2>1, <2>2, <2>3, Zenon
<1>6. RelocationTypes'
  BY <1>2, <1>3, <1>5, NoneRows, Zenon DEF RelocationTypes
<1>7. MoveInv'
  BY <1>2, <1>3, <1>5, NoneRows, Zenon DEF MoveInv
<1>8. StrayInv'
  BY <1>1, <1>2, <1>3, <1>5, NoneRows, Zenon DEF StrayInv
<1> QED BY <1>4, <1>6, <1>7, <1>8, Zenon DEF RelocationInv

\* A step of a transfer that goes on to another place.
LEMMA TransferGoes ==
  ASSUME RelocationTypes, NEW place \in TransferPlaces, Goes(place)
  PROVE  /\ move' \in MoveRows /\ move'.at = place /\ move'.kind = move.kind /\ move'.from = move.from
         /\ move'.to = move.to /\ move'.before = move.before
<1>1. move \in MoveRows
  BY Zenon DEF RelocationTypes
<1> QED BY <1>1, Zenon DEF Goes, MoveRows

\* The steps of a transfer that keep the lock.
LEMMA TransferSteps ==
  ASSUME RelocationInv,
         \/ ProbeTarget /\ Goes("deploy") /\ UNCHANGED <<stack, broken>>
         \/ DeployTarget \/ CleanUpTarget \/ TearDownSource
  PROVE  RelocationInv'
<1>1. move.kind = "transfer" /\ move.kind # "none"
  BY Zenon DEF ProbeTarget, DeployTarget, CleanUpTarget, TearDownSource
<1>2. /\ RelocationTypes /\ MoveInv /\ StrayInv /\ move \in MoveRows /\ move.from = stack.host
      /\ move.from \in Hosts /\ move.to \in Hosts /\ move.from # move.to /\ known \subseteq Hosts
  BY <1>1, MoveFacts, Zenon DEF RelocationTypes, MoveInv
<1>3. UNCHANGED <<stack, online, deletion, broken, begun, asked>>
  BY Zenon DEF ProbeTarget, DeployTarget, CleanUpTarget, TearDownSource
<1>4. DeletionInv'
  BY <1>1, <1>3, MovedDeletion, Zenon
<1>5. ASSUME move' \in MoveRows, move'.at \in TransferPlaces, move'.kind = move.kind, move'.from = move.from,
             move'.to = move.to, move'.before = move.before, known' \subseteq Hosts,
             runs' \in [Hosts -> BOOLEAN], answered' \in [Hosts -> [Purposes -> Answers]], StrayInv'
      PROVE  RelocationInv'
  <2>1. RelocationTypes'
    BY <1>2, <1>3, <1>5, Zenon DEF RelocationTypes
  <2>2. MoveInv'
    BY <1>1, <1>2, <1>3, <1>5, Zenon DEF MoveInv
  <2> QED BY <1>4, <1>5, <2>1, <2>2, Zenon DEF RelocationInv
<1>6. /\ runs \in [Hosts -> BOOLEAN] /\ answered \in [Hosts -> [Purposes -> Answers]]
      /\ {"deploy", "teardown", "cleanup", "failed", "record"} \subseteq TransferPlaces
      /\ {"transfer", "cleanup"} \subseteq Purposes
  BY <1>2, Zenon DEF RelocationTypes, TransferPlaces, Purposes
<1>7. CASE ProbeTarget /\ Goes("deploy")
  <2>1. /\ move' \in MoveRows /\ move'.at = "deploy" /\ move'.kind = move.kind /\ move'.from = move.from
        /\ move'.to = move.to /\ move'.before = move.before
    BY <1>2, <1>6, <1>7, TransferGoes, Zenon
  <2>2. UNCHANGED <<runs, answered, known>> /\ move.at = "probe"
    BY <1>7, Zenon DEF ProbeTarget
  <2>3. StrayInv'
    BY <1>1, <1>2, <1>3, <2>1, <2>2, Zenon DEF StrayInv
  <2> QED BY <1>2, <1>5, <1>6, <2>1, <2>2, <2>3, Zenon
<1>8. CASE DeployTarget
  <2>1. PICK said \in {"done", "failed"} :
          Deployment(move.to, said) /\ Goes(IF said = "done" THEN "teardown" ELSE "cleanup")
    BY <1>8, Zenon DEF DeployTarget
  <2>2. PICK place \in {"teardown", "cleanup"} : Goes(place)
    BY <2>1, Zenon
  <2>3. /\ move' \in MoveRows /\ move'.at = place /\ move'.kind = move.kind /\ move'.from = move.from
        /\ move'.to = move.to /\ move'.before = move.before
    BY <1>2, <1>6, <2>2, TransferGoes, Zenon
  <2>4. /\ runs' \in [Hosts -> BOOLEAN] /\ answered' = answered
        /\ \A g \in Hosts \ {move.to} : runs'[g] = runs[g]
    BY <1>2, <2>1, DeploymentStep, Zenon
  <2>5. UNCHANGED known /\ move.at = "deploy"
    BY <1>8, Zenon DEF DeployTarget
  <2>6. StrayInv'
    BY <1>1, <1>2, <1>3, <2>3, <2>4, <2>5, Zenon DEF StrayInv
  <2> QED BY <1>2, <1>5, <1>6, <2>2, <2>3, <2>4, <2>5, <2>6, Zenon
<1>9. ASSUME NEW h \in Hosts, NEW p \in Purposes, NEW said \in {"done", "failed", "lost"},
             Teardown(h, p, said), Noted(h, p, said)
      PROVE  /\ runs' \in [Hosts -> BOOLEAN] /\ answered' \in [Hosts -> [Purposes -> Answers]]
             /\ known' \subseteq Hosts
             /\ \A g \in Hosts : runs'[g] => runs[g] /\ (g \in known \/ g = h => g \in known')
  <2>1. /\ runs' \in [Hosts -> BOOLEAN] /\ answered' \in [Hosts -> [Purposes -> Answers]]
        /\ \A g \in Hosts : runs'[g] => runs[g]
        /\ said = "done" => ~runs'[h] \/ answered[h][p] = "done"
    BY <1>2, <1>9, TeardownStep, Zenon
  <2>2. CASE said = "done" /\ answered[h][p] = "none"
    BY <1>2, <1>9, <2>1, <2>2, Zenon DEF Noted
  <2>3. CASE ~(said = "done" /\ answered[h][p] = "none")
    BY <1>2, <1>9, <2>1, <2>3, Zenon DEF Noted
  <2> QED BY <2>2, <2>3, Zenon
<1>10. CASE CleanUpTarget
  <2>1. /\ runs' \in [Hosts -> BOOLEAN] /\ answered' \in [Hosts -> [Purposes -> Answers]]
        /\ known' \subseteq Hosts
        /\ \A g \in Hosts : runs'[g] => runs[g] /\ (g \in known \/ g = move.to => g \in known')
    <3>1. CASE move.to \in online
      BY <1>2, <1>6, <1>9, <1>10, <3>1, Zenon DEF CleanUpTarget
    <3>2. CASE move.to \notin online
      BY <1>2, <1>6, <1>10, <3>2, Zenon DEF CleanUpTarget
    <3> QED BY <3>1, <3>2, Zenon
  <2>2. Goes("failed") /\ move.at = "cleanup"
    BY <1>10, Zenon DEF CleanUpTarget
  <2>3. /\ move' \in MoveRows /\ move'.at = "failed" /\ move'.kind = move.kind /\ move'.from = move.from
        /\ move'.to = move.to /\ move'.before = move.before
    BY <1>2, <1>6, <2>2, TransferGoes, Zenon
  <2>4. StrayInv'
    BY <1>1, <1>2, <1>3, <2>1, <2>2, <2>3, Zenon DEF StrayInv
  <2> QED BY <1>5, <1>6, <2>1, <2>3, <2>4, Zenon
<1>11. CASE TearDownSource
  <2>1. /\ runs' \in [Hosts -> BOOLEAN] /\ answered' \in [Hosts -> [Purposes -> Answers]]
        /\ known' \subseteq Hosts
        /\ \A g \in Hosts : runs'[g] => runs[g] /\ (g \in known \/ g = move.from => g \in known')
    <3>1. CASE move.from \in online
      BY <1>2, <1>6, <1>9, <1>11, <3>1 DEF TearDownSource
    <3>2. CASE move.from \notin online
      BY <1>2, <1>6, <1>11, <3>2, Zenon DEF TearDownSource
    <3> QED BY <3>1, <3>2, Zenon
  <2>2. /\ move' \in MoveRows /\ move'.at = "record" /\ move'.kind = move.kind /\ move'.from = move.from
        /\ move'.to = move.to /\ move'.before = move.before
    <3>1. CASE move.from \in online
      <4>1. PICK said \in {"done", "failed", "lost"} : move' = [move EXCEPT !.at = "record", !.told = said]
        BY <1>11, <3>1, Zenon DEF TearDownSource
      <4> QED BY <1>2, <4>1, Zenon DEF MoveRows, TransferPlaces
    <3>2. CASE move.from \notin online
      BY <1>2, <1>6, <1>11, <3>2, TransferGoes, Zenon DEF TearDownSource
    <3> QED BY <3>1, <3>2, Zenon
  <2>3. move.at = "teardown"
    BY <1>11, Zenon DEF TearDownSource
  <2>4. StrayInv'
    BY <1>1, <1>2, <1>3, <2>1, <2>2, <2>3, Zenon DEF StrayInv
  <2> QED BY <1>5, <1>6, <2>1, <2>2, <2>4, Zenon
<1> QED BY <1>7, <1>8, <1>10, <1>11, Zenon

\* RecordTransfer: the row takes the new host when the old copy is known or gone.
LEMMA RecordTransferStep ==
  ASSUME RelocationInv, RecordTransfer
  PROVE  RelocationInv'
<1>1. move.kind = "transfer" /\ move.kind # "none" /\ move.at = "record"
  BY Zenon DEF RecordTransfer
<1>2. /\ RelocationTypes /\ MoveInv /\ StrayInv /\ stack \in StackFields /\ move.from = stack.host
      /\ move.from \in Hosts /\ move.to \in Hosts /\ move.from # move.to /\ broken \in BOOLEAN
  BY <1>1, MoveFacts, Zenon DEF RelocationTypes, MoveInv
<1>3. UNCHANGED <<runs, online, answered, deletion, known, begun, asked>> /\ move' = NoMove
  BY Zenon DEF RecordTransfer, Ends
<1>4. DeletionInv'
  BY <1>1, <1>3, MovedDeletion, Zenon
<1>5. CASE broken' = TRUE /\ UNCHANGED stack
  <2>1. RelocationTypes' /\ MoveInv' /\ StrayInv'
    BY <1>2, <1>3, <1>5, NoneRows, Zenon DEF RelocationTypes, MoveInv, StrayInv
  <2> QED BY <1>4, <2>1, Zenon DEF RelocationInv
<1>6. CASE /\ \E s \in {"active", "error"} : stack' = [stack EXCEPT !.host = move.to, !.status = s]
           /\ UNCHANGED broken
  <2>1. PICK s \in {"active", "error"} : stack' = [stack EXCEPT !.host = move.to, !.status = s]
    BY <1>6, Zenon
  <2>2. stack' \in StackFields /\ stack'.exists = stack.exists /\ stack'.host = move.to /\ stack'.status = s
    BY <1>2, <2>1, Zenon DEF StackFields, Statuses
  <2>3. RelocationTypes'
    BY <1>2, <1>3, <1>6, <2>2, NoneRows, Zenon DEF RelocationTypes
  <2>4. MoveInv'
    BY <1>2, <1>3, <2>2, NoneRows, Zenon DEF MoveInv
  <2>5. StrayInv'
    BY <1>1, <1>2, <1>3, <1>6, <2>2, NoneRows, Zenon DEF StrayInv
  <2> QED BY <1>4, <2>3, <2>4, <2>5, Zenon DEF RelocationInv
<1> QED BY <1>5, <1>6, Zenon DEF RecordTransfer

\* The migrate route, which only takes copies away.
LEMMA MigrateSteps ==
  ASSUME RelocationInv, AskMigrate \/ BeginMigrate \/ MigrateTeardown \/ Repoint
  PROVE  RelocationInv'
<1>1. /\ RelocationTypes /\ MoveInv /\ StrayInv /\ DeletionInv /\ stack.host \in Hosts
      /\ stack.deployed \in BOOLEAN /\ move \in MoveRows /\ asked \in [from : Hosts \cup {NoHost}, deployed : BOOLEAN]
      /\ NotAsked \in [from : Hosts \cup {NoHost}, deployed : BOOLEAN]
  BY Zenon DEF RelocationInv, RelocationTypes, StackFields, NotAsked
<1>2. CASE AskMigrate
  <2>1. /\ UNCHANGED <<stack, runs, online, answered, move, deletion, known, broken, begun>>
        /\ asked' \in [from : Hosts \cup {NoHost}, deployed : BOOLEAN] /\ asked'.from \in Hosts
    BY <1>1, <1>2, Zenon DEF AskMigrate
  <2>2. RelocationTypes' /\ MoveInv'
    BY <1>1, <2>1, Zenon DEF RelocationTypes, MoveInv
  <2>3. StrayInv' /\ DeletionInv'
    BY <1>1, <2>1, Zenon DEF StrayInv, DeletionInv
  <2> QED BY <2>2, <2>3, Zenon DEF RelocationInv
<1>3. CASE BeginMigrate
  <2>1. UNCHANGED <<stack, runs, online, answered, known, broken>> /\ asked' = NotAsked /\ asked.from \in Hosts
    BY <1>1, <1>3, Zenon DEF BeginMigrate, MoveInv
  <2>2. CASE UNCHANGED <<move, begun, deletion>>
    <3>1. RelocationTypes' /\ MoveInv'
      BY <1>1, <2>1, <2>2, Zenon DEF RelocationTypes, MoveInv
    <3>2. StrayInv' /\ DeletionInv'
      BY <1>1, <2>1, <2>2, Zenon DEF StrayInv, DeletionInv
    <3> QED BY <3>1, <3>2, Zenon DEF RelocationInv
  <2>3. CASE MayMove /\ stack.exists
    <3>1. PICK teardown \in BOOLEAN :
            move' = [NoMove EXCEPT !.kind = "migrate", !.from = asked.from,
                                   !.at = IF teardown /\ asked.deployed THEN "teardown" ELSE "repoint"]
      BY <1>3, <2>3, Zenon DEF BeginMigrate
    <3>2. PICK place \in {"teardown", "repoint"} :
            place = IF teardown /\ asked.deployed THEN "teardown" ELSE "repoint"
      BY Zenon
    <3>3. move' = [NoMove EXCEPT !.kind = "migrate", !.from = asked.from, !.at = place]
      BY <3>1, <3>2, Zenon
    <3>4. move' \in MoveRows /\ move'.kind = "migrate" /\ move'.from = asked.from /\ move'.at = place
      BY <2>1, <3>3, Zenon DEF NoMove, MoveRows, TransferPlaces, Statuses
    <3>5. begun' \in 0 .. MaxOperations /\ Races /\ move = NoMove /\ move.kind = "none"
      <4>1. begun' = begun + 1 /\ Races
        BY <1>3, <2>3, Zenon DEF BeginMigrate
      <4>2. move = NoMove /\ begun < MaxOperations /\ begun \in 0 .. MaxOperations
        BY <1>1, <2>3, Zenon DEF MayMove, RelocationTypes
      <4>3. begun' \in 0 .. MaxOperations
        BY <4>1, <4>2, RelocationAssumption
      <4> QED BY <4>1, <4>2, <4>3, NoneRows, Zenon
    <3>6. /\ deletion' \in DeletionRows /\ deletion'.at = deletion.at /\ deletion'.from = deletion.from
          /\ deletion.at # "idle" => deletion'.raced
      BY <1>1, <3>5, RaceStep, Zenon
    <3>7. RelocationTypes'
      BY <1>1, <2>1, <3>4, <3>5, <3>6, Zenon DEF RelocationTypes
    <3>8. MoveInv'
      BY <1>1, <2>1, <3>4, <3>5, Zenon DEF MoveInv
    <3>9. StrayInv'
      BY <1>1, <2>1, <3>4, <3>5, Zenon DEF StrayInv
    <3>10. DeletionInv'
      BY <1>1, <3>6, Zenon DEF DeletionInv
    <3> QED BY <3>7, <3>8, <3>9, <3>10, Zenon DEF RelocationInv
  <2> QED BY <1>3, <2>2, <2>3, Zenon DEF BeginMigrate
<1>4. ASSUME move.kind = "migrate", UNCHANGED <<online, deletion, known, begun, asked>>,
             runs' \in [Hosts -> BOOLEAN], answered' \in [Hosts -> [Purposes -> Answers]],
             \A g \in Hosts : runs'[g] => runs[g],
             stack' \in StackFields, broken' \in BOOLEAN, broken => broken',
             stack'.exists = stack.exists, stack'.host = stack.host,
             stack'.status # "syncing" \/ broken',
             \/ move' = NoMove
             \/ move' \in MoveRows /\ move'.kind = "migrate" /\ move'.at = "repoint" /\ move'.from = move.from
      PROVE  RelocationInv'
  <2>1. RelocationTypes'
    BY <1>1, <1>4, NoneRows, Zenon DEF RelocationTypes
  <2>2. MoveInv'
    BY <1>1, <1>4, NoneRows, Zenon DEF MoveInv
  <2>3. StrayInv'
    BY <1>1, <1>4, NoneRows, Zenon DEF StrayInv
  <2>4. DeletionInv'
    BY <1>4, MovedDeletion, Zenon
  <2> QED BY <2>1, <2>2, <2>3, <2>4, Zenon DEF RelocationInv
<1>5. CASE MigrateTeardown
  <2>1. /\ move.kind = "migrate" /\ move.from \in Hosts /\ "migrate" \in Purposes
        /\ UNCHANGED <<stack, online, deletion, known, broken, begun, asked>>
        /\ stack \in StackFields /\ broken \in BOOLEAN /\ (stack.status # "syncing" \/ broken)
    BY <1>1, <1>5, Zenon DEF MigrateTeardown, MoveInv, RelocationTypes, Purposes
  <2>2. CASE move' = NoMove /\ UNCHANGED <<runs, answered>>
    BY <1>1, <1>4, <2>1, <2>2, Zenon DEF RelocationTypes
  <2>3. ASSUME NEW said \in {"done", "failed", "lost"}, Teardown(move.from, "migrate", said),
               move' = IF said = "done" THEN [move EXCEPT !.at = "repoint", !.told = "done"] ELSE NoMove
        PROVE  RelocationInv'
    <3>1. /\ runs' \in [Hosts -> BOOLEAN] /\ answered' \in [Hosts -> [Purposes -> Answers]]
          /\ \A g \in Hosts : runs'[g] => runs[g]
      BY <1>1, <2>1, <2>3, TeardownStep, Zenon
    <3>2. \/ move' = NoMove
          \/ move' \in MoveRows /\ move'.kind = "migrate" /\ move'.at = "repoint" /\ move'.from = move.from
      <4>1. CASE said = "done"
        <5>1. move' = [move EXCEPT !.at = "repoint", !.told = "done"]
          BY <2>3, <4>1, Zenon
        <5> QED BY <1>1, <2>1, <5>1, Zenon DEF MoveRows
      <4> QED BY <2>3, <4>1, Zenon
    <3> QED BY <1>4, <2>1, <3>1, <3>2, Zenon
  <2> QED BY <1>5, <2>2, <2>3, Zenon DEF MigrateTeardown, Ends
<1>6. CASE Repoint
  <2>1. move.kind = "migrate" /\ SaveStatus("pending") /\ move' = NoMove /\ "pending" \in Statuses
        /\ UNCHANGED <<runs, online, answered, deletion, known, begun, asked>>
    BY <1>6, Zenon DEF Repoint, Ends, Statuses
  <2>2. /\ stack' \in StackFields /\ broken' \in BOOLEAN /\ (broken => broken')
        /\ stack'.exists = stack.exists /\ stack'.host = stack.host
        /\ stack'.status = "pending" \/ (broken' /\ stack' = stack)
    BY <1>1, <2>1, StatusStep, Zenon
  <2>3. runs' \in [Hosts -> BOOLEAN] /\ answered' \in [Hosts -> [Purposes -> Answers]]
    BY <1>1, <2>1, Zenon DEF RelocationTypes
  <2> QED BY <1>4, <2>1, <2>2, <2>3, Zenon
<1> QED BY <1>2, <1>3, <1>5, <1>6, Zenon

\* The delete route: alone with the stack, it leaves no copy it does not know of.
LEMMA DeleteSteps ==
  ASSUME RelocationInv, BeginDelete \/ DeleteTeardown \/ DeleteChildren \/ DeleteRow
  PROVE  RelocationInv'
<1>1. /\ RelocationTypes /\ MoveInv /\ StrayInv /\ DeletionInv /\ stack \in StackFields /\ stack.host \in Hosts
      /\ deletion \in DeletionRows /\ known \subseteq Hosts /\ UNCHANGED <<online, move, broken, asked>>
  BY Zenon DEF RelocationInv, RelocationTypes, StackFields, BeginDelete, DeleteTeardown, DeleteChildren, DeleteRow
<1>2. ASSUME stack' \in StackFields, deletion' \in DeletionRows, known' \subseteq Hosts, known \subseteq known',
             begun' \in 0 .. MaxOperations, runs' \in [Hosts -> BOOLEAN],
             answered' \in [Hosts -> [Purposes -> Answers]], \A g \in Hosts : runs'[g] => runs[g],
             stack'.exists => stack.exists, stack'.host = stack.host, stack'.status = stack.status, DeletionInv'
      PROVE  RelocationInv'
  <2>1. RelocationTypes'
    BY <1>1, <1>2, Zenon DEF RelocationTypes
  <2>2. MoveInv'
    BY <1>1, <1>2, Zenon DEF MoveInv
  <2>3. StrayInv'
    <3> SUFFICES ASSUME stack'.exists, ~broken' PROVE StrayInv'
      BY Zenon DEF StrayInv
    <3>1. ASSUME NEW h \in Hosts, runs'[h], h # stack'.host
          PROVE \/ h \in known'
                \/ move'.kind = "transfer" /\ h = move'.to /\ move'.at \in {"cleanup", "teardown", "record"}
      BY <1>1, <1>2, <3>1, Zenon DEF StrayInv
    <3>2. ASSUME move'.kind = "transfer", move'.at = "record", runs'[move'.from] PROVE move'.from \in known'
      <4>1. move.from \in Hosts
        BY <1>1, <3>2, Zenon DEF MoveInv
      <4> QED BY <1>1, <1>2, <3>2, <4>1, Zenon DEF StrayInv
    <3> QED BY <3>1, <3>2, Zenon DEF StrayInv
  <2> QED BY <1>2, <2>1, <2>2, <2>3, Zenon DEF RelocationInv
<1>3. /\ begun \in 0 .. MaxOperations /\ runs \in [Hosts -> BOOLEAN] /\ NoDeletion \in DeletionRows
      /\ answered \in [Hosts -> [Purposes -> Answers]]
  BY <1>1, NoneRows, Zenon DEF RelocationTypes
<1>4. CASE BeginDelete
  <2>1. stack.exists /\ UNCHANGED <<stack, runs, answered>>
    BY <1>4, Zenon DEF BeginDelete
  <2>2. PICK teardown \in BOOLEAN :
          /\ teardown = (stack.files /\ stack.host \in online)
          /\ deletion' = [at |-> IF teardown THEN "teardown" ELSE "children",
                          from |-> stack.host, teardown |-> teardown, raced |-> move # NoMove]
          /\ known' = IF teardown THEN known ELSE known \cup {stack.host}
    BY <1>4, Zenon DEF BeginDelete
  <2>3. PICK at \in {"teardown", "children"} : at = IF teardown THEN "teardown" ELSE "children"
    BY Zenon
  <2>4. PICK raced \in BOOLEAN : raced = (move # NoMove)
    BY Zenon
  <2>5. deletion' = [at |-> at, from |-> stack.host, teardown |-> teardown, raced |-> raced]
    BY <2>2, <2>3, <2>4, Zenon
  <2>6. /\ deletion' \in DeletionRows /\ deletion'.at = at /\ deletion'.from = stack.host /\ deletion'.raced = raced
    BY <1>1, <2>5, Zenon DEF DeletionRows
  <2>7. /\ known' \subseteq Hosts /\ known \subseteq known' /\ begun' \in 0 .. MaxOperations
        /\ (at = "children" => stack.host \in known')
    <3>1. begun' \in 0 .. MaxOperations
      BY <1>3, <1>4, RelocationAssumption DEF BeginDelete
    <3> QED BY <1>1, <2>2, <2>3, <3>1, Zenon
  <2>8. DeletionInv'
    <3> SUFFICES ASSUME ~raced PROVE DeletionInv'
      BY <1>1, <2>6, Zenon DEF DeletionInv
    <3>1. move = NoMove /\ move.kind = "none"
      BY <2>4, NoneRows, Zenon
    <3>2. \A h \in Hosts : runs[h] /\ h # stack.host => h \in known \/ broken
      BY <1>1, <2>1, <3>1, Zenon DEF StrayInv
    <3> QED BY <1>1, <2>1, <2>6, <2>7, <3>1, <3>2, Zenon DEF DeletionInv
  <2> QED BY <1>1, <1>2, <1>3, <2>1, <2>6, <2>7, <2>8, Zenon
<1>5. CASE DeleteTeardown
  <2>1. deletion.at = "teardown" /\ UNCHANGED <<stack, begun>>
    BY <1>5, Zenon DEF DeleteTeardown
  <2>2. PICK said \in {"done", "failed", "lost"} :
       /\ Teardown(deletion.from, "delete", said)
       /\ known' = IF answered[deletion.from]["delete"] = "done" THEN known \cup {deletion.from} ELSE known
       /\ deletion' = IF said = "done" THEN [deletion EXCEPT !.at = "children"] ELSE NoDeletion
    BY <1>5, Zenon DEF DeleteTeardown
  <2>3. deletion.from \in Hosts
    BY <1>1, <2>1, Zenon DEF DeletionInv
  <2>4. /\ runs' \in [Hosts -> BOOLEAN] /\ answered' \in [Hosts -> [Purposes -> Answers]]
        /\ \A g \in Hosts : runs'[g] => runs[g]
        /\ said = "done" => ~runs'[deletion.from] \/ answered[deletion.from]["delete"] = "done"
    BY <1>1, <2>2, <2>3, TeardownStep, Zenon DEF Purposes
  <2>5. known' \subseteq Hosts /\ known \subseteq known'
    BY <1>1, <2>2, <2>3, Zenon
  <2>6. CASE said = "done"
    <3>1. deletion' = [deletion EXCEPT !.at = "children"]
      BY <2>2, <2>6, Zenon
    <3>2. deletion' \in DeletionRows /\ deletion'.at = "children" /\ deletion'.raced = deletion.raced /\ deletion'.from = deletion.from
      BY <1>1, <3>1, Zenon DEF DeletionRows
    <3>3. DeletionInv'
      <4> SUFFICES ASSUME ~deletion.raced PROVE DeletionInv'
        BY <2>3, <3>2, Zenon DEF DeletionInv
      <4>1. move = NoMove /\ move.kind = "none" /\ stack.exists /\ deletion.from = stack.host
        BY <1>1, <2>1, NoneRows, Zenon DEF DeletionInv
      <4>2. \A h \in Hosts : runs'[h] => h \in known' \/ broken
        BY <1>1, <2>2, <2>4, <2>5, <2>6, <4>1, Zenon DEF StrayInv
      <4> QED BY <1>1, <2>3, <3>2, <4>1, <4>2, Zenon DEF DeletionInv
    <3> QED BY <1>1, <1>2, <1>3, <2>1, <2>4, <2>5, <3>2, <3>3, Zenon
  <2>7. CASE said # "done"
    <3>1. deletion' = NoDeletion
      BY <2>2, <2>7, Zenon
    <3>2. DeletionInv'
      BY <3>1, NoneRows, Zenon DEF DeletionInv
    <3> QED BY <1>1, <1>2, <1>3, <2>1, <2>4, <2>5, <3>1, <3>2, Zenon
  <2> QED BY <2>6, <2>7, Zenon
<1>6. CASE DeleteChildren \/ DeleteRow
  <2>1. deletion.at \in {"children", "row"} /\ UNCHANGED <<runs, answered, known, begun>>
    BY <1>6, Zenon DEF DeleteChildren, DeleteRow
  <2>2. CASE deletion' = NoDeletion /\ UNCHANGED stack
    <3>1. DeletionInv'
      BY <2>2, NoneRows, Zenon DEF DeletionInv
    <3> QED BY <1>1, <1>2, <1>3, <2>1, <2>2, <3>1, Zenon
  <2>3. ASSUME NEW at \in {"row", "deleted"}, deletion' = [deletion EXCEPT !.at = at],
               stack' \in {[stack EXCEPT !.files = FALSE], [stack EXCEPT !.exists = FALSE]}
        PROVE  RelocationInv'
    <3>1. /\ deletion' \in DeletionRows /\ deletion'.at = at /\ deletion'.raced = deletion.raced
          /\ deletion'.from = deletion.from
      BY <1>1, <2>3, Zenon DEF DeletionRows
    <3>2. /\ stack' \in StackFields /\ (stack'.exists => stack.exists) /\ stack'.host = stack.host
          /\ stack'.status = stack.status
      BY <1>1, <2>3, Zenon DEF StackFields
    <3>3. DeletionInv'
      BY <1>1, <2>1, <3>1, Zenon DEF DeletionInv
    <3> QED BY <1>1, <1>2, <1>3, <2>1, <3>1, <3>2, <3>3, Zenon
  <2> QED BY <1>6, <2>2, <2>3, Zenon DEF DeleteChildren, DeleteRow
<1> QED BY <1>4, <1>5, <1>6, Zenon

\* Transfers, migrations, deployments and deletions leave no copy of a stack that
\* nobody knows of and no status of "syncing", for any number of workers.
THEOREM RelocationCorrect == RelocationSpec => []RelocationSafety
<1>1. RelocationInit => RelocationInv
  <2> SUFFICES ASSUME RelocationInit PROVE RelocationInv
    BY Zenon
  <2>1. (CHOOSE h \in Hosts : TRUE) \in Hosts
    BY RelocationAssumption, Zenon
  <2>2. /\ stack \in StackFields /\ stack.status = "pending"
    BY <2>1, Zenon DEF RelocationInit, StackFields, Statuses
  <2>3. /\ runs = [h \in Hosts |-> FALSE] /\ online = Hosts /\ known = {} /\ broken = FALSE /\ begun = 0
        /\ move = NoMove /\ asked = NotAsked /\ deletion = NoDeletion
    BY Zenon DEF RelocationInit
  <2>4. answered \in [Hosts -> [Purposes -> Answers]]
    BY Zenon DEF RelocationInit, Answers
  <2>5. begun \in 0 .. MaxOperations
    BY <2>3, RelocationAssumption
  <2>6. NotAsked \in [from : Hosts \cup {NoHost}, deployed : BOOLEAN]
    BY Zenon DEF NotAsked
  <2>7. RelocationTypes
    BY <2>2, <2>3, <2>4, <2>5, <2>6, NoneRows, Zenon DEF RelocationTypes
  <2>8. MoveInv /\ StrayInv /\ DeletionInv
    BY <2>2, <2>3, NoneRows, Zenon DEF MoveInv, StrayInv, DeletionInv
  <2> QED BY <2>7, <2>8, Zenon DEF RelocationInv
<1>2. RelocationInv /\ [RelocationNext]_relocationVars => RelocationInv'
  <2> SUFFICES ASSUME RelocationInv, [RelocationNext]_relocationVars PROVE RelocationInv'
    BY Zenon
  <2>1. ASSUME NEW h \in Hosts, Disconnect(h) \/ Connect(h) PROVE RelocationInv'
    BY <2>1, HostSteps, Zenon DEF Purposes
  <2>2. ASSUME NEW h \in Hosts, NEW p \in Purposes, Forget(h, p) PROVE RelocationInv'
    BY <2>2, HostSteps, Zenon
  <2>3. ASSUME NEW h \in Hosts, BeginTransfer(h) PROVE RelocationInv'
    BY <2>3, BeginSteps, Zenon
  <2>4. CASE BeginDeploy
    BY <2>4, BeginSteps, Zenon
  <2>5. CASE Deploy \/ RecordDeploy
    BY <2>5, DeploySteps, Zenon
  <2>6. CASE LogFails \/ TransferFails
    BY <2>6, TransferEnds, Zenon
  <2>7. CASE ProbeTarget
    <3>1. CASE move' = NoMove
      BY <2>7, <3>1, TransferEnds, Zenon
    <3>2. CASE Goes("deploy") /\ UNCHANGED <<stack, broken>>
      BY <2>7, <3>2, TransferSteps, Zenon
    <3> QED BY <2>7, <3>1, <3>2, Zenon DEF ProbeTarget, Ends
  <2>8. CASE DeployTarget \/ CleanUpTarget \/ TearDownSource
    BY <2>8, TransferSteps, Zenon
  <2>9. CASE RecordTransfer
    BY <2>9, RecordTransferStep, Zenon
  <2>10. CASE AskMigrate \/ BeginMigrate \/ MigrateTeardown \/ Repoint
    BY <2>10, MigrateSteps, Zenon
  <2>11. CASE BeginDelete \/ DeleteTeardown \/ DeleteChildren \/ DeleteRow
    BY <2>11, DeleteSteps, Zenon
  <2>12. CASE UNCHANGED relocationVars
    BY <2>12 DEF relocationVars, RelocationInv, RelocationTypes, MoveInv, StrayInv, DeletionInv
  <2> QED BY <2>1, <2>2, <2>3, <2>4, <2>5, <2>6, <2>7, <2>8, <2>9, <2>10, <2>11, <2>12, Zenon DEF RelocationNext
<1>3. RelocationInv => RelocationSafety
  <2> SUFFICES ASSUME RelocationInv PROVE RelocationSafety
    BY Zenon
  <2>1. move.kind = "none" \/ (move.kind # "none" /\ move # NoMove /\ move.from \in Hosts)
    BY MoveFacts, Zenon
  <2>2. RelocationTypeOK
    BY <2>1, Zenon DEF RelocationInv, RelocationTypes, MoveInv, RelocationTypeOK, StackFields, MoveRows, DeletionRows
  <2>3. StraysAreKnown
    BY Zenon DEF RelocationInv, RelocationTypes, StrayInv, StraysAreKnown
  <2>4. DeletedRunsNowhere
    BY Zenon DEF RelocationInv, DeletionInv, DeletedRunsNowhere
  <2>5. TransferSettlesStatus
    BY NoneRows, Zenon DEF RelocationInv, MoveInv, TransferSettlesStatus
  <2> QED BY <2>2, <2>3, <2>4, <2>5, Zenon DEF RelocationSafety
<1> QED BY <1>1, <1>2, <1>3, PTL DEF RelocationSpec
=============================================================================
