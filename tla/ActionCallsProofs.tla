-------------------------- MODULE ActionCallsProofs --------------------------
(***************************************************************************)
(* What ActionTargets keeps for every set of targets, names, clients,      *)
(* documents and pages: the types, the uniqueness of names although they   *)
(* are looked up before the checks and inserted after them, the grants     *)
(* that go with their target, and what a step may do to a saved row.       *)
(*                                                                         *)
(* And what the calls of ActionCalls saw of their targets, for every set   *)
(* of calls, requests, targets and pages and every bound: the revision a   *)
(* call recorded names the documents it ran with.                          *)
(***************************************************************************)
EXTENDS ActionCalls, FiniteSetTheorems, TLAPS

-----------------------------------------------------------------------------
(* The targets and their grants.                                           *)

\* The pages that hold a form, by its kind.
LEMMA FormKinds ==
  ASSUME TargetsTypeOK, NEW f \in Forms
  PROVE  /\ form[f].kind = "create" => form[f].new \in NewTargets
         /\ form[f].kind = "update" => /\ form[f].id \in Ids
                                       /\ form[f].before \in Docs
                                       /\ form[f].docs \in Edits
  BY DEF TargetsTypeOK, CreateForms, UpdateForms, NoForm

\* A saved target has a row; the two other states have none.
LEMMA SavedRow ==
  ASSUME TargetsTypeOK, NEW i \in Ids
  PROVE  /\ Saved(i) <=> target[i] \in Rows
         /\ Unused \notin Rows /\ Removed \notin Rows /\ Unused # Removed
         /\ ~Saved(i) => target[i] \in {Unused, Removed}
  BY DEF TargetsTypeOK, Saved, Rows, Unused, Removed

\* The rows the two statements that change one leave, at revision v.
WithDocs(r, doc, v) == [r EXCEPT !.docs = doc, !.revision = v]
WithSwitch(r, on, v) == [r EXCEPT !.enabled = on, !.revision = v]

LEMMA DocsWritten ==
  ASSUME NEW r \in Rows, NEW doc \in Docs, NEW v \in 1..MaxRevision
  PROVE  /\ WithDocs(r, doc, v) \in Rows
         /\ WithDocs(r, doc, v).name = r.name
         /\ WithDocs(r, doc, v).enabled = r.enabled
         /\ WithDocs(r, doc, v).revision = v
  BY DEF Rows, WithDocs

LEMMA SwitchWritten ==
  ASSUME NEW r \in Rows, NEW on \in BOOLEAN, NEW v \in 1..MaxRevision
  PROVE  /\ WithSwitch(r, on, v) \in Rows
         /\ WithSwitch(r, on, v).name = r.name
         /\ WithSwitch(r, on, v).docs = r.docs
         /\ WithSwitch(r, on, v).revision = v
  BY DEF Rows, WithSwitch

\* What one turn may do to the row of a target (createTarget, updateTarget,
\* setTargetEnabled, removeTarget).
RowStep(i) ==
  \/ target'[i] = target[i]
  \/ /\ target[i] = Unused /\ target'[i] \in Rows /\ target'[i].revision = 1
     /\ ~NameTaken(target'[i].name)
     /\ \A j \in Ids \ {i} : target'[j] = target[j]
  \/ Saved(i) /\ target'[i] = Removed /\ grant'[i] = [k \in Clients |-> "none"]
  \/ /\ Saved(i) /\ target'[i] \in Rows
     /\ target'[i].name = target[i].name
     /\ target'[i].revision = target[i].revision + 1
     /\ target'[i].enabled # target[i].enabled => target'[i].docs = target[i].docs

\* Every step changes each row in one of these ways.
LEMMA RowSteps ==
  ASSUME TargetsTypeOK, TargetsNext \/ UNCHANGED targetVars, NEW i \in Ids
  PROVE  RowStep(i)
  <1> USE TargetsAssumption DEF RowStep
  <1>1. CASE UNCHANGED targetVars
    BY <1>1 DEF targetVars
  <1>2. ASSUME NEW f \in Forms, FinishCreate(f) PROVE RowStep(i)
    <2> DEFINE new == form[f].new
    <2>1. new \in [name : Names, enabled : BOOLEAN, docs : Docs]
      BY <1>2, FormKinds DEF FinishCreate
    <2>2. CASE NameTaken(new.name)
      BY <1>2, <2>2 DEF FinishCreate
    <2>3. CASE ~NameTaken(new.name)
      <3>1. PICK k \in Ids :
              /\ target[k] = Unused
              /\ target' = [target EXCEPT ![k] = Row(new.name, new.enabled, new.docs, 1)]
        BY <1>2, <2>3 DEF FinishCreate
      <3>2. 1 \in 1..MaxRevision
        OBVIOUS
      <3>3. Row(new.name, new.enabled, new.docs, 1) \in Rows
        BY <2>1, <3>2 DEF Row, Rows
      <3>4. CASE i = k
        BY <2>3, <3>1, <3>3, <3>4 DEF TargetsTypeOK, Row
      <3> QED
        BY <3>1, <3>4 DEF TargetsTypeOK
    <2> QED
      BY <2>2, <2>3
  <1>3. ASSUME NEW f \in Forms, FinishUpdate(f) PROVE RowStep(i)
    <2> DEFINE k == form[f].id  doc == form[f].docs
    <2>1. k \in Ids /\ doc \in Docs
      BY <1>3, FormKinds DEF FinishUpdate
    <2>2. CASE Saved(k) /\ target' = [target EXCEPT ![k].docs = doc, ![k].revision = @ + 1]
               /\ Bounded(k)
      <3>1. CASE i = k
        <4>1. target[i] \in Rows /\ target[i].revision < MaxRevision
          BY <2>1, <2>2, <3>1, SavedRow DEF Bounded
        <4>2. target[i].revision + 1 \in 1..MaxRevision
          BY <4>1 DEF Rows
        <4>3. target'[i] = WithDocs(target[i], doc, target[i].revision + 1)
          BY <2>2, <3>1, <4>1 DEF TargetsTypeOK, Rows, WithDocs
        <4>4. Saved(i) /\ doc \in Docs
          BY <2>1, <2>2, <3>1
        <4> HIDE DEF doc
        <4> DEFINE v == target[i].revision + 1
        <4>5. v \in 1..MaxRevision /\ target[i] \in Rows
          BY <4>1, <4>2
        <4> HIDE DEF v
        <4>6. /\ WithDocs(target[i], doc, v) \in Rows
              /\ WithDocs(target[i], doc, v).name = target[i].name
              /\ WithDocs(target[i], doc, v).enabled = target[i].enabled
              /\ WithDocs(target[i], doc, v).revision = v
          BY <4>4, <4>5, DocsWritten
        <4> QED
          BY <4>3, <4>4, <4>6 DEF v
      <3> QED
        BY <2>2, <3>1 DEF TargetsTypeOK
    <2>3. CASE target' = target
      BY <2>3
    <2> QED
      BY <1>3, <2>2, <2>3 DEF FinishUpdate, Stored
  <1>4. ASSUME NEW k \in Ids, NEW on \in BOOLEAN, SetEnabled(k, on) PROVE RowStep(i)
    <2>1. CASE i = k
      <3>1. target[i] \in Rows /\ target[i].revision < MaxRevision
        BY <1>4, <2>1, SavedRow DEF SetEnabled, Bounded
      <3>2. target[i].revision + 1 \in 1..MaxRevision
        BY <3>1 DEF Rows
      <3>3. target'[i] = WithSwitch(target[i], on, target[i].revision + 1)
        BY <1>4, <2>1, <3>1 DEF SetEnabled, TargetsTypeOK, Rows, WithSwitch
      <3> DEFINE v == target[i].revision + 1
      <3>4. v \in 1..MaxRevision /\ target[i] \in Rows
        BY <3>1, <3>2
      <3> HIDE DEF v
      <3>5. /\ WithSwitch(target[i], on, v) \in Rows
            /\ WithSwitch(target[i], on, v).name = target[i].name
            /\ WithSwitch(target[i], on, v).docs = target[i].docs
            /\ WithSwitch(target[i], on, v).revision = v
        BY <3>4, SwitchWritten
      <3>6. target'[i] = WithSwitch(target[i], on, v) /\ Saved(i)
        BY <1>4, <2>1, <3>3 DEF SetEnabled, v
      <3> QED
        BY <3>5, <3>6 DEF v
    <2> QED
      BY <1>4, <2>1 DEF SetEnabled, TargetsTypeOK
  <1>5. ASSUME NEW k \in Ids, RemoveTarget(k) PROVE RowStep(i)
    BY <1>5 DEF RemoveTarget, TargetsTypeOK
  <1>6. ASSUME TargetsNext, target' = target PROVE RowStep(i)
    BY <1>6
  <1> QED
    BY <1>1, <1>2, <1>3, <1>4, <1>5, <1>6
    DEF TargetsNext, BeginCreate, BeginUpdate, FormFails, Grant, RevokeGrant, Disconnected

-----------------------------------------------------------------------------
(* The types.                                                              *)

LEMMA TypesKept ==
  ASSUME TargetsTypeOK, TargetsNext \/ UNCHANGED targetVars
  PROVE  TargetsTypeOK'
  <1>1. target' \in [Ids -> Rows \cup {Unused, Removed}]
    <2>1. DOMAIN target' = Ids /\ target' = [i \in Ids |-> target'[i]]
      BY DEF TargetsTypeOK, TargetsNext, targetVars, BeginCreate, FinishCreate, BeginUpdate,
             FinishUpdate, Stored, FormFails, SetEnabled, RemoveTarget, Grant, RevokeGrant,
             Disconnected
    <2>2. \A i \in Ids : target'[i] \in Rows \cup {Unused, Removed}
      BY RowSteps DEF RowStep, TargetsTypeOK
    <2> QED
      BY <2>1, <2>2
  <1>2. grant' \in [Ids -> [Clients -> {"none", "full", "read"}]]
    <2>1. CASE UNCHANGED grant
      BY <2>1 DEF TargetsTypeOK
    <2>2. ASSUME NEW i \in Ids, RemoveTarget(i)
          PROVE  grant' \in [Ids -> [Clients -> {"none", "full", "read"}]]
      BY <2>2 DEF RemoveTarget, TargetsTypeOK
    <2>3. ASSUME NEW i \in Ids, NEW k \in Clients, NEW ro \in BOOLEAN, Grant(i, k, ro)
          PROVE  grant' \in [Ids -> [Clients -> {"none", "full", "read"}]]
      BY <2>3 DEF Grant, Upsert, TargetsTypeOK
    <2>4. ASSUME NEW i \in Ids, NEW k \in Clients, RevokeGrant(i, k)
          PROVE  grant' \in [Ids -> [Clients -> {"none", "full", "read"}]]
      BY <2>4 DEF RevokeGrant, TargetsTypeOK
    <2>5. ASSUME NEW k \in Clients, Disconnected(k)
          PROVE  grant' \in [Ids -> [Clients -> {"none", "full", "read"}]]
      BY <2>5 DEF Disconnected, TargetsTypeOK
    <2> QED
      BY <2>1, <2>2, <2>3, <2>4, <2>5
      DEF TargetsNext, targetVars, BeginCreate, FinishCreate, BeginUpdate, FinishUpdate,
          FormFails, SetEnabled
  <1>3. form' \in [Forms -> CreateForms \cup UpdateForms \cup {NoForm}]
    <2>1. CASE UNCHANGED form
      BY <2>1 DEF TargetsTypeOK
    <2>2. ASSUME NEW f \in Forms, NEW new \in NewTargets, BeginCreate(f, new)
          PROVE  form' \in [Forms -> CreateForms \cup UpdateForms \cup {NoForm}]
      BY <2>2 DEF BeginCreate, CreateForms, TargetsTypeOK
    <2>3. ASSUME NEW f \in Forms, NEW i \in Ids, NEW doc \in Edits, BeginUpdate(f, i, doc)
          PROVE  form' \in [Forms -> CreateForms \cup UpdateForms \cup {NoForm}]
      <3>1. target[i].docs \in Docs
        BY <2>3, SavedRow DEF BeginUpdate, Rows
      <3> QED
        BY <2>3, <3>1 DEF BeginUpdate, UpdateForms, TargetsTypeOK
    <2>4. ASSUME NEW f \in Forms, form' = [form EXCEPT ![f] = NoForm]
          PROVE  form' \in [Forms -> CreateForms \cup UpdateForms \cup {NoForm}]
      BY <2>4 DEF TargetsTypeOK
    <2> QED
      BY <2>1, <2>2, <2>3, <2>4
      DEF TargetsNext, targetVars, FinishCreate, FinishUpdate, FormFails, SetEnabled, RemoveTarget,
          Grant, RevokeGrant, Disconnected
  <1> QED
    BY <1>1, <1>2, <1>3 DEF TargetsTypeOK

LEMMA TypesAtFirst == TargetsInit => TargetsTypeOK
  BY DEF TargetsInit, TargetsTypeOK

\* Every table and page holds what its schema says (targets-schemas.ts).
THEOREM TargetsTyped == TargetsSpec => []TargetsTypeOK
  <1>1. TargetsTypeOK /\ [TargetsNext]_targetVars => TargetsTypeOK'
    BY TypesKept
  <1> QED
    BY TypesAtFirst, <1>1, PTL DEF TargetsSpec

-----------------------------------------------------------------------------
(* Safety.                                                                 *)

\* Names: only an insert brings a name in, and it finds it free.
LEMMA NamesKept ==
  ASSUME TargetsTypeOK, NameUnique, TargetsNext \/ UNCHANGED targetVars
  PROVE  NameUnique'
  <1> SUFFICES ASSUME NEW i \in Ids, NEW j \in Ids, i # j,
                      Saved(i)', Saved(j)', target'[i].name = target'[j].name
               PROVE  FALSE
    BY DEF NameUnique
  <1>1. RowStep(i) /\ RowStep(j)
    BY RowSteps
  <1>2. target'[i] # Removed /\ target'[j] # Removed
    BY DEF Saved, Removed
  <1>3. CASE target[i] = Unused
    <2>1. ~NameTaken(target'[i].name) /\ target'[j] = target[j]
      BY <1>1, <1>2, <1>3 DEF RowStep, Saved, Unused
    <2> QED
      BY <2>1 DEF NameTaken, Saved
  <1>4. CASE target[j] = Unused
    <2>1. ~NameTaken(target'[j].name) /\ target'[i] = target[i]
      BY <1>1, <1>2, <1>4 DEF RowStep, Saved, Unused
    <2> QED
      BY <2>1 DEF NameTaken, Saved
  <1>5. CASE target[i] # Unused /\ target[j] # Unused
    <2>1. /\ Saved(i) /\ target'[i].name = target[i].name
          /\ Saved(j) /\ target'[j].name = target[j].name
      BY <1>1, <1>2, <1>5 DEF RowStep, Saved
    <2> QED
      BY <2>1 DEF NameUnique
  <1> QED
    BY <1>3, <1>4, <1>5

\* createTarget looks the name up before its checks and inserts after them;
\* findByName still has one answer.
THEOREM NamesAreUnique == TargetsSpec => []NameUnique
  <1>1. TargetsInit => NameUnique
    BY DEF TargetsInit, NameUnique, Saved, Unused
  <1>2. TargetsTypeOK /\ NameUnique /\ [TargetsNext]_targetVars => NameUnique'
    BY NamesKept
  <1> QED
    BY TargetsTyped, <1>1, <1>2, PTL DEF TargetsSpec

\* Removal leaves no grant behind, and no later target begins with one.
THEOREM GrantsHaveTargets == TargetsSpec => []GrantsOfSaved
  <1>1. TargetsInit => GrantsOfSaved
    BY DEF TargetsInit, GrantsOfSaved, Active
  <1>2. TargetsTypeOK /\ GrantsOfSaved /\ [TargetsNext]_targetVars => GrantsOfSaved'
    <2> SUFFICES ASSUME TargetsTypeOK, GrantsOfSaved, TargetsNext \/ UNCHANGED targetVars,
                        NEW i \in Ids, NEW k \in Clients, Active(grant[i][k])'
                 PROVE  Saved(i)'
      BY DEF GrantsOfSaved
    <2>1. CASE Saved(i)
      <3>1. target'[i] # Removed
        <4>1. SUFFICES ASSUME target'[i] = Removed PROVE grant'[i] = [m \in Clients |-> "none"]
          BY <4>1 DEF Active
        <4> QED
          BY <2>1, <4>1, RowSteps DEF RowStep, Saved, Rows, Removed, Unused
      <3> QED
        BY <2>1, <3>1, RowSteps DEF RowStep, Saved, Rows, Unused
    <2>2. CASE ~Saved(i)
      <3>1. ~Active(grant[i][k])
        BY <2>2 DEF GrantsOfSaved
      <3>2. ASSUME NEW j \in Ids, NEW m \in Clients, NEW ro \in BOOLEAN, Grant(j, m, ro)
            PROVE  FALSE
        BY <2>2, <3>1, <3>2 DEF Grant, TargetsTypeOK
      <3>3. ASSUME NEW j \in Ids, RemoveTarget(j) \/ \E m \in Clients : RevokeGrant(j, m)
            PROVE  FALSE
        BY <3>1, <3>3 DEF RemoveTarget, RevokeGrant, TargetsTypeOK, Active
      <3>4. ASSUME NEW m \in Clients, Disconnected(m) PROVE FALSE
        BY <3>1, <3>4 DEF Disconnected, TargetsTypeOK, Active
      <3>5. grant' # grant
        BY <3>1
      <3> QED
        BY <3>2, <3>3, <3>4, <3>5
        DEF TargetsNext, targetVars, BeginCreate, FinishCreate, BeginUpdate, FinishUpdate,
            FormFails, SetEnabled
    <2> QED
      BY <2>1, <2>2
  <1> QED
    BY TargetsTyped, <1>1, <1>2, PTL DEF TargetsSpec

\* No edit that was checked meanwhile switches a target back on or brings a
\* removed one back.
THEOREM SwitchesStay == TargetsSpec => SwitchStays
  <1> DEFINE A == \A i \in Ids : target[i] # Unused /\ target'[i] # target[i] =>
                    \/ Saved(i) /\ target'[i] = Removed
                    \/ /\ Saved(i) /\ target'[i].state = "saved"
                       /\ target'[i].name = target[i].name
                       /\ target'[i].revision = target[i].revision + 1
                       /\ target'[i].enabled # target[i].enabled =>
                            target'[i].docs = target[i].docs
  <1>1. TargetsTypeOK /\ [TargetsNext]_targetVars => [A]_targetVars
    <2> SUFFICES ASSUME TargetsTypeOK, [TargetsNext]_targetVars PROVE A
      OBVIOUS
    <2>1. ASSUME NEW i \in Ids PROVE RowStep(i)
      BY RowSteps
    <2> QED
      BY <2>1 DEF RowStep, Rows
  <1> QED
    BY TargetsTyped, <1>1, PTL DEF TargetsSpec, SwitchStays

\* Confirming a client again does not widen a grant in use (ACT-9).
THEOREM CeilingsStay == TargetsSpec => CeilingKept
  <1> DEFINE A == \A i \in Ids, k \in Clients : grant[i][k] = "read" => grant'[i][k] # "full"
  <1>1. TargetsTypeOK /\ [TargetsNext]_targetVars => [A]_targetVars
    <2> SUFFICES ASSUME TargetsTypeOK, [TargetsNext]_targetVars,
                        NEW i \in Ids, NEW k \in Clients, grant[i][k] = "read"
                 PROVE  grant'[i][k] # "full"
      OBVIOUS
    <2>1. CASE UNCHANGED grant
      BY <2>1
    <2>2. ASSUME NEW j \in Ids, RemoveTarget(j) PROVE grant'[i][k] # "full"
      BY <2>2 DEF RemoveTarget, TargetsTypeOK
    <2>3. ASSUME NEW j \in Ids, NEW m \in Clients, NEW ro \in BOOLEAN, Grant(j, m, ro)
          PROVE  grant'[i][k] # "full"
      BY <2>3 DEF Grant, Upsert, TargetsTypeOK
    <2>4. ASSUME NEW j \in Ids, NEW m \in Clients, RevokeGrant(j, m)
          PROVE  grant'[i][k] # "full"
      BY <2>4 DEF RevokeGrant, TargetsTypeOK
    <2>5. ASSUME NEW m \in Clients, Disconnected(m) PROVE grant'[i][k] # "full"
      BY <2>5 DEF Disconnected, TargetsTypeOK
    <2> QED
      BY <2>1, <2>2, <2>3, <2>4, <2>5
      DEF TargetsNext, targetVars, BeginCreate, FinishCreate, BeginUpdate, FinishUpdate,
          FormFails, SetEnabled
  <1> QED
    BY TargetsTyped, <1>1, PTL DEF TargetsSpec, CeilingKept

-----------------------------------------------------------------------------
(* The calls.                                                              *)

\* A snapshot that is the target as it is stored.
Current(s) ==
  /\ Saved(s.id)
  /\ s.revision = target[s.id].revision
  /\ s.docs = target[s.id].docs

\* A snapshot of a target as it was: never ahead of its row in the table tab,
\* and the same as the row at the same revision.
Past(tab, s) ==
  /\ s \in Snapshots
  /\ tab[s.id] # Unused
  /\ tab[s.id].state = "saved" =>
       /\ s.revision <= tab[s.id].revision
       /\ s.revision = tab[s.id].revision => s.docs = tab[s.id].docs

SeenPast == \A c \in Calls : \A j \in DOMAIN call[c].seen : Past(target, call[c].seen[j])

IInv ==
  /\ TargetsTypeOK
  /\ call \in [Calls -> CallRecords]
  /\ SeenPast
  /\ RevisionNames

-----------------------------------------------------------------------------
(* What a resolution sees.                                                 *)

\* findByName answers for every name, and what resolveAll keeps of the rows
\* is what they are.
LEMMA ResolvedCurrent ==
  ASSUME TargetsTypeOK, NEW r \in Requests, Resolvable(r)
  PROVE  /\ Resolved(r) \in Seq(Snapshots)
         /\ \A j \in DOMAIN Resolved(r) : Current(Resolved(r)[j])
  <1>1. r.names \in Seq(Names)
    BY CallsAssumption
  <1> DEFINE n == Len(r.names)
  <1>2. n \in Nat
    BY <1>1
  <1>3. ASSUME NEW j \in 1..n
        PROVE  Resolved(r)[j] \in Snapshots /\ Current(Resolved(r)[j])
    <2> DEFINE i == CHOOSE i \in Found(r.names[j]) : TRUE
    <2>1. Found(r.names[j]) # {}
      BY <1>3 DEF Resolvable, Resolves
    <2>2. i \in Found(r.names[j])
      BY <2>1
    <2>3. i \in Ids /\ Saved(i) /\ target[i] \in Rows
      BY <2>2, SavedRow DEF Found
    <2>4. Resolved(r)[j] =
            [id |-> i, revision |-> target[i].revision, docs |-> target[i].docs]
      BY <1>3 DEF Resolved
    <2> HIDE DEF i
    <2> QED
      BY <2>3, <2>4 DEF Snapshots, Current, Rows
  <1>4. Resolved(r) = [j \in 1..n |-> Resolved(r)[j]]
    BY DEF Resolved
  <1>5. DOMAIN Resolved(r) = 1..n
    BY DEF Resolved
  <1> HIDE DEF n
  <1> QED
    BY <1>2, <1>3, <1>4, <1>5

-----------------------------------------------------------------------------
(* What a step does to the calls and to the targets.                       *)

LEMMA FreshTyped == Fresh \in CallRecords /\ Fresh.seen = <<>>
  BY DEF Fresh, CallRecords

LEMMA FieldTyped ==
  ASSUME NEW x \in CallRecords
  PROVE  WithField(x) \in CallRecords /\ WithField(x).seen = x.seen
  <1> DEFINE hs == x.holders \cup {x.k}
  <1>1. hs \in SUBSET Nat /\ x.got + 1 \in Nat
    BY DEF CallRecords
  <1>2. CASE x.got + 1 < Fields
    <2>1. WithField(x) = [x EXCEPT !.got = x.got + 1]
      BY <1>2 DEF WithField
    <2> QED
      BY <1>1, <2>1 DEF CallRecords
  <1>3. CASE ~(x.got + 1 < Fields)
    <2>1. WithField(x) = [x EXCEPT !.at = "pinning", !.got = 0, !.holders = hs]
      BY <1>3 DEF WithField
    <2> DEFINE y == [x EXCEPT !.at = "pinning"]
               z == [y EXCEPT !.got = 0]
    <2>2. y \in CallRecords /\ y.seen = x.seen
      BY DEF CallRecords
    <2> HIDE DEF y
    <2>3. z \in CallRecords /\ z.seen = x.seen
      BY <2>2 DEF CallRecords
    <2> HIDE DEF z
    <2> HIDE DEF hs
    <2>4. [z EXCEPT !.holders = hs] \in CallRecords /\ [z EXCEPT !.holders = hs].seen = x.seen
      BY <1>1, <2>3 DEF CallRecords
    <2>5. [x EXCEPT !.at = "pinning", !.got = 0, !.holders = hs] = [z EXCEPT !.holders = hs]
      BY DEF y, z
    <2> QED
      BY <2>1, <2>4, <2>5
  <1> QED
    BY <1>2, <1>3

LEMMA CallsStep ==
  ASSUME call \in [Calls -> CallRecords], TargetsTypeOK, CallsNext \/ UNCHANGED vars
  PROVE  /\ call' \in [Calls -> CallRecords]
         /\ \A c \in Calls :
              \/ call'[c].seen = call[c].seen
              \/ call'[c].seen = <<>>
              \/ /\ target' = target
                 /\ \A j \in DOMAIN call'[c].seen : Current(call'[c].seen[j])
  <1> DEFINE Good(d) ==
        /\ call'[d] \in CallRecords
        /\ \/ call'[d].seen = call[d].seen
           \/ call'[d].seen = <<>>
           \/ /\ target' = target
              /\ \A j \in DOMAIN call'[d].seen : Current(call'[d].seen[j])
  <1>1. ASSUME NEW c \in Calls, NEW rec \in CallRecords, call' = [call EXCEPT ![c] = rec],
               \/ rec.seen = call[c].seen
               \/ rec.seen = <<>>
               \/ target' = target /\ \A j \in DOMAIN rec.seen : Current(rec.seen[j]),
               NEW d \in Calls
        PROVE  Good(d) /\ DOMAIN call' = Calls /\ call' = [e \in Calls |-> call'[e]]
    BY <1>1
  <1> SUFFICES /\ call' = [e \in Calls |-> call'[e]]
               /\ \A d \in Calls : Good(d)
    OBVIOUS
  <1>2. CASE UNCHANGED call
    BY <1>2
  <1>3. ASSUME NEW c \in Calls, NEW r \in Requests, call' = [call EXCEPT ![c] = Made(r)]
        PROVE  call' = [e \in Calls |-> call'[e]] /\ \A d \in Calls : Good(d)
    <2>1. Made(r) \in CallRecords /\ Made(r).seen = <<>>
      BY FreshTyped DEF Made, CallRecords
    <2> QED
      BY <1>1, <1>3, <2>1
  <1>4. ASSUME NEW c \in Calls, NEW r \in Requests, Deny(c, r)
        PROVE  call' = [e \in Calls |-> call'[e]] /\ \A d \in Calls : Good(d)
    BY <1>3, <1>4 DEF Deny, Refused
  <1>5. ASSUME NEW c \in Calls, NEW r \in Requests, Acquire(c, r)
        PROVE  call' = [e \in Calls |-> call'[e]] /\ \A d \in Calls : Good(d)
    <2> DEFINE rec == [Fresh EXCEPT !.at = "fetching", !.request = r, !.seen = Resolved(r),
                                    !.k = 1]
    <2>1. call' = [call EXCEPT ![c] = rec] \/ call' = [call EXCEPT ![c] = Made(r)]
      BY <1>5 DEF Acquire, Refused
    <2>2. target' = target /\ Resolvable(r)
      BY <1>5 DEF Acquire, targetVars
    <2>3. /\ Resolved(r) \in Seq(Snapshots)
          /\ \A j \in DOMAIN Resolved(r) : Current(Resolved(r)[j])
      BY <2>2, ResolvedCurrent
    <2>4. rec \in CallRecords /\ rec.seen = Resolved(r)
      BY <2>3 DEF Fresh, CallRecords
    <2> HIDE DEF rec
    <2> QED
      BY <1>1, <1>3, <2>1, <2>2, <2>3, <2>4
  <1>6. ASSUME NEW c \in Calls, Proceeds(c) \/ AbandonedEnds(c)
        PROVE  call' = [e \in Calls |-> call'[e]] /\ \A d \in Calls : Good(d)
    <2>1. call[c] \in CallRecords
      OBVIOUS
    <2>2. /\ call' = [call EXCEPT ![c] = call'[c]]
          /\ call'[c] \in CallRecords
          /\ call'[c].seen = call[c].seen
      <3>1. CASE FetchField(c)
        BY <2>1, <3>1, FieldTyped DEF FetchField
      <3>2. CASE FetchFails(c)
        BY <2>1, <3>2 DEF FetchFails, Ends, CallRecords
      <3>3. CASE PinFails(c)
        BY <2>1, <3>3 DEF PinFails, Ends, CallRecords
      <3>4. CASE Pinned(c)
        BY <2>1, <3>4, SMTT(30) DEF Pinned, CallRecords
      <3>5. CASE Run(c)
        BY <2>1, <3>5 DEF Run, CallRecords
      <3>6. CASE ConnectorEnds(c)
        <4>1. call' = [call EXCEPT ![c] = [call[c] EXCEPT !.at = "ended", !.holders = {},
                                                         !.connector = "done"]]
          BY <3>6 DEF ConnectorEnds, Ends
        <4> QED
          BY <2>1, <4>1 DEF CallRecords
      <3>7. CASE TimesOut(c)
        BY <2>1, <3>7 DEF TimesOut, Ends, CallRecords
      <3>8. CASE AbandonedEnds(c)
        BY <2>1, <3>8 DEF AbandonedEnds, CallRecords
      <3> QED
        BY <1>6, <3>1, <3>2, <3>3, <3>4, <3>5, <3>6, <3>7, <3>8 DEF Proceeds
    <2> QED
      BY <1>1, <2>2
  <1>7. CASE Crash
    <2>1. call' = [c \in Calls |->
                     IF Underway(c) \/ call[c].connector = "abandoned"
                       THEN [call[c] EXCEPT !.at = IF Underway(c) THEN "cut" ELSE @,
                                            !.holders = {}, !.connector = "none"]
                       ELSE call[c]]
      BY <1>7 DEF Crash
    <2>2. ASSUME NEW d \in Calls PROVE Good(d)
      <3>1. call[d] \in CallRecords
        OBVIOUS
      <3> QED
        BY <2>1, <3>1 DEF CallRecords
    <2> QED
      BY <2>1, <2>2
  <1> QED
    BY <1>2, <1>4, <1>5, <1>6, <1>7 DEF CallsNext, vars, callVars

LEMMA TargetsStep ==
  ASSUME TargetsTypeOK, CallsNext \/ UNCHANGED vars
  PROVE  TargetsTypeOK' /\ \A i \in Ids : RowStep(i)
  <1>1. CASE TargetsNext \/ UNCHANGED targetVars
    BY <1>1, TypesKept, RowSteps
  <1>2. CASE Crash
    <2>1. target' = target /\ grant' = grant /\ form' = [f \in Forms |-> NoForm]
      BY <1>2 DEF Crash
    <2> QED
      BY <2>1 DEF TargetsTypeOK, RowStep
  <1> QED
    BY <1>1, <1>2
    DEF CallsNext, vars, targetVars, Deny, Acquire, Proceeds, AbandonedEnds, FetchField,
        FetchFails, PinFails, Pinned, Run, ConnectorEnds, TimesOut, Ends

-----------------------------------------------------------------------------
(* Revisions.                                                              *)

\* A snapshot of the past stays one, whatever is done to its target.
LEMMA PastKept ==
  ASSUME TargetsTypeOK, NEW s, Past(target, s), \A i \in Ids : RowStep(i)
  PROVE  Past(target', s)
  <1> DEFINE i == s.id
  <1>1. /\ i \in Ids /\ s.revision \in Nat /\ target[i] # Unused /\ RowStep(i)
    BY DEF Past, Snapshots
  <1>2. target'[i] # Unused
    BY <1>1 DEF RowStep, Rows, Removed, Unused
  <1>3. ASSUME target'[i].state = "saved"
        PROVE  /\ s.revision <= target'[i].revision
               /\ s.revision = target'[i].revision => s.docs = target'[i].docs
    <2>1. CASE target'[i] = target[i]
      BY <1>3, <2>1 DEF Past, Saved
    <2>2. CASE Saved(i) /\ target'[i].revision = target[i].revision + 1
      <3>1. target[i].revision \in Nat /\ s.revision <= target[i].revision
        BY <1>1, <2>2, SavedRow DEF Past, Rows
      <3> QED
        BY <1>1, <2>2, <3>1
    <2> QED
      BY <1>1, <1>3, <2>1, <2>2 DEF RowStep, Saved, Removed
  <1> QED
    BY <1>2, <1>3 DEF Past

\* The row a resolution read is of the past too.
LEMMA CurrentPast ==
  ASSUME TargetsTypeOK, NEW s \in Snapshots, Current(s)
  PROVE  Past(target, s)
  <1>1. s.id \in Ids /\ target[s.id] # Unused /\ target[s.id].revision \in Nat
    BY SavedRow DEF Snapshots, Current, Saved, Unused, Rows
  <1> QED
    BY <1>1 DEF Past, Current, Saved

LEMMA InvKept ==
  ASSUME IInv, CallsNext \/ UNCHANGED vars
  PROVE  IInv'
  <1>1. TargetsTypeOK' /\ \A i \in Ids : RowStep(i)
    BY TargetsStep DEF IInv
  <1>2. /\ call' \in [Calls -> CallRecords]
        /\ \A c \in Calls :
             \/ call'[c].seen = call[c].seen
             \/ call'[c].seen = <<>>
             \/ /\ target' = target
                /\ \A j \in DOMAIN call'[c].seen : Current(call'[c].seen[j])
    BY CallsStep DEF IInv
  <1>3. ASSUME NEW c \in Calls, NEW j \in DOMAIN call'[c].seen
        PROVE  \/ call'[c].seen = call[c].seen
               \/ target' = target /\ Current(call'[c].seen[j])
    BY <1>2, <1>3
  <1>4. ASSUME NEW c \in Calls, NEW j \in DOMAIN call'[c].seen
        PROVE  call'[c].seen[j] \in Snapshots
    BY <1>2, <1>4 DEF CallRecords
  <1>5. ASSUME NEW c \in Calls, NEW j \in DOMAIN call'[c].seen
        PROVE  Past(target', call'[c].seen[j])
    <2>1. CASE call'[c].seen = call[c].seen
      BY <1>1, <1>5, <2>1, PastKept DEF IInv, SeenPast
    <2>2. CASE target' = target /\ Current(call'[c].seen[j])
      BY <1>4, <1>5, <2>2, CurrentPast DEF IInv
    <2> QED
      BY <1>3, <1>5, <2>1, <2>2
  <1>6. ASSUME NEW c \in Calls, NEW j \in DOMAIN call'[c].seen,
               NEW d \in Calls, NEW m \in DOMAIN call'[d].seen,
               call'[c].seen[j].id = call'[d].seen[m].id,
               call'[c].seen[j].revision = call'[d].seen[m].revision
        PROVE  call'[c].seen[j].docs = call'[d].seen[m].docs
    <2> DEFINE s == call'[c].seen[j]  t == call'[d].seen[m]
    <2>1. CASE call'[c].seen = call[c].seen /\ call'[d].seen = call[d].seen
      BY <1>6, <2>1 DEF IInv, RevisionNames
    <2>2. CASE target' = target /\ Current(s)
      <3>1. /\ Past(target', t) /\ target'[t.id].state = "saved"
            /\ t.revision = target'[t.id].revision
            /\ s.docs = target'[t.id].docs
        BY <1>5, <1>6, <2>2 DEF Current, Saved
      <3> QED
        BY <3>1 DEF Past
    <2>3. CASE target' = target /\ Current(t)
      <3>1. /\ Past(target', s) /\ target'[s.id].state = "saved"
            /\ s.revision = target'[s.id].revision
            /\ t.docs = target'[s.id].docs
        BY <1>5, <1>6, <2>3 DEF Current, Saved
      <3> QED
        BY <3>1 DEF Past
    <2> QED
      BY <1>3, <1>6, <2>1, <2>2, <2>3
  <1>7. SeenPast'
    BY <1>5 DEF SeenPast
  <1>8. RevisionNames'
    <2> SUFFICES ASSUME NEW c \in Calls, NEW j \in DOMAIN call'[c].seen
                 PROVE  LET s == call'[c].seen[j] IN
                        /\ target'[s.id].state = "saved" /\ target'[s.id].revision = s.revision =>
                             target'[s.id].docs = s.docs
                        /\ \A d \in Calls : \A m \in DOMAIN call'[d].seen :
                             LET t == call'[d].seen[m] IN
                             s.id = t.id /\ s.revision = t.revision => s.docs = t.docs
      BY DEF RevisionNames, Saved
    <2> QED
      BY <1>5, <1>6 DEF Past
  <1> QED
    BY <1>1, <1>2, <1>7, <1>8 DEF IInv

LEMMA InvAtFirst == CallsInit => IInv
  <1> SUFFICES ASSUME CallsInit PROVE IInv
    OBVIOUS
  <1>1. Fresh \in CallRecords /\ Fresh.seen = <<>>
    BY FreshTyped
  <1>2. call = [c \in Calls |-> Fresh] /\ TargetsTypeOK
    BY TypesAtFirst DEF CallsInit
  <1> QED
    BY <1>1, <1>2 DEF IInv, SeenPast, RevisionNames

\* Two calls that recorded one revision of a target ran with the same
\* documents, although edits of it are checked at the same time and written
\* in any order (ACT-1, ACT-60).
THEOREM RevisionsName == CallsSpec => []RevisionNames
  <1>1. IInv /\ [CallsNext]_vars => IInv'
    BY InvKept
  <1>2. IInv => RevisionNames
    BY DEF IInv
  <1> QED
    BY InvAtFirst, <1>1, <1>2, PTL DEF CallsSpec
-----------------------------------------------------------------------------
(* The life of one call: what its record and its rows say of one another.  *)

Outcomes == {"interrupted", "ok", "error", "denied"}
RowSeqs == Seq([name : Names, outcome : Outcomes])

Recorded(r, out) == IF ListProblem(r) THEN ForList(r, out) ELSE ForEach(r, out)

\* A call with record x and rows rs, by how far it is.
Unmade(x, rs) == x.at = "idle" => x = Fresh /\ rs = <<>>
Asked(x) == x.at # "idle" => x.request \in Requests
OnTheWay(x) ==
  x.at \in {"fetching", "pinning", "running"} =>
    /\ ~ListProblem(x.request)
    /\ Len(x.seen) = Len(x.request.names)
    /\ x.k \in 1..Len(x.seen)
    /\ x.loose = 0
Fetching(x, rs) ==
  x.at = "fetching" =>
    x.got < Fields /\ x.holders = 1..(x.k - 1) /\ x.connector = "none" /\ rs = <<>>
Pinning(x, rs) ==
  x.at = "pinning" =>
    x.got = 0 /\ x.holders = 1..x.k /\ x.connector = "none" /\ rs = <<>>
Running(x, rs) ==
  x.at = "running" =>
    /\ x.holders = 1..Len(x.seen) /\ x.connector = "running"
    /\ rs = ForEach(x.request, "interrupted")
CutShort(x, rs) ==
  x.at = "cut" =>
    /\ x.holders = {} /\ x.connector = "none" /\ x.loose = 0 /\ ~ListProblem(x.request)
    /\ rs = <<>> \/ rs = ForEach(x.request, "interrupted")
Refusal(x, rs) ==
  x.at = "ended" /\ x.seen = <<>> => x = Made(x.request) /\ rs = Recorded(x.request, "denied")
Ending(x, rs) ==
  x.at = "ended" /\ x.seen # <<>> =>
    /\ x.holders = {} /\ x.connector # "running" /\ ~ListProblem(x.request)
    /\ x.loose < Fields
    /\ x.loose > 0 => x.connector = "none"
    /\ \/ rs = ForEach(x.request, "error")
       \/ rs = ForEach(x.request, "ok") /\ x.connector # "abandoned" /\ x.loose = 0
\* The targets of a call are as many, and its operation is one of each.
Fit(r, seen) ==
  \A j, m \in DOMAIN seen :
    /\ r.op \in Permits[seen[j].docs]
    /\ seen[j].id = seen[m].id => j = m

Life(x, rs) ==
  /\ Unmade(x, rs) /\ Asked(x) /\ OnTheWay(x)
  /\ Fetching(x, rs) /\ Pinning(x, rs) /\ Running(x, rs)
  /\ CutShort(x, rs) /\ Refusal(x, rs) /\ Ending(x, rs)
  /\ Fit(x.request, x.seen)

LEMMA RequestTyped ==
  ASSUME NEW r \in Requests
  PROVE  /\ r.names \in Seq(Names) /\ Len(r.names) \in Nat \ {0}
         /\ r.client \in Clients
  BY CallsAssumption

LEMMA EntriesTyped ==
  ASSUME NEW r \in Requests, NEW out \in Outcomes
  PROVE  /\ ForEach(r, out) \in RowSeqs /\ ForList(r, out) \in RowSeqs
         /\ ForEach(r, out) # <<>>
  <1>1. r.names \in Seq(Names) /\ Len(r.names) \in Nat \ {0}
    BY RequestTyped
  <1> DEFINE n == Len(r.names)
  <1>2. \A j \in 1..n : Entry(r.names[j], out) \in [name : Names, outcome : Outcomes]
    BY <1>1 DEF Entry
  <1>3. ForEach(r, out) = [j \in 1..n |-> Entry(r.names[j], out)]
    BY DEF ForEach
  <1>4. ForEach(r, out) \in RowSeqs /\ ForEach(r, out) # <<>>
    <2> HIDE DEF n
    <2>1. n \in Nat \ {0}
      BY <1>1 DEF n
    <2> QED
      BY <1>2, <1>3, <2>1 DEF RowSeqs
  <1>5. ForList(r, out) \in RowSeqs
    <2>1. Entry(Head(r.names), out) \in [name : Names, outcome : Outcomes]
      BY <1>1, <1>2 DEF Entry
    <2> QED
      BY <2>1 DEF ForList, RowSeqs
  <1> QED
    BY <1>4, <1>5

LEMMA RowsCompleted ==
  ASSUME NEW r \in Requests, NEW was \in Outcomes, NEW out \in Outcomes
  PROVE  Completed(ForEach(r, was), out) = ForEach(r, out)
  <1> DEFINE n == Len(r.names)
             before == [j \in 1..n |-> Entry(r.names[j], was)]
  <1>1. \A j \in 1..n : [Entry(r.names[j], was) EXCEPT !.outcome = out] = Entry(r.names[j], out)
    BY DEF Entry
  <1>2. Completed(before, out) = [j \in 1..n |-> [before[j] EXCEPT !.outcome = out]]
    BY DEF Completed
  <1>3. \A j \in 1..n : [before[j] EXCEPT !.outcome = out] = Entry(r.names[j], out)
    BY <1>1
  <1> QED
    BY <1>2, <1>3, Zenon DEF ForEach

LEMMA LifeFresh == Life(Fresh, <<>>)
  BY DEF Life, Fresh, Unmade, Asked, OnTheWay, Fetching, Pinning, Running, CutShort, Refusal,
         Ending, Fit

LEMMA LifeMade ==
  ASSUME NEW r \in Requests
  PROVE  Life(Made(r), Recorded(r, "denied"))
  <1>1. Made(r).at = "ended" /\ Made(r).request = r /\ Made(r).seen = <<>>
    BY DEF Made, Fresh
  <1> QED
    BY <1>1 DEF Life, Unmade, Asked, OnTheWay, Fetching, Pinning, Running, CutShort,
                Refusal, Ending, Fit

LEMMA LifeFetches ==
  ASSUME NEW x \in CallRecords, NEW rs, Life(x, rs), x.at = "fetching"
  PROVE  Life(WithField(x), rs)
  <1> DEFINE y == WithField(x)
  <1>1. x.k \in Nat /\ x.got \in Nat /\ x.k >= 1
    BY DEF CallRecords, Life, OnTheWay
  <1>2. CASE x.got + 1 < Fields
    <2>1. /\ y.at = "fetching" /\ y.request = x.request /\ y.seen = x.seen /\ y.k = x.k
          /\ y.got = x.got + 1 /\ y.holders = x.holders /\ y.loose = x.loose
          /\ y.connector = x.connector
      BY <1>2 DEF WithField, CallRecords
    <2> HIDE DEF y
    <2>2. OnTheWay(y) /\ Asked(y)
      BY <2>1 DEF Life, OnTheWay, Asked
    <2>3. Fetching(y, rs)
      BY <1>2, <2>1 DEF Life, Fetching
    <2>4. Fit(y.request, y.seen)
      BY <2>1 DEF Life
    <2>5. Life(y, rs)
      BY <2>1, <2>2, <2>3, <2>4 DEF Life, Unmade, Pinning, Running, CutShort, Refusal, Ending
    <2> QED
      BY <2>5 DEF y
  <1>3. CASE ~(x.got + 1 < Fields)
    <2>1. y = [x EXCEPT !.at = "pinning", !.got = 0, !.holders = x.holders \cup {x.k}]
      BY <1>3 DEF WithField
    <2>2. /\ y.at = "pinning" /\ y.request = x.request /\ y.seen = x.seen /\ y.k = x.k
          /\ y.got = 0 /\ y.holders = x.holders \cup {x.k} /\ y.loose = x.loose
          /\ y.connector = x.connector
      BY <2>1 DEF CallRecords
    <2> HIDE DEF y
    <2>3. y.holders = 1..y.k
      <3>1. x.holders = 1..(x.k - 1)
        BY DEF Life, Fetching
      <3> QED
        BY <1>1, <2>2, <3>1
    <2>4. OnTheWay(y) /\ Asked(y)
      BY <2>2 DEF Life, OnTheWay, Asked
    <2>5. Pinning(y, rs)
      BY <2>2, <2>3 DEF Life, Fetching, Pinning
    <2>6. Fit(y.request, y.seen)
      BY <2>2 DEF Life
    <2>7. Life(y, rs)
      BY <2>2, <2>4, <2>5, <2>6 DEF Life, Unmade, Fetching, Running, CutShort, Refusal, Ending
    <2> QED
      BY <2>7 DEF y
  <1> QED
    BY <1>2, <1>3

LEMMA LifeFetchFails ==
  ASSUME NEW x \in CallRecords, NEW rs, Life(x, rs), x.at = "fetching"
  PROVE  Life([x EXCEPT !.at = "ended", !.holders = {}, !.loose = x.got],
              ForEach(x.request, "error"))
  <1> DEFINE y == [x EXCEPT !.at = "ended", !.holders = {}, !.loose = x.got]
  <1>1. /\ y.at = "ended" /\ y.request = x.request /\ y.seen = x.seen
        /\ y.holders = {} /\ y.loose = x.got /\ y.connector = x.connector
    BY DEF CallRecords
  <1>2. x.seen # <<>>
    BY DEF CallRecords, Life, OnTheWay
  <1> HIDE DEF y
  <1>3. Life(y, ForEach(x.request, "error"))
    BY <1>1, <1>2 DEF Life, Unmade, Asked, OnTheWay, Fetching, Pinning, Running,
                      CutShort, Refusal, Ending, Fit
  <1> QED
    BY <1>3 DEF y

LEMMA LifePinFails ==
  ASSUME NEW x \in CallRecords, NEW rs, Life(x, rs), x.at = "pinning"
  PROVE  Life([x EXCEPT !.at = "ended", !.holders = {}], ForEach(x.request, "error"))
  <1> DEFINE y == [x EXCEPT !.at = "ended", !.holders = {}]
  <1>1. /\ y.at = "ended" /\ y.request = x.request /\ y.seen = x.seen
        /\ y.holders = {} /\ y.loose = x.loose /\ y.connector = x.connector
    BY DEF CallRecords
  <1>2. x.seen # <<>> /\ Fields > 0
    BY CallsAssumption DEF CallRecords, Life, OnTheWay
  <1> HIDE DEF y
  <1>3. Life(y, ForEach(x.request, "error"))
    BY <1>1, <1>2 DEF Life, Unmade, Asked, OnTheWay, Fetching, Pinning, Running,
                      CutShort, Refusal, Ending, Fit
  <1> QED
    BY <1>3 DEF y

LEMMA LifePinned ==
  ASSUME NEW x \in CallRecords, NEW rs, Life(x, rs), x.at = "pinning", x.k < Len(x.seen)
  PROVE  Life([x EXCEPT !.at = "fetching", !.k = x.k + 1], rs)
  <1> DEFINE y == [x EXCEPT !.at = "fetching", !.k = x.k + 1]
  <1>1. /\ y.at = "fetching" /\ y.request = x.request /\ y.seen = x.seen /\ y.got = x.got
        /\ y.holders = x.holders /\ y.loose = x.loose /\ y.connector = x.connector
        /\ y.k = x.k + 1
    BY DEF CallRecords
  <1>2. x.k \in Nat /\ Len(x.seen) \in Nat /\ Fields > 0
    BY CallsAssumption DEF CallRecords
  <1> HIDE DEF y
  <1>3. y.k \in 1..Len(y.seen) /\ y.holders = 1..(y.k - 1)
    BY <1>1, <1>2 DEF Life, OnTheWay, Pinning
  <1>4. Life(y, rs)
    BY <1>1, <1>2, <1>3 DEF Life, Unmade, Asked, OnTheWay, Fetching, Pinning, Running,
                            CutShort, Refusal, Ending, Fit
  <1> QED
    BY <1>4 DEF y

LEMMA LifeRuns ==
  ASSUME NEW x \in CallRecords, NEW rs, Life(x, rs), x.at = "pinning", x.k = Len(x.seen)
  PROVE  Life([x EXCEPT !.at = "running", !.connector = "running"],
              ForEach(x.request, "interrupted"))
  <1> DEFINE y == [x EXCEPT !.at = "running", !.connector = "running"]
  <1>1. /\ y.at = "running" /\ y.request = x.request /\ y.seen = x.seen /\ y.k = x.k
        /\ y.holders = x.holders /\ y.loose = x.loose /\ y.connector = "running"
    BY DEF CallRecords
  <1> HIDE DEF y
  <1>2. Life(y, ForEach(x.request, "interrupted"))
    BY <1>1 DEF Life, Unmade, Asked, OnTheWay, Fetching, Pinning, Running,
                CutShort, Refusal, Ending, Fit
  <1> QED
    BY <1>2 DEF y

LEMMA LifeEnds ==
  ASSUME NEW x \in CallRecords, NEW rs, Life(x, rs), x.at = "running",
         NEW out \in {"ok", "error"}, NEW left \in {"done", "abandoned"},
         left = "abandoned" => out = "error"
  PROVE  Life([x EXCEPT !.at = "ended", !.holders = {}, !.connector = left],
              Completed(rs, out))
  <1> DEFINE y == [x EXCEPT !.at = "ended", !.holders = {}, !.connector = left]
  <1>1. /\ y.at = "ended" /\ y.request = x.request /\ y.seen = x.seen
        /\ y.holders = {} /\ y.loose = x.loose /\ y.connector = left
    BY DEF CallRecords
  <1>2. x.seen # <<>> /\ Fields > 0 /\ x.request \in Requests
    BY CallsAssumption DEF CallRecords, Life, OnTheWay, Asked
  <1>3. Completed(rs, out) = ForEach(x.request, out)
    BY <1>2, RowsCompleted DEF Life, Running, Outcomes
  <1> HIDE DEF y
  <1>4. Life(y, ForEach(x.request, out))
    BY <1>1, <1>2 DEF Life, Unmade, Asked, OnTheWay, Fetching, Pinning, Running,
                      CutShort, Refusal, Ending, Fit
  <1> QED
    BY <1>3, <1>4 DEF y

LEMMA LifeLeftBehind ==
  ASSUME NEW x \in CallRecords, NEW rs, Life(x, rs), x.connector = "abandoned"
  PROVE  /\ x.at = "ended" /\ x.seen # <<>>
         /\ \A gone \in {"done", "none"} : Life([x EXCEPT !.connector = gone], rs)
         /\ Life([x EXCEPT !.holders = {}, !.connector = "none"], rs)
  <1>1. x.at = "ended" /\ x.seen # <<>>
    <2>1. Fresh.connector = "none" /\ Made(x.request).connector = "none"
      BY DEF Made, Fresh
    <2>2. x # Fresh /\ x # Made(x.request)
      BY <2>1
    <2> QED
      BY <2>2 DEF CallRecords, Life, Unmade, Fetching, Pinning, Running, CutShort, Refusal
  <1>2. ASSUME NEW gone \in {"done", "none"}
        PROVE  Life([x EXCEPT !.connector = gone], rs)
    <2> DEFINE y == [x EXCEPT !.connector = gone]
    <2>1. /\ y.at = "ended" /\ y.request = x.request /\ y.seen = x.seen
          /\ y.holders = x.holders /\ y.loose = x.loose /\ y.connector = gone
      BY <1>1 DEF CallRecords
    <2>2. x.loose \in Nat
      BY DEF CallRecords
    <2> HIDE DEF y
    <2>3. Life(y, rs)
      BY <1>1, <2>1, <2>2 DEF Life, Unmade, Asked, OnTheWay, Fetching, Pinning, Running,
                              CutShort, Refusal, Ending, Fit
    <2> QED
      BY <2>3 DEF y
  <1>3. [x EXCEPT !.holders = {}, !.connector = "none"] = [x EXCEPT !.connector = "none"]
    BY <1>1 DEF CallRecords, Life, Ending
  <1> QED
    BY <1>1, <1>2, <1>3

LEMMA LifeCut ==
  ASSUME NEW x \in CallRecords, NEW rs, Life(x, rs), x.at \in {"fetching", "pinning", "running"}
  PROVE  Life([x EXCEPT !.at = "cut", !.holders = {}, !.connector = "none"], rs)
  <1> DEFINE y == [x EXCEPT !.at = "cut", !.holders = {}, !.connector = "none"]
  <1>1. /\ y.at = "cut" /\ y.request = x.request /\ y.seen = x.seen
        /\ y.holders = {} /\ y.loose = x.loose /\ y.connector = "none"
    BY DEF CallRecords
  <1> HIDE DEF y
  <1>2. Life(y, rs)
    BY <1>1 DEF Life, Unmade, Asked, OnTheWay, Fetching, Pinning, Running,
                CutShort, Refusal, Ending, Fit
  <1> QED
    BY <1>2 DEF y
-----------------------------------------------------------------------------
(* One call moves, and the others do not.                                  *)

\* Different names have different targets; and as a name is one target's, the one
\* that is chosen is the one that was allowed.
LEMMA ResolvedFit ==
  ASSUME TargetsTypeOK, NameUnique, NEW r \in Requests, Resolvable(r)
  PROVE  /\ DOMAIN Resolved(r) = 1..Len(r.names) /\ Len(Resolved(r)) = Len(r.names)
         /\ Fit(r, Resolved(r))
  <1> DEFINE n == Len(r.names)
             I(j) == CHOOSE i \in Found(r.names[j]) : TRUE
  <1>1. n \in Nat \ {0}
    BY RequestTyped
  <1>2. Resolved(r) = [j \in 1..n |-> Resolved(r)[j]] /\ DOMAIN Resolved(r) = 1..n
    BY DEF Resolved
  <1>3. Len(Resolved(r)) = n
    <2> HIDE DEF n
    <2> QED
      BY <1>1, <1>2
  <1>4. ASSUME NEW j \in 1..n
        PROVE  /\ Resolved(r)[j].id = I(j) /\ target[I(j)].name = r.names[j]
               /\ r.op \in Permits[Resolved(r)[j].docs]
    <2>1. Resolves(r, r.names[j])
      BY <1>4 DEF Resolvable
    <2>2. PICK i \in Found(r.names[j]) : Allowed(i, r)
      BY <2>1 DEF Resolves
    <2>3. I(j) \in Found(r.names[j])
      BY <2>2
    <2>4. Resolved(r)[j].id = I(j) /\ Resolved(r)[j].docs = target[I(j)].docs
      BY <1>4 DEF Resolved
    <2>5. I(j) = i
      BY <2>2, <2>3 DEF Found, NameUnique
    <2> HIDE DEF I
    <2> QED
      BY <2>2, <2>3, <2>4, <2>5 DEF Found, Allowed
  <1>5. ~ListProblem(r)
    BY DEF Resolvable
  <1> HIDE DEF n, I
  <1>6. ASSUME NEW j \in 1..n, NEW m \in 1..n, Resolved(r)[j].id = Resolved(r)[m].id
        PROVE  j = m
    BY <1>4, <1>5, <1>6 DEF ListProblem, n
  <1> QED
    BY <1>2, <1>3, <1>4, <1>6 DEF Fit, n

LEMMA NamesStayUnique ==
  ASSUME TargetsTypeOK, NameUnique, CallsNext \/ UNCHANGED vars
  PROVE  NameUnique'
  <1>1. CASE TargetsNext \/ UNCHANGED targetVars
    BY <1>1, NamesKept
  <1>2. CASE target' = target
    BY <1>2 DEF NameUnique, Saved
  <1> QED
    BY <1>1, <1>2
    DEF CallsNext, vars, targetVars, Deny, Acquire, Proceeds, AbandonedEnds, FetchField,
        FetchFails, PinFails, Pinned, Run, ConnectorEnds, TimesOut, Ends, Crash

\* Of the step of call c: it lives on, and the others are as they were.
Moves(c) ==
  /\ call'[c] \in CallRecords /\ rows'[c] \in RowSeqs
  /\ Life(call'[c], rows'[c])
  /\ \A d \in Calls : d # c => call'[d] = call[d] /\ rows'[d] = rows[d]

\* What it does to the counters: nothing, ...
Stays(c) ==
  /\ flying' = flying
  /\ Underway(c)' <=> Underway(c)
  /\ Underway(c) => call'[c].seen = call[c].seen /\ call'[c].request = call[c].request

\* ... enter for every name of the call, ...
Enters(c) ==
  LET r == call'[c].request  seen == call'[c].seen IN
  /\ ~Underway(c) /\ Underway(c)'
  /\ Fit(r, seen)
  /\ \A j \in 1..Len(seen) : flying.targets[seen[j].id] < TargetCap
  /\ flying.clients[r.client] + Len(seen) <= ClientCap
  /\ flying' = Enter(flying, r, seen, 1..Len(seen))

\* ... or leave again.
Departs(c) ==
  /\ Underway(c) /\ ~Underway(c)'
  /\ flying' = Leave(flying, call[c].request, call[c].seen, 1..Len(call[c].seen))

FlyingTyped == flying \in [targets : [Ids -> Nat], clients : [Clients -> Nat]]

\* What was entered for the names of js is what a release of them gives back.
LEMMA EnteredLeft ==
  ASSUME FlyingTyped, NEW r \in Requests, NEW seen, NEW js, IsFiniteSet(js)
  PROVE  Leave(Enter(flying, r, seen, js), r, seen, js) = flying
  <1> DEFINE J(i) == Cardinality({j \in js : seen[j].id = i})
             f == Enter(flying, r, seen, js)
             g == Leave(f, r, seen, js)
  <1>1. \A i \in Ids : J(i) \in Nat
    <2> SUFFICES ASSUME NEW i \in Ids PROVE J(i) \in Nat
      OBVIOUS
    <2>1. {j \in js : seen[j].id = i} \in SUBSET js
      OBVIOUS
    <2> QED
      BY <2>1, FS_Subset, FS_CardinalityType
  <1>2. Cardinality(js) \in Nat /\ r.client \in Clients
    BY FS_CardinalityType, RequestTyped
  <1>3. /\ f.targets = [i \in Ids |-> flying.targets[i] + J(i)]
        /\ f.clients = [flying.clients EXCEPT ![r.client] = @ + Cardinality(js)]
    BY DEF Enter
  <1>4. g = [targets |-> [i \in Ids |-> f.targets[i] - J(i)],
             clients |-> [f.clients EXCEPT ![r.client] = @ - Cardinality(js)]]
    BY DEF Leave
  <1> HIDE DEF J, f, g
  <1>5. flying.targets \in [Ids -> Nat] /\ flying.clients \in [Clients -> Nat]
    BY DEF FlyingTyped
  <1>6. g.targets = flying.targets
    BY <1>1, <1>3, <1>4, <1>5
  <1>7. g.clients = flying.clients
    BY <1>2, <1>3, <1>4, <1>5
  <1>8. g = flying
    BY <1>4, <1>6, <1>7 DEF FlyingTyped
  <1> QED
    BY <1>8 DEF f, g
\* A call that was let in found room for each of its names.
LEMMA EnteredRoom ==
  ASSUME FlyingTyped, NEW r \in Requests, NEW seen \in Seq(Snapshots), NEW broke,
         Len(seen) > 0, Entered(r, seen, broke) = 1..Len(seen)
  PROVE  /\ \A j \in 1..Len(seen) : flying.targets[seen[j].id] < TargetCap
         /\ flying.clients[r.client] + Len(seen) <= ClientCap
  <1> DEFINE n == Len(seen)
             free == {j \in DOMAIN seen : j \notin broke /\ flying.targets[seen[j].id] < TargetCap}
             before(j) == {m \in free : m < j}
  <1>1. n \in Nat \ {0} /\ DOMAIN seen = 1..n
    OBVIOUS
  <1>2. 1..n = {j \in free : flying.clients[r.client] + Cardinality(before(j)) < ClientCap}
    BY DEF Entered
  <1>3. free = 1..n
    BY <1>1, <1>2
  <1>4. flying.clients[r.client] + Cardinality(before(n)) < ClientCap
    <2> DEFINE Room(j) == flying.clients[r.client] + Cardinality(before(j)) < ClientCap
    <2>1. 1..n = {j \in free : Room(j)}
      BY <1>2
    <2> HIDE DEF Room, free, n
    <2>2. Room(n)
      BY <1>1, <2>1
    <2> QED
      BY <2>2 DEF Room
  <1>5. before(n) = 1..(n - 1)
    BY <1>1, <1>3
  <1>6. Cardinality(before(n)) = n - 1
    <2> HIDE DEF n, free, before
    <2>1. 1 \in Int /\ n - 1 \in Int
      BY <1>1
    <2>2. Cardinality(1..(n - 1)) = IF 1 > n - 1 THEN 0 ELSE (n - 1) - 1 + 1
      BY <2>1, FS_Interval, Zenon
    <2> QED
      BY <1>1, <1>5, <2>2
  <1>7. flying.clients[r.client] \in Nat /\ ClientCap \in Nat
    BY RequestTyped, CallsAssumption DEF FlyingTyped
  <1>8. flying.clients[r.client] + n <= ClientCap
    BY <1>1, <1>4, <1>6, <1>7
  <1> QED
    BY <1>3, <1>8

RowsTyped == rows \in [Calls -> RowSeqs]
Lives == \A c \in Calls : Life(call[c], rows[c])
Typed == TargetsTypeOK /\ call \in [Calls -> CallRecords] /\ RowsTyped /\ FlyingTyped

LEMMA DenyMoves ==
  ASSUME Typed, Lives, NEW c \in Calls, NEW r \in Requests, Deny(c, r)
  PROVE  RowsTyped' /\ Moves(c) /\ Stays(c)
  <1>1. call' = [call EXCEPT ![c] = Made(r)] /\ flying' = flying /\ call[c].at = "idle"
    BY DEF Deny, Refused
  <1>2. rows' = [rows EXCEPT ![c] = Recorded(r, "denied")]
    BY DEF Deny, Refused, Recorded
  <1>3. Made(r) \in CallRecords /\ Made(r).at = "ended"
    BY FreshTyped DEF Made, Fresh, CallRecords
  <1>4. Recorded(r, "denied") \in RowSeqs
    BY EntriesTyped DEF Recorded, Outcomes
  <1>5. Life(Made(r), Recorded(r, "denied"))
    BY LifeMade
  <1>6. RowsTyped' /\ Moves(c)
    BY <1>1, <1>2, <1>3, <1>4, <1>5 DEF Typed, RowsTyped, Moves
  <1>7. Stays(c)
    BY <1>1, <1>3 DEF Typed, Stays, Underway
  <1> QED
    BY <1>6, <1>7

LEMMA AcquireMoves ==
  ASSUME Typed, Lives, NameUnique, NEW c \in Calls, NEW r \in Requests, Acquire(c, r)
  PROVE  RowsTyped' /\ Moves(c) /\ (Stays(c) \/ Enters(c))
  <1> DEFINE seen == Resolved(r)
             all == 1..Len(seen)
             rec == [Fresh EXCEPT !.at = "fetching", !.request = r, !.seen = seen, !.k = 1]
  <1>1. call[c].at = "idle" /\ Resolvable(r) /\ ~ListProblem(r)
    BY DEF Acquire, Resolvable
  <1>2. rows[c] = <<>> /\ call[c] \in CallRecords
    BY <1>1 DEF Lives, Life, Unmade, Typed
  <1>3. seen \in Seq(Snapshots) /\ Len(seen) = Len(r.names) /\ Fit(r, seen)
    BY <1>1, ResolvedCurrent, ResolvedFit DEF Typed
  <1>4. Len(seen) \in Nat \ {0}
    BY <1>3, RequestTyped
  <1>5. PICK broke \in SUBSET all :
          LET js == Entered(r, seen, broke)
              entered == Enter(flying, r, seen, js)
          IN  IF js = all
                THEN /\ call' = [call EXCEPT ![c] = rec]
                     /\ flying' = entered
                     /\ UNCHANGED rows
                ELSE /\ Refused(c, r, ForEach(r, "denied"))
                     /\ flying' = Leave(entered, r, seen, js)
    BY DEF Acquire
  <1> HIDE DEF seen
  <1>6. CASE Entered(r, seen, broke) = all
    <2>1. call' = [call EXCEPT ![c] = rec] /\ rows' = rows /\ flying' = Enter(flying, r, seen, all)
      BY <1>5, <1>6
    <2>2. /\ rec \in CallRecords
          /\ rec.at = "fetching" /\ rec.request = r /\ rec.seen = seen /\ rec.k = 1
          /\ rec.got = 0 /\ rec.holders = {} /\ rec.loose = 0 /\ rec.connector = "none"
      BY <1>3 DEF Fresh, CallRecords
    <2> HIDE DEF rec
    <2>3. Fields > 0 /\ seen # <<>> /\ 1..(1 - 1) = {}
      BY <1>4, CallsAssumption
    <2>4. Life(rec, <<>>)
      BY <1>1, <1>3, <1>4, <2>2, <2>3
      DEF Life, Unmade, Asked, OnTheWay, Fetching, Pinning, Running, CutShort, Refusal, Ending
    <2>5. call'[c] = rec /\ rows'[c] = <<>> /\ <<>> \in RowSeqs
      BY <1>2, <2>1 DEF Typed, RowSeqs
    <2>6. RowsTyped' /\ Moves(c)
      BY <2>1, <2>2, <2>4, <2>5 DEF Typed, RowsTyped, Moves
    <2>7. /\ \A j \in all : flying.targets[seen[j].id] < TargetCap
          /\ flying.clients[r.client] + Len(seen) <= ClientCap
      BY <1>3, <1>4, <1>6, EnteredRoom DEF Typed
    <2>8. Enters(c)
      BY <1>1, <1>3, <2>1, <2>2, <2>5, <2>7 DEF Enters, Underway
    <2> QED
      BY <2>6, <2>8
  <1>7. CASE Entered(r, seen, broke) # all
    <2> DEFINE js == Entered(r, seen, broke)
    <2>1. call' = [call EXCEPT ![c] = Made(r)] /\ rows' = [rows EXCEPT ![c] = ForEach(r, "denied")]
      BY <1>5, <1>7 DEF Refused
    <2>2. flying' = Leave(Enter(flying, r, seen, js), r, seen, js)
      BY <1>5, <1>7
    <2>3. js \in SUBSET all
      BY <1>3, <1>4 DEF Entered
    <2>4. IsFiniteSet(js)
      <3>1. 1 \in Int /\ Len(seen) \in Int
        BY <1>4
      <3>2. IsFiniteSet(all)
        BY <3>1, FS_Interval, Zenon
      <3> QED
        BY <2>3, <3>2, FS_Subset
    <2> HIDE DEF js
    <2>5. flying' = flying
      BY <2>2, <2>4, EnteredLeft DEF Typed
    <2>6. Made(r) \in CallRecords /\ Made(r).at = "ended"
      BY FreshTyped DEF Made, Fresh, CallRecords
    <2>7. ForEach(r, "denied") \in RowSeqs
      BY EntriesTyped DEF Outcomes
    <2>8. Life(Made(r), ForEach(r, "denied"))
      BY <1>1, LifeMade DEF Recorded
    <2>9. RowsTyped' /\ Moves(c)
      BY <2>1, <2>6, <2>7, <2>8 DEF Typed, RowsTyped, Moves
    <2>10. Stays(c)
      BY <1>1, <2>1, <2>5, <2>6 DEF Typed, Stays, Underway
    <2> QED
      BY <2>9, <2>10
  <1> QED
    BY <1>6, <1>7

\* The record, the rows and the counters of a call that is let in, action by action.
LEMMA GoesOn ==
  ASSUME Typed, Lives, NEW c \in Calls,
         NEW y \in CallRecords, NEW rt \in RowSeqs, Life(y, rt),
         call' = [call EXCEPT ![c] = y], rows' = [rows EXCEPT ![c] = rt]
  PROVE  RowsTyped' /\ Moves(c) /\ call'[c] = y
  BY DEF Typed, RowsTyped, Moves

LEMMA ProceedMoves ==
  ASSUME Typed, Lives, NEW c \in Calls, Proceeds(c) \/ AbandonedEnds(c),
         call' \in [Calls -> CallRecords]
  PROVE  RowsTyped' /\ Moves(c) /\ (Stays(c) \/ Departs(c))
  <1> DEFINE x == call[c]
             rs == rows[c]
  <1>1. x \in CallRecords /\ rs \in RowSeqs /\ Life(x, rs) /\ call'[c] \in CallRecords
    BY DEF Typed, RowsTyped, Lives
  <1>2. x.at # "idle" => x.request \in Requests
    BY <1>1 DEF Life, Asked
  <1>3. \A out \in Outcomes : x.at # "idle" => ForEach(x.request, out) \in RowSeqs
    BY <1>2, EntriesTyped
  <1>4. rows = [rows EXCEPT ![c] = rs]
    BY DEF Typed, RowsTyped
  <1>5. ASSUME NEW y, NEW rt \in RowSeqs, Life(y, rt),
               call' = [call EXCEPT ![c] = y], rows' = [rows EXCEPT ![c] = rt]
        PROVE  RowsTyped' /\ Moves(c) /\ call'[c] = y
    <2>1. call'[c] = y
      BY <1>5 DEF Typed
    <2> QED
      BY <1>1, <1>5, <2>1, GoesOn
  <1>6. CASE FetchField(c)
    <2> DEFINE y == WithField(x)
    <2>1. Life(y, rs) /\ call' = [call EXCEPT ![c] = y] /\ rows' = [rows EXCEPT ![c] = rs]
      BY <1>1, <1>4, <1>6, LifeFetches DEF FetchField
    <2>2. y.at \in {"fetching", "pinning"} /\ y.seen = x.seen /\ y.request = x.request
      BY <1>1, <1>6 DEF FetchField, WithField, CallRecords
    <2> HIDE DEF y, x, rs
    <2>3. RowsTyped' /\ Moves(c) /\ call'[c] = y
      BY <1>1, <1>5, <2>1
    <2> QED
      BY <1>6, <2>2, <2>3 DEF Stays, Underway, FetchField, x
  <1>7. CASE FetchFails(c)
    <2> DEFINE y == [x EXCEPT !.at = "ended", !.holders = {}, !.loose = x.got]
               rt == ForEach(x.request, "error")
    <2>1. x.at = "fetching" /\ call' = [call EXCEPT ![c] = y] /\ rows' = [rows EXCEPT ![c] = rt]
          /\ flying' = Leave(flying, x.request, x.seen, 1..Len(x.seen))
      BY <1>7 DEF FetchFails, Ends
    <2>2. Life(y, rt) /\ rt \in RowSeqs /\ y.at = "ended"
      BY <1>1, <1>3, <2>1, LifeFetchFails DEF Outcomes, CallRecords
    <2> HIDE DEF y, x, rs, rt
    <2>3. RowsTyped' /\ Moves(c) /\ call'[c] = y
      BY <1>5, <2>1, <2>2
    <2> QED
      BY <2>1, <2>2, <2>3 DEF Departs, Underway, x
  <1>8. CASE PinFails(c)
    <2> DEFINE y == [x EXCEPT !.at = "ended", !.holders = {}]
               rt == ForEach(x.request, "error")
    <2>1. x.at = "pinning" /\ call' = [call EXCEPT ![c] = y] /\ rows' = [rows EXCEPT ![c] = rt]
          /\ flying' = Leave(flying, x.request, x.seen, 1..Len(x.seen))
      BY <1>8 DEF PinFails, Ends
    <2>2. Life(y, rt) /\ rt \in RowSeqs /\ y.at = "ended"
      BY <1>1, <1>3, <2>1, LifePinFails DEF Outcomes, CallRecords
    <2> HIDE DEF y, x, rs, rt
    <2>3. RowsTyped' /\ Moves(c) /\ call'[c] = y
      BY <1>5, <2>1, <2>2
    <2> QED
      BY <2>1, <2>2, <2>3 DEF Departs, Underway, x
  <1>9. CASE Pinned(c)
    <2> DEFINE y == [x EXCEPT !.at = "fetching", !.k = x.k + 1]
    <2>1. /\ x.at = "pinning" /\ x.k < Len(x.seen) /\ flying' = flying
          /\ rows' = [rows EXCEPT ![c] = rs]
      BY <1>4, <1>9 DEF Pinned
    <2>2. call' = [call EXCEPT ![c] = y]
      BY <1>1, <1>9 DEF Pinned, Typed
    <2>3. Life(y, rs)
      BY <1>1, <2>1, LifePinned
    <2>4. y.at = "fetching" /\ y.seen = x.seen /\ y.request = x.request
      BY <1>1 DEF CallRecords
    <2> HIDE DEF y, x, rs
    <2>5. RowsTyped' /\ Moves(c) /\ call'[c] = y
      BY <1>1, <1>5, <2>1, <2>2, <2>3
    <2> QED
      BY <2>1, <2>4, <2>5 DEF Stays, Underway, x
  <1>10. CASE Run(c)
    <2> DEFINE y == [x EXCEPT !.at = "running", !.connector = "running"]
               rt == ForEach(x.request, "interrupted")
    <2>1. /\ x.at = "pinning" /\ x.k = Len(x.seen) /\ flying' = flying
          /\ rows' = [rows EXCEPT ![c] = rt]
      BY <1>10 DEF Run
    <2>2. call' = [call EXCEPT ![c] = y]
      BY <1>1, <1>10 DEF Run, Typed
    <2>3. Life(y, rt) /\ rt \in RowSeqs
      BY <1>1, <1>3, <2>1, LifeRuns DEF Outcomes
    <2>4. y.at = "running" /\ y.seen = x.seen /\ y.request = x.request
      BY <1>1 DEF CallRecords
    <2> HIDE DEF y, x, rs, rt
    <2>5. RowsTyped' /\ Moves(c) /\ call'[c] = y
      BY <1>5, <2>1, <2>2, <2>3
    <2> QED
      BY <2>1, <2>4, <2>5 DEF Stays, Underway, x
  <1>11. CASE ConnectorEnds(c) \/ TimesOut(c)
    <2>1. PICK out \in {"ok", "error"}, left \in {"done", "abandoned"} :
            /\ left = "abandoned" => out = "error"
            /\ call' = [call EXCEPT ![c] = [x EXCEPT !.at = "ended", !.holders = {}, !.connector = left]]
            /\ rows' = [rows EXCEPT ![c] = Completed(rs, out)]
      <3>1. CASE ConnectorEnds(c)
        BY <3>1 DEF ConnectorEnds, Ends
      <3>2. CASE TimesOut(c)
        BY <3>2 DEF TimesOut, Ends
      <3> QED
        BY <1>11, <3>1, <3>2
    <2>2. x.at = "running" /\ flying' = Leave(flying, x.request, x.seen, 1..Len(x.seen))
      BY <1>11 DEF ConnectorEnds, TimesOut, Ends
    <2> DEFINE y == [x EXCEPT !.at = "ended", !.holders = {}, !.connector = left]
               rt == Completed(rs, out)
    <2>3. Life(y, rt)
      BY <1>1, <2>1, <2>2, LifeEnds
    <2>4. rt = ForEach(x.request, out) /\ rt \in RowSeqs
      BY <1>1, <1>2, <1>3, <2>2, RowsCompleted DEF Life, Running, Outcomes
    <2>5. y.at = "ended"
      BY <1>1 DEF CallRecords
    <2>6. call' = [call EXCEPT ![c] = y] /\ rows' = [rows EXCEPT ![c] = rt]
      BY <2>1
    <2> HIDE DEF y, x, rs, rt
    <2>7. RowsTyped' /\ Moves(c) /\ call'[c] = y
      BY <1>5, <2>3, <2>4, <2>6
    <2> QED
      BY <2>2, <2>5, <2>7 DEF Departs, Underway, x
  <1>12. CASE AbandonedEnds(c)
    <2> DEFINE y == [x EXCEPT !.connector = "done"]
    <2>1. x.connector = "abandoned" /\ flying' = flying /\ rows' = [rows EXCEPT ![c] = rs]
      BY <1>4, <1>12 DEF AbandonedEnds
    <2>2. call' = [call EXCEPT ![c] = y]
      BY <1>1, <1>12 DEF AbandonedEnds, Typed
    <2>3. Life(y, rs) /\ x.at = "ended"
      BY <1>1, <2>1, LifeLeftBehind
    <2>4. y.at = "ended"
      BY <1>1, <2>3 DEF CallRecords
    <2> HIDE DEF y, x, rs
    <2>5. RowsTyped' /\ Moves(c) /\ call'[c] = y
      BY <1>1, <1>5, <2>1, <2>2, <2>3
    <2> QED
      BY <2>1, <2>3, <2>4, <2>5 DEF Stays, Underway, x
  <1> QED
    BY <1>6, <1>7, <1>8, <1>9, <1>10, <1>11, <1>12 DEF Proceeds
-----------------------------------------------------------------------------
(* The counters.                                                           *)

\* What one call holds of a target and of a client.
HeldOf(c, x, i) == {<<c, j>> : j \in {j \in DOMAIN x.seen : x.seen[j].id = i}}
HeldBy(c, x, k) == IF x.request.client = k THEN {<<c, j>> : j \in DOMAIN x.seen} ELSE {}

\* The places of target i in the list of a call.
PlacesOf(seen, i) == {j \in 1..Len(seen) : seen[j].id = i}

LEMMA PairsCounted ==
  ASSUME NEW c, NEW js, IsFiniteSet(js)
  PROVE  LET pairs == {<<c, j>> : j \in js} IN
         IsFiniteSet(pairs) /\ Cardinality(pairs) = Cardinality(js)
  <1> DEFINE pairs == {<<c, j>> : j \in js}
             f == [j \in js |-> <<c, j>>]
  <1>1. f \in Bijection(js, pairs)
    <2>1. f \in Injection(js, pairs)
      BY DEF Injection, IsInjective
    <2>2. f \in Surjection(js, pairs)
      BY DEF Surjection
    <2> QED
      BY <2>1, <2>2 DEF Bijection
  <1>2. ExistsBijection(js, pairs)
    BY <1>1 DEF ExistsBijection
  <1> QED
    BY <1>2, FS_Bijection

LEMMA DisjointUnion ==
  ASSUME NEW S, NEW T, IsFiniteSet(S), IsFiniteSet(T), S \cap T = {}
  PROVE  /\ IsFiniteSet(S \cup T) /\ Cardinality(S \cup T) = Cardinality(S) + Cardinality(T)
         /\ Cardinality(S) \in Nat /\ Cardinality(T) \in Nat
  <1>1. Cardinality(S) \in Nat /\ Cardinality(T) \in Nat
    BY FS_CardinalityType
  <1>2. Cardinality(S \cap T) = 0
    BY FS_EmptySet
  <1>3. Cardinality(S \cup T) = Cardinality(S) + Cardinality(T) - Cardinality(S \cap T)
    BY FS_Union
  <1>4. IsFiniteSet(S \cup T)
    BY FS_Union
  <1> QED
    BY <1>1, <1>2, <1>3, <1>4

\* A call's names are in no other call's.
LEMMA TotalsOfTarget ==
  ASSUME NEW c \in Calls, \A d \in Calls : d # c => call'[d] = call[d], NEW i \in Ids
  PROVE  /\ Stays(c) => OnTarget(i)' = OnTarget(i)
         /\ ~Underway(c) /\ Underway(c)' =>
              OnTarget(i)' = OnTarget(i) \cup HeldOf(c, call'[c], i) /\ OnTarget(i) \cap HeldOf(c, call'[c], i) = {}
         /\ Underway(c) /\ ~Underway(c)' =>
              OnTarget(i) = OnTarget(i)' \cup HeldOf(c, call[c], i) /\ OnTarget(i)' \cap HeldOf(c, call[c], i) = {}
  <1>1. \A p : p \in OnTarget(i) <=> \E d \in Calls : Underway(d) /\ p \in HeldOf(d, call[d], i)
    BY DEF OnTarget, HeldOf
  <1>2. \A p : p \in OnTarget(i)' <=> \E d \in Calls : Underway(d)' /\ p \in HeldOf(d, call'[d], i)
    BY DEF OnTarget, HeldOf
  <1>3. \A d \in Calls : d # c => (Underway(d)' <=> Underway(d)) /\ HeldOf(d, call'[d], i) = HeldOf(d, call[d], i)
    BY DEF Underway, HeldOf
  <1>4. \A d \in Calls : d # c =>
          HeldOf(d, call[d], i) \cap HeldOf(c, call[c], i) = {} /\ HeldOf(d, call[d], i) \cap HeldOf(c, call'[c], i) = {}
    BY DEF HeldOf
  <1>5. Stays(c) => (Underway(c)' <=> Underway(c)) /\ (Underway(c) => HeldOf(c, call'[c], i) = HeldOf(c, call[c], i))
    BY DEF Stays, HeldOf
  <1>6. ASSUME Stays(c) PROVE OnTarget(i)' = OnTarget(i)
    <2>1. \A d \in Calls : Underway(d)' <=> Underway(d)
      BY <1>3, <1>5, <1>6
    <2>2. \A d \in Calls : Underway(d) => HeldOf(d, call'[d], i) = HeldOf(d, call[d], i)
      BY <1>3, <1>5, <1>6
    <2>3. \A p : p \in OnTarget(i)' <=> p \in OnTarget(i)
      BY <1>1, <1>2, <2>1, <2>2
    <2> QED
      BY <2>3
  <1>7. ASSUME ~Underway(c), Underway(c)'
        PROVE  OnTarget(i)' = OnTarget(i) \cup HeldOf(c, call'[c], i) /\ OnTarget(i) \cap HeldOf(c, call'[c], i) = {}
    <2>1. \A p : p \in OnTarget(i)' <=> p \in OnTarget(i) \/ p \in HeldOf(c, call'[c], i)
      BY <1>1, <1>2, <1>3, <1>7
    <2>2. \A p : ~(p \in OnTarget(i) /\ p \in HeldOf(c, call'[c], i))
      BY <1>1, <1>4, <1>7
    <2> QED
      BY <2>1, <2>2
  <1>8. ASSUME Underway(c), ~Underway(c)'
        PROVE  OnTarget(i) = OnTarget(i)' \cup HeldOf(c, call[c], i) /\ OnTarget(i)' \cap HeldOf(c, call[c], i) = {}
    <2>1. \A p : p \in OnTarget(i) <=> p \in OnTarget(i)' \/ p \in HeldOf(c, call[c], i)
      BY <1>1, <1>2, <1>3, <1>8
    <2>2. \A p : ~(p \in OnTarget(i)' /\ p \in HeldOf(c, call[c], i))
      BY <1>2, <1>3, <1>4, <1>8
    <2> QED
      BY <2>1, <2>2
  <1> QED
    BY <1>6, <1>7, <1>8

LEMMA TotalsOfClient ==
  ASSUME NEW c \in Calls, \A d \in Calls : d # c => call'[d] = call[d], NEW k \in Clients
  PROVE  /\ Stays(c) => OfClient(k)' = OfClient(k)
         /\ ~Underway(c) /\ Underway(c)' =>
              OfClient(k)' = OfClient(k) \cup HeldBy(c, call'[c], k) /\ OfClient(k) \cap HeldBy(c, call'[c], k) = {}
         /\ Underway(c) /\ ~Underway(c)' =>
              OfClient(k) = OfClient(k)' \cup HeldBy(c, call[c], k) /\ OfClient(k)' \cap HeldBy(c, call[c], k) = {}
  <1>1. \A p : p \in OfClient(k) <=> \E d \in Calls : Underway(d) /\ p \in HeldBy(d, call[d], k)
    BY DEF OfClient, HeldBy
  <1>2. \A p : p \in OfClient(k)' <=> \E d \in Calls : Underway(d)' /\ p \in HeldBy(d, call'[d], k)
    BY DEF OfClient, HeldBy
  <1>3. \A d \in Calls : d # c => (Underway(d)' <=> Underway(d)) /\ HeldBy(d, call'[d], k) = HeldBy(d, call[d], k)
    BY DEF Underway, HeldBy
  <1>4. \A d \in Calls : d # c =>
          HeldBy(d, call[d], k) \cap HeldBy(c, call[c], k) = {} /\ HeldBy(d, call[d], k) \cap HeldBy(c, call'[c], k) = {}
    BY DEF HeldBy
  <1>5. Stays(c) => (Underway(c)' <=> Underway(c)) /\ (Underway(c) => HeldBy(c, call'[c], k) = HeldBy(c, call[c], k))
    BY DEF Stays, HeldBy
  <1>6. ASSUME Stays(c) PROVE OfClient(k)' = OfClient(k)
    <2>1. \A d \in Calls : Underway(d)' <=> Underway(d)
      BY <1>3, <1>5, <1>6
    <2>2. \A d \in Calls : Underway(d) => HeldBy(d, call'[d], k) = HeldBy(d, call[d], k)
      BY <1>3, <1>5, <1>6
    <2>3. \A p : p \in OfClient(k)' <=> p \in OfClient(k)
      BY <1>1, <1>2, <2>1, <2>2
    <2> QED
      BY <2>3
  <1>7. ASSUME ~Underway(c), Underway(c)'
        PROVE  OfClient(k)' = OfClient(k) \cup HeldBy(c, call'[c], k) /\ OfClient(k) \cap HeldBy(c, call'[c], k) = {}
    <2>1. \A p : p \in OfClient(k)' <=> p \in OfClient(k) \/ p \in HeldBy(c, call'[c], k)
      BY <1>1, <1>2, <1>3, <1>7
    <2>2. \A p : ~(p \in OfClient(k) /\ p \in HeldBy(c, call'[c], k))
      BY <1>1, <1>4, <1>7
    <2> QED
      BY <2>1, <2>2
  <1>8. ASSUME Underway(c), ~Underway(c)'
        PROVE  OfClient(k) = OfClient(k)' \cup HeldBy(c, call[c], k) /\ OfClient(k)' \cap HeldBy(c, call[c], k) = {}
    <2>1. \A p : p \in OfClient(k) <=> p \in OfClient(k)' \/ p \in HeldBy(c, call[c], k)
      BY <1>1, <1>2, <1>3, <1>8
    <2>2. \A p : ~(p \in OfClient(k)' /\ p \in HeldBy(c, call[c], k))
      BY <1>2, <1>3, <1>4, <1>8
    <2> QED
      BY <2>1, <2>2
  <1> QED
    BY <1>6, <1>7, <1>8

\* How many names a call holds of a target and of a client: what enter() and the
\* release count.
LEMMA HeldCounted ==
  ASSUME NEW c, NEW x, NEW i, NEW k, x.seen \in Seq(Snapshots)
  PROVE  /\ IsFiniteSet(HeldOf(c, x, i)) /\ IsFiniteSet(HeldBy(c, x, k))
         /\ Cardinality(HeldOf(c, x, i)) = Cardinality(PlacesOf(x.seen, i))
         /\ Cardinality(HeldBy(c, x, k)) = IF x.request.client = k THEN Len(x.seen) ELSE 0
         /\ Cardinality(1..Len(x.seen)) = Len(x.seen)
         /\ Cardinality(PlacesOf(x.seen, i)) \in Nat
  <1> DEFINE n == Len(x.seen)
             all == 1..n
             of == PlacesOf(x.seen, i)
  <1>1. DOMAIN x.seen = all /\ n \in Nat
    OBVIOUS
  <1>2. IsFiniteSet(all) /\ Cardinality(all) = n
    <2> HIDE DEF n
    <2>1. 1 \in Int /\ n \in Int
      BY <1>1
    <2>2. IsFiniteSet(1..n) /\ Cardinality(1..n) = IF 1 > n THEN 0 ELSE n - 1 + 1
      BY <2>1, FS_Interval, Zenon
    <2> QED
      BY <1>1, <2>2
  <1>3. IsFiniteSet(of) /\ Cardinality(of) \in Nat
    <2>1. of \in SUBSET all
      BY DEF PlacesOf
    <2> HIDE DEF of, all
    <2> QED
      BY <1>2, <2>1, FS_Subset, FS_CardinalityType
  <1>4. HeldOf(c, x, i) = {<<c, j>> : j \in of}
    BY <1>1 DEF HeldOf, PlacesOf
  <1>5. HeldBy(c, x, k) = IF x.request.client = k THEN {<<c, j>> : j \in all} ELSE {}
    BY <1>1 DEF HeldBy
  <1> HIDE DEF n, all, of
  <1>6. IsFiniteSet(HeldOf(c, x, i)) /\ Cardinality(HeldOf(c, x, i)) = Cardinality(of)
    BY <1>3, <1>4, PairsCounted
  <1>7. IsFiniteSet(HeldBy(c, x, k)) /\ Cardinality(HeldBy(c, x, k)) = IF x.request.client = k THEN n ELSE 0
    <2>1. CASE x.request.client = k
      <3>1. HeldBy(c, x, k) = {<<c, j>> : j \in all}
        BY <1>5, <2>1
      <3>2. IsFiniteSet(HeldBy(c, x, k)) /\ Cardinality(HeldBy(c, x, k)) = Cardinality(all)
        BY <1>2, <3>1, PairsCounted
      <3> QED
        BY <1>2, <2>1, <3>2
    <2>2. CASE x.request.client # k
      BY <1>5, <2>2, FS_EmptySet
    <2> QED
      BY <2>1, <2>2
  <1> QED
    BY <1>2, <1>3, <1>6, <1>7 DEF n, all, of

\* Finite sets are counted, and as many as the caps let in.
Counted ==
  /\ \A i \in Ids : IsFiniteSet(OnTarget(i))
  /\ \A k \in Clients : IsFiniteSet(OfClient(k))
  /\ LimitsExact

\* Of two sets that are counted, the counter moves by as much as the set.
LEMMA CountsStay ==
  ASSUME Counted, NEW c \in Calls, Moves(c), Stays(c)
  PROVE  Counted'
  <1>1. \A d \in Calls : d # c => call'[d] = call[d]
    BY DEF Moves
  <1>2. \A i \in Ids : OnTarget(i)' = OnTarget(i)
    BY <1>1, TotalsOfTarget
  <1>3. \A k \in Clients : OfClient(k)' = OfClient(k)
    BY <1>1, TotalsOfClient
  <1>4. flying' = flying
    BY DEF Stays
  <1> QED
    BY <1>2, <1>3, <1>4 DEF Counted, LimitsExact

LEMMA FlyingMoves ==
  ASSUME FlyingTyped, NEW r \in Requests, NEW seen, NEW n \in Nat,
         Cardinality(1..Len(seen)) = n
  PROVE  /\ \A i \in Ids :
              /\ Enter(flying, r, seen, 1..Len(seen)).targets[i]
                   = flying.targets[i] + Cardinality(PlacesOf(seen, i))
              /\ Leave(flying, r, seen, 1..Len(seen)).targets[i]
                   = flying.targets[i] - Cardinality(PlacesOf(seen, i))
         /\ \A k \in Clients :
              /\ Enter(flying, r, seen, 1..Len(seen)).clients[k]
                   = flying.clients[k] + (IF k = r.client THEN n ELSE 0)
              /\ Leave(flying, r, seen, 1..Len(seen)).clients[k]
                   = flying.clients[k] - (IF k = r.client THEN n ELSE 0)
  <1> DEFINE J(i) == Cardinality(PlacesOf(seen, i))
             f == Enter(flying, r, seen, 1..Len(seen))
             g == Leave(flying, r, seen, 1..Len(seen))
  <1>1. r.client \in Clients /\ flying.clients \in [Clients -> Nat] /\ flying.targets \in [Ids -> Nat]
    BY RequestTyped DEF FlyingTyped
  <1>2. f.targets = [i \in Ids |-> flying.targets[i] + J(i)]
        /\ f.clients = [flying.clients EXCEPT ![r.client] = @ + n]
    BY DEF Enter, PlacesOf
  <1>3. g.targets = [i \in Ids |-> flying.targets[i] - J(i)]
        /\ g.clients = [flying.clients EXCEPT ![r.client] = @ - n]
    BY DEF Leave, PlacesOf
  <1> HIDE DEF J, f, g
  <1>4. \A i \in Ids : f.targets[i] = flying.targets[i] + J(i) /\ g.targets[i] = flying.targets[i] - J(i)
    BY <1>2, <1>3
  <1>5. \A k \in Clients :
          /\ f.clients[k] = flying.clients[k] + (IF k = r.client THEN n ELSE 0)
          /\ g.clients[k] = flying.clients[k] - (IF k = r.client THEN n ELSE 0)
    BY <1>1, <1>2, <1>3
  <1> QED
    BY <1>4, <1>5 DEF J, f, g

\* No two names of a call have one target.
LEMMA OneEach ==
  ASSUME NEW r, NEW seen \in Seq(Snapshots), Fit(r, seen), NEW i
  PROVE  \/ Cardinality(PlacesOf(seen, i)) = 0
         \/ Cardinality(PlacesOf(seen, i)) = 1 /\ \E j \in 1..Len(seen) : seen[j].id = i
  <1>1. DOMAIN seen = 1..Len(seen)
    OBVIOUS
  <1>2. CASE PlacesOf(seen, i) = {}
    BY <1>2, FS_EmptySet
  <1>3. ASSUME NEW j \in PlacesOf(seen, i)
        PROVE  Cardinality(PlacesOf(seen, i)) = 1 /\ \E m \in 1..Len(seen) : seen[m].id = i
    <2>1. PlacesOf(seen, i) = {j} /\ j \in 1..Len(seen) /\ seen[j].id = i
      BY <1>1, <1>3 DEF Fit, PlacesOf
    <2> QED
      BY <2>1, FS_Singleton
  <1> QED
    BY <1>2, <1>3

LEMMA CountsEntered ==
  ASSUME Counted, Typed, call' \in [Calls -> CallRecords],
         NEW c \in Calls, Moves(c), Enters(c)
  PROVE  Counted'
  <1> DEFINE x == call'[c]
             r == x.request
             seen == x.seen
             all == 1..Len(seen)
             J(i) == Cardinality(PlacesOf(seen, i))
  <1>1. \A d \in Calls : d # c => call'[d] = call[d]
    BY DEF Moves
  <1>2. /\ ~Underway(c) /\ Underway(c)' /\ Fit(r, seen)
        /\ \A j \in all : flying.targets[seen[j].id] < TargetCap
        /\ flying.clients[r.client] + Len(seen) <= ClientCap
        /\ flying' = Enter(flying, r, seen, all)
    BY DEF Enters
  <1>3. seen \in Seq(Snapshots) /\ Len(seen) \in Nat
    BY DEF CallRecords
  <1>4. r \in Requests
    BY <1>2 DEF Moves, Life, Asked, Underway
  <1>5. \A i, k :
          /\ IsFiniteSet(HeldOf(c, x, i)) /\ IsFiniteSet(HeldBy(c, x, k))
          /\ Cardinality(HeldOf(c, x, i)) = J(i)
          /\ Cardinality(HeldBy(c, x, k)) = IF r.client = k THEN Len(seen) ELSE 0
          /\ Cardinality(all) = Len(seen)
          /\ J(i) \in Nat
    BY <1>3, HeldCounted
  <1>6. \A i : J(i) = 0 \/ (J(i) = 1 /\ \E j \in all : seen[j].id = i)
    BY <1>2, <1>3, OneEach
  <1>7. /\ \A i \in Ids : flying'.targets[i] = flying.targets[i] + J(i)
        /\ \A k \in Clients :
             flying'.clients[k] = flying.clients[k] + (IF k = r.client THEN Len(seen) ELSE 0)
    <2>1. Cardinality(1..Len(seen)) = Len(seen)
      BY <1>5
    <2>2. FlyingTyped /\ flying' = Enter(flying, r, seen, 1..Len(seen))
      BY <1>2 DEF Typed
    <2> HIDE DEF x, r, seen
    <2> QED
      BY <1>3, <1>4, <2>1, <2>2, FlyingMoves
  <1> HIDE DEF x, r, seen, all, J
  <1>8. ASSUME NEW i \in Ids
        PROVE  /\ IsFiniteSet(OnTarget(i)') /\ flying'.targets[i] = Cardinality(OnTarget(i)')
               /\ flying'.targets[i] <= TargetCap
    <2>1. OnTarget(i)' = OnTarget(i) \cup HeldOf(c, x, i) /\ OnTarget(i) \cap HeldOf(c, x, i) = {}
      BY <1>1, <1>2, TotalsOfTarget DEF x
    <2>2. IsFiniteSet(OnTarget(i)) /\ flying.targets[i] = Cardinality(OnTarget(i)) /\ flying.targets[i] <= TargetCap
      BY DEF Counted, LimitsExact
    <2>3. IsFiniteSet(OnTarget(i)') /\ Cardinality(OnTarget(i)') = Cardinality(OnTarget(i)) + J(i)
      <3>1. IsFiniteSet(HeldOf(c, x, i)) /\ Cardinality(HeldOf(c, x, i)) = J(i)
        BY <1>5
      <3>2. /\ IsFiniteSet(OnTarget(i) \cup HeldOf(c, x, i))
            /\ Cardinality(OnTarget(i) \cup HeldOf(c, x, i))
                 = Cardinality(OnTarget(i)) + Cardinality(HeldOf(c, x, i))
        BY <2>1, <2>2, <3>1, DisjointUnion
      <3> QED
        BY <2>1, <3>1, <3>2
    <2>4. flying'.targets[i] <= TargetCap
      <3>1. flying.targets[i] \in Nat /\ TargetCap \in Nat
        BY CallsAssumption DEF Typed, FlyingTyped
      <3>2. J(i) = 0 \/ (J(i) = 1 /\ flying.targets[i] < TargetCap)
        BY <1>2, <1>6
      <3> QED
        BY <1>7, <2>2, <3>1, <3>2
    <2> QED
      BY <1>7, <2>2, <2>3, <2>4
  <1>9. ASSUME NEW k \in Clients
        PROVE  /\ IsFiniteSet(OfClient(k)') /\ flying'.clients[k] = Cardinality(OfClient(k)')
               /\ flying'.clients[k] <= ClientCap
    <2>1. OfClient(k)' = OfClient(k) \cup HeldBy(c, x, k) /\ OfClient(k) \cap HeldBy(c, x, k) = {}
      BY <1>1, <1>2, TotalsOfClient DEF x
    <2>2. IsFiniteSet(OfClient(k)) /\ flying.clients[k] = Cardinality(OfClient(k)) /\ flying.clients[k] <= ClientCap
      BY DEF Counted, LimitsExact
    <2>3. IsFiniteSet(OfClient(k)')
          /\ Cardinality(OfClient(k)') = Cardinality(OfClient(k)) + (IF k = r.client THEN Len(seen) ELSE 0)
      <3>1. /\ IsFiniteSet(HeldBy(c, x, k))
            /\ Cardinality(HeldBy(c, x, k)) = IF k = r.client THEN Len(seen) ELSE 0
        BY <1>5
      <3>2. /\ IsFiniteSet(OfClient(k) \cup HeldBy(c, x, k))
            /\ Cardinality(OfClient(k) \cup HeldBy(c, x, k))
                 = Cardinality(OfClient(k)) + Cardinality(HeldBy(c, x, k))
        BY <2>1, <2>2, <3>1, DisjointUnion
      <3> QED
        BY <2>1, <3>1, <3>2
    <2>4. flying'.clients[k] <= ClientCap
      <3>1. flying.clients[k] \in Nat
        BY DEF Typed, FlyingTyped
      <3> QED
        BY <1>2, <1>7, <2>2, <3>1
    <2> QED
      BY <1>7, <2>2, <2>3, <2>4
  <1> QED
    BY <1>8, <1>9 DEF Counted, LimitsExact

LEMMA CountsDeparted ==
  ASSUME Counted, Typed, Lives, call' \in [Calls -> CallRecords],
         NEW c \in Calls, Moves(c), Departs(c)
  PROVE  Counted'
  <1> DEFINE x == call[c]
             r == x.request
             seen == x.seen
             all == 1..Len(seen)
             J(i) == Cardinality(PlacesOf(seen, i))
  <1>1. \A d \in Calls : d # c => call'[d] = call[d]
    BY DEF Moves
  <1>2. /\ Underway(c) /\ ~Underway(c)'
        /\ flying' = Leave(flying, r, seen, all)
    BY DEF Departs
  <1>3. seen \in Seq(Snapshots) /\ Len(seen) \in Nat
    BY DEF Typed, CallRecords
  <1>4. r \in Requests /\ Fit(r, seen)
    BY <1>2 DEF Lives, Life, Asked, Underway
  <1>5. \A i, k :
          /\ IsFiniteSet(HeldOf(c, x, i)) /\ IsFiniteSet(HeldBy(c, x, k))
          /\ Cardinality(HeldOf(c, x, i)) = J(i)
          /\ Cardinality(HeldBy(c, x, k)) = IF r.client = k THEN Len(seen) ELSE 0
          /\ Cardinality(all) = Len(seen)
          /\ J(i) \in Nat
    BY <1>3, HeldCounted
  <1>6. \A i : J(i) \in Nat
    BY <1>5
  <1>7. /\ \A i \in Ids : flying'.targets[i] = flying.targets[i] - J(i)
        /\ \A k \in Clients :
             flying'.clients[k] = flying.clients[k] - (IF k = r.client THEN Len(seen) ELSE 0)
    <2>1. Cardinality(all) = Len(seen)
      BY <1>5
    <2> QED
      BY <1>2, <1>3, <1>4, <1>6, <2>1, FlyingMoves DEF Typed
  <1> HIDE DEF x, r, seen, all, J
  <1>8. ASSUME NEW i \in Ids
        PROVE  /\ IsFiniteSet(OnTarget(i)') /\ flying'.targets[i] = Cardinality(OnTarget(i)')
               /\ flying'.targets[i] <= TargetCap
    <2>1. OnTarget(i) = OnTarget(i)' \cup HeldOf(c, x, i) /\ OnTarget(i)' \cap HeldOf(c, x, i) = {}
      BY <1>1, <1>2, TotalsOfTarget DEF x
    <2>2. IsFiniteSet(OnTarget(i)) /\ flying.targets[i] = Cardinality(OnTarget(i)) /\ flying.targets[i] <= TargetCap
      BY DEF Counted, LimitsExact
    <2>3. IsFiniteSet(OnTarget(i)')
      BY <2>1, <2>2, FS_Subset
    <2>4. /\ Cardinality(OnTarget(i)) = Cardinality(OnTarget(i)') + J(i)
          /\ Cardinality(OnTarget(i)') \in Nat
      <3>1. IsFiniteSet(HeldOf(c, x, i)) /\ Cardinality(HeldOf(c, x, i)) = J(i)
        BY <1>5
      <3>2. /\ Cardinality(OnTarget(i)' \cup HeldOf(c, x, i))
                 = Cardinality(OnTarget(i)') + Cardinality(HeldOf(c, x, i))
            /\ Cardinality(OnTarget(i)') \in Nat
        BY <2>1, <2>3, <3>1, DisjointUnion
      <3> QED
        BY <2>1, <3>1, <3>2
    <2> QED
      BY <1>6, <1>7, <2>2, <2>3, <2>4, CallsAssumption
  <1>9. ASSUME NEW k \in Clients
        PROVE  /\ IsFiniteSet(OfClient(k)') /\ flying'.clients[k] = Cardinality(OfClient(k)')
               /\ flying'.clients[k] <= ClientCap
    <2>1. OfClient(k) = OfClient(k)' \cup HeldBy(c, x, k) /\ OfClient(k)' \cap HeldBy(c, x, k) = {}
      BY <1>1, <1>2, TotalsOfClient DEF x
    <2>2. IsFiniteSet(OfClient(k)) /\ flying.clients[k] = Cardinality(OfClient(k)) /\ flying.clients[k] <= ClientCap
      BY DEF Counted, LimitsExact
    <2>3. IsFiniteSet(OfClient(k)')
      BY <2>1, <2>2, FS_Subset
    <2>4. /\ Cardinality(OfClient(k)) = Cardinality(OfClient(k)') + (IF k = r.client THEN Len(seen) ELSE 0)
          /\ Cardinality(OfClient(k)') \in Nat
      <3>1. /\ IsFiniteSet(HeldBy(c, x, k))
            /\ Cardinality(HeldBy(c, x, k)) = IF k = r.client THEN Len(seen) ELSE 0
        BY <1>5
      <3>2. /\ Cardinality(OfClient(k)' \cup HeldBy(c, x, k))
                 = Cardinality(OfClient(k)') + Cardinality(HeldBy(c, x, k))
            /\ Cardinality(OfClient(k)') \in Nat
        BY <2>1, <2>3, <3>1, DisjointUnion
      <3> QED
        BY <2>1, <3>1, <3>2
    <2> QED
      BY <1>3, <1>7, <2>2, <2>3, <2>4, CallsAssumption
  <1> QED
    BY <1>8, <1>9 DEF Counted, LimitsExact

-----------------------------------------------------------------------------
(* A crash; and the whole.                                                 *)

LEMMA CrashKeeps ==
  ASSUME Typed, Lives, Crash
  PROVE  RowsTyped' /\ Lives' /\ Counted'
  <1>1. rows' = rows /\ flying' = [targets |-> [i \in Ids |-> 0], clients |-> [k \in Clients |-> 0]]
    BY DEF Crash
  <1>2. RowsTyped'
    BY <1>1 DEF Typed, RowsTyped
  <1>3. ASSUME NEW c \in Calls
        PROVE  Life(call'[c], rows'[c]) /\ ~Underway(c)'
    <2> DEFINE x == call[c]
    <2>1. x \in CallRecords /\ Life(x, rows[c])
      BY DEF Typed, Lives
    <2>2. call'[c] = IF Underway(c) \/ x.connector = "abandoned"
                       THEN [x EXCEPT !.at = IF Underway(c) THEN "cut" ELSE @,
                                      !.holders = {}, !.connector = "none"]
                       ELSE x
      BY DEF Crash
    <2>3. CASE Underway(c)
      <3>1. call'[c] = [x EXCEPT !.at = "cut", !.holders = {}, !.connector = "none"]
        BY <2>2, <2>3
      <3>2. Life(call'[c], rows[c])
        BY <2>1, <2>3, <3>1, LifeCut DEF Underway
      <3>3. call'[c].at = "cut"
        BY <2>1, <3>1 DEF CallRecords
      <3> QED
        BY <1>1, <3>2, <3>3 DEF Underway
    <2>4. CASE ~Underway(c) /\ x.connector = "abandoned"
      <3>1. call'[c] = [x EXCEPT !.holders = {}, !.connector = "none"]
        BY <2>1, <2>2, <2>4 DEF CallRecords
      <3>2. Life([x EXCEPT !.holders = {}, !.connector = "none"], rows[c])
        BY <2>1, <2>4, LifeLeftBehind, Zenon
      <3>3. call'[c].at = x.at
        BY <2>1, <3>1 DEF CallRecords
      <3> QED
        BY <1>1, <2>4, <3>1, <3>2, <3>3 DEF Underway
    <2>5. CASE ~Underway(c) /\ x.connector # "abandoned"
      BY <1>1, <2>1, <2>2, <2>5 DEF Underway
    <2> QED
      BY <2>3, <2>4, <2>5
  <1>4. ASSUME NEW i \in Ids PROVE OnTarget(i)' = {}
    BY <1>3 DEF OnTarget
  <1>5. ASSUME NEW k \in Clients PROVE OfClient(k)' = {}
    BY <1>3 DEF OfClient
  <1>6. TargetCap \in Nat /\ ClientCap \in Nat
    BY CallsAssumption
  <1>7. Counted'
    BY <1>1, <1>4, <1>5, <1>6, FS_EmptySet DEF Counted, LimitsExact
  <1> QED
    BY <1>2, <1>3, <1>7 DEF Lives

CallsInv == Typed /\ NameUnique /\ Lives /\ Counted

LEMMA FlyingFromCounts ==
  ASSUME Counted', flying' = [targets |-> flying'.targets, clients |-> flying'.clients],
         flying'.targets = [i \in Ids |-> flying'.targets[i]],
         flying'.clients = [k \in Clients |-> flying'.clients[k]]
  PROVE  FlyingTyped'
  <1>1. \A i \in Ids : flying'.targets[i] \in Nat
    BY FS_CardinalityType DEF Counted, LimitsExact
  <1>2. \A k \in Clients : flying'.clients[k] \in Nat
    BY FS_CardinalityType DEF Counted, LimitsExact
  <1> QED
    BY <1>1, <1>2 DEF FlyingTyped

LEMMA FlyingShaped ==
  ASSUME FlyingTyped,
         \/ flying' = flying
         \/ flying' = [targets |-> [i \in Ids |-> 0], clients |-> [k \in Clients |-> 0]]
         \/ \E r \in Requests : \E seen, js :
              flying' = Enter(flying, r, seen, js) \/ flying' = Leave(flying, r, seen, js)
  PROVE  /\ flying' = [targets |-> flying'.targets, clients |-> flying'.clients]
         /\ flying'.targets = [i \in Ids |-> flying'.targets[i]]
         /\ flying'.clients = [k \in Clients |-> flying'.clients[k]]
  BY DEF FlyingTyped, Enter, Leave

LEMMA CallsInvKept ==
  ASSUME CallsInv, CallsNext \/ UNCHANGED vars
  PROVE  CallsInv'
  <1>1. TargetsTypeOK' /\ call' \in [Calls -> CallRecords] /\ NameUnique'
    <2>1. TargetsTypeOK /\ call \in [Calls -> CallRecords] /\ NameUnique
      BY DEF CallsInv, Typed
    <2>2. TargetsTypeOK'
      BY <2>1, TargetsStep
    <2>3. call' \in [Calls -> CallRecords]
      BY <2>1, CallsStep
    <2> QED
      BY <2>1, <2>2, <2>3, NamesStayUnique
  <1>2. CASE call' = call /\ rows' = rows /\ flying' = flying
    <2>1. RowsTyped' /\ FlyingTyped' /\ Lives'
      BY <1>2 DEF CallsInv, Typed, RowsTyped, FlyingTyped, Lives
    <2>2. \A c : Underway(c)' <=> Underway(c)
      BY <1>2 DEF Underway
    <2>3. (\A i : OnTarget(i)' = OnTarget(i)) /\ \A k : OfClient(k)' = OfClient(k)
      BY <1>2, <2>2 DEF OnTarget, OfClient
    <2>4. Counted'
      BY <1>2, <2>3 DEF CallsInv, Counted, LimitsExact
    <2> QED
      BY <1>1, <2>1, <2>4 DEF CallsInv, Typed
  <1>3. CASE Crash
    <2>1. RowsTyped' /\ Lives' /\ Counted'
      BY <1>3, CrashKeeps DEF CallsInv
    <2>2. FlyingTyped'
      BY <1>3, <2>1, FlyingShaped, FlyingFromCounts DEF CallsInv, Typed, Crash
    <2> QED
      BY <1>1, <2>1, <2>2 DEF CallsInv, Typed
  <1>4. ASSUME NEW c \in Calls, RowsTyped', Moves(c), Stays(c) \/ Enters(c) \/ Departs(c)
        PROVE  CallsInv'
    <2>1. Lives'
      BY <1>4 DEF CallsInv, Lives, Moves
    <2>2. Counted'
      BY <1>1, <1>4, CountsStay, CountsEntered, CountsDeparted DEF CallsInv
    <2>3. call'[c].at # "idle" => call'[c].request \in Requests
      BY <1>4 DEF Moves, Life, Asked
    <2>4. call[c].at # "idle" => call[c].request \in Requests
      BY DEF CallsInv, Lives, Life, Asked
    <2>5. \/ flying' = flying
          \/ \E r \in Requests : \E seen, js :
               flying' = Enter(flying, r, seen, js) \/ flying' = Leave(flying, r, seen, js)
      <3>1. CASE Stays(c)
        BY <3>1 DEF Stays
      <3>2. CASE Enters(c)
        BY <2>3, <3>2 DEF Enters, Underway
      <3>3. CASE Departs(c)
        BY <2>4, <3>3 DEF Departs, Underway
      <3> QED
        BY <1>4, <3>1, <3>2, <3>3
    <2>6. FlyingTyped'
      BY <2>2, <2>5, FlyingShaped, FlyingFromCounts DEF CallsInv, Typed
    <2> QED
      BY <1>1, <1>4, <2>1, <2>2, <2>6 DEF CallsInv, Typed
  <1>5. ASSUME NEW c \in Calls, NEW r \in Requests, Deny(c, r) \/ Acquire(c, r)
        PROVE  CallsInv'
    BY <1>4, <1>5, DenyMoves, AcquireMoves DEF CallsInv
  <1>6. ASSUME NEW c \in Calls, Proceeds(c) \/ AbandonedEnds(c)
        PROVE  CallsInv'
    BY <1>1, <1>4, <1>6, ProceedMoves DEF CallsInv
  <1>7. CASE (TargetsNext /\ UNCHANGED callVars) \/ UNCHANGED vars
    BY <1>2, <1>7 DEF callVars, vars
  <1> QED
    BY <1>3, <1>5, <1>6, <1>7 DEF CallsNext

LEMMA CallsInvAtFirst == CallsInit => CallsInv
  <1> SUFFICES ASSUME CallsInit PROVE CallsInv
    OBVIOUS
  <1>1. /\ call = [c \in Calls |-> Fresh] /\ rows = [c \in Calls |-> <<>>]
        /\ flying = [targets |-> [i \in Ids |-> 0], clients |-> [k \in Clients |-> 0]]
        /\ TargetsInit
    BY DEF CallsInit
  <1>2. Typed
    BY <1>1, TypesAtFirst, FreshTyped DEF Typed, RowsTyped, RowSeqs, FlyingTyped
  <1>3. NameUnique
    BY <1>1 DEF TargetsInit, NameUnique, Saved, Unused
  <1>4. Lives
    BY <1>1, LifeFresh DEF Lives
  <1>5. \A c \in Calls : ~Underway(c)
    BY <1>1 DEF Underway, Fresh
  <1>6. /\ \A i \in Ids : OnTarget(i) = {}
        /\ \A k \in Clients : OfClient(k) = {}
    BY <1>5 DEF OnTarget, OfClient
  <1>7. TargetCap \in Nat /\ ClientCap \in Nat
    BY CallsAssumption
  <1>8. IsFiniteSet({}) /\ Cardinality({}) = 0
    BY FS_EmptySet
  <1>9. ASSUME NEW i \in Ids
        PROVE  /\ IsFiniteSet(OnTarget(i)) /\ flying.targets[i] = Cardinality(OnTarget(i))
               /\ flying.targets[i] <= TargetCap
    <2>1. flying.targets[i] = 0 /\ OnTarget(i) = {}
      BY <1>1, <1>6
    <2> QED
      BY <1>7, <1>8, <2>1
  <1>10. ASSUME NEW k \in Clients
         PROVE  /\ IsFiniteSet(OfClient(k)) /\ flying.clients[k] = Cardinality(OfClient(k))
                /\ flying.clients[k] <= ClientCap
    <2>1. flying.clients[k] = 0 /\ OfClient(k) = {}
      BY <1>1, <1>6
    <2> QED
      BY <1>7, <1>8, <2>1
  <1>11. Counted
    BY <1>9, <1>10 DEF Counted, LimitsExact
  <1> QED
    BY <1>2, <1>3, <1>4, <1>11 DEF CallsInv

\* What the parts say of one another is what the run checks.
LEMMA CallsInvSound ==
  ASSUME CallsInv
  PROVE  CallsSound
  <1>1. CallsTypeOK
    BY DEF CallsInv, Typed, RowsTyped, RowSeqs, Outcomes, FlyingTyped, CallsTypeOK
  <1>2. ASSUME NEW c \in Calls
        PROVE  LET x == call[c]  r == x.request IN
               /\ \/ rows[c] = <<>> /\ x.at \in {"idle", "fetching", "pinning", "cut"}
                  \/ \E out \in OutcomesOf(c) :
                       rows[c] = IF ListProblem(r) THEN ForList(r, out) ELSE ForEach(r, out)
               /\ x.at = "running" => x.holders = DOMAIN x.seen
               /\ ~Underway(c) => x.holders = {}
               /\ x.loose > 0 =>
                    /\ x.loose < Fields
                    /\ x.at = "ended" /\ x.connector = "none"
                    /\ rows[c] = ForEach(r, "error")
    <2> DEFINE x == call[c]
    <2>1. x \in CallRecords /\ Life(x, rows[c])
      BY DEF CallsInv, Typed, Lives
    <2>2. Fresh.holders = {} /\ Fresh.loose = 0 /\ \A r : Made(r).holders = {} /\ Made(r).loose = 0
      BY DEF Fresh, Made
    <2>3. CASE x.at = "idle"
      BY <2>1, <2>2, <2>3 DEF Life, Unmade, Underway
    <2>4. CASE x.at = "fetching"
      BY <2>1, <2>4 DEF Life, OnTheWay, Fetching, Underway
    <2>5. CASE x.at = "pinning"
      BY <2>1, <2>5 DEF Life, OnTheWay, Pinning, Underway
    <2>6. CASE x.at = "running"
      <3>1. x.holders = DOMAIN x.seen /\ x.loose = 0
        BY <2>1, <2>6 DEF Life, OnTheWay, Running, CallRecords
      <3> QED
        BY <2>1, <2>6, <3>1 DEF Life, OnTheWay, Running, Underway, OutcomesOf
    <2>7. CASE x.at = "cut"
      BY <2>1, <2>7 DEF Life, CutShort, Underway, OutcomesOf
    <2>8. CASE x.at = "ended" /\ x.seen = <<>>
      <3>1. x = Made(x.request) /\ rows[c] = Recorded(x.request, "denied")
        BY <2>1, <2>8 DEF Life, Refusal
      <3>2. "denied" \in OutcomesOf(c)
        BY <2>8 DEF OutcomesOf
      <3>3. x.holders = {} /\ x.loose = 0
        BY <2>2, <3>1
      <3> QED
        BY <2>8, <3>1, <3>2, <3>3 DEF Recorded
    <2>9. CASE x.at = "ended" /\ x.seen # <<>>
      BY <2>1, <2>9 DEF Life, Ending, Underway, OutcomesOf, CallRecords
    <2> QED
      BY <2>1, <2>3, <2>4, <2>5, <2>6, <2>7, <2>8, <2>9 DEF CallRecords
  <1>3. CallTold
    BY <1>2 DEF CallTold, RowsTell, SecretsKept
  <1>4. LooseOnlyPartial
    BY <1>2 DEF LooseOnlyPartial
  <1>5. AsResolved
    BY DEF CallsInv, Lives, Life, Fit, AsResolved
  <1>6. LimitsExact
    BY DEF CallsInv, Counted
  <1> QED
    BY <1>1, <1>3, <1>4, <1>5, <1>6 DEF CallsSound

\* The in-flight counters are exactly the calls under way and within the caps on
\* every way out of callMany (ACT-59); the rows of a call and the secrets it
\* holds agree with how far it is (ACT-50, ACT-60, ACT-62, ACT-116); it runs only
\* what it was let in with, on no target twice; and values that were fetched are
\* left over only by a fetch that failed.
THEOREM CallsAreSound == CallsSpec => []CallsSound
  <1>1. CallsInv /\ [CallsNext]_vars => CallsInv'
    BY CallsInvKept
  <1>2. CallsInv => CallsSound
    BY CallsInvSound
  <1> QED
    BY CallsInvAtFirst, <1>1, <1>2, PTL DEF CallsSpec
=============================================================================
