---------------------------- MODULE ActionTargets ----------------------------
(***************************************************************************)
(* The operator's side of the actions layer (src/actions/targets*.ts):     *)
(* targets, the documents they carry, and the grants that join them to     *)
(* clients.                                                                *)
(*                                                                         *)
(* Creating and editing a target check the new documents first, and the    *)
(* checks resolve host names and read the vault: the row is read before    *)
(* them and written after them, and any other page may be answered in      *)
(* between.  Enabling, removing, granting and revoking are one turn each.  *)
(* A form that is being checked is the variable form.                      *)
(*                                                                         *)
(* A target's description, destination, credential and policy are one      *)
(* value, its documents.  The table of browser sessions that these         *)
(* operations also update is empty at this commit (nothing inserts into    *)
(* it) and is left out, as are the audit events and the observer that      *)
(* tells the code connector of a saved or removed target.                  *)
(***************************************************************************)
EXTENDS Naturals, Sequences

CONSTANTS
  Ids,          \* the identifiers newId() makes
  Names,        \* the names an operator may give
  Clients,      \* the registered OAuth clients
  Docs,         \* the documents a target may carry
  NewTargets,   \* what may be created: [name, enabled, docs]
  Edits,        \* the documents a target may be edited to
  Forms,        \* the pages open on a create or an edit
  MaxRevision   \* bound: a target at this revision is not changed again

ASSUME TargetsAssumption ==
  /\ MaxRevision \in Nat \ {0}
  /\ NewTargets \subseteq [name : Names, enabled : BOOLEAN, docs : Docs]
  /\ Edits \subseteq Docs

VARIABLES
  target,  \* the table action_targets, by id
  grant,   \* the table action_grants, by id and client
  form     \* by page: what is being checked and what was read before it

targetVars == <<target, grant, form>>

Unused == [state |-> "unused"]
Removed == [state |-> "removed"]

Row(n, on, doc, rev) ==
  [state |-> "saved", name |-> n, enabled |-> on, docs |-> doc, revision |-> rev]

Rows == [state : {"saved"}, name : Names, enabled : BOOLEAN, docs : Docs,
         revision : 1..MaxRevision]

Saved(i) == target[i].state = "saved"

\* Every change bumps the revision of the row as it is stored.
Bounded(i) == Saved(i) => target[i].revision < MaxRevision

NameTaken(n) == \E i \in Ids : Saved(i) /\ target[i].name = n

NoForm == [kind |-> "none"]
CreateForms == [kind : {"create"}, new : NewTargets]
UpdateForms == [kind : {"update"}, id : Ids, before : Docs, docs : Edits]

TargetsTypeOK ==
  /\ target \in [Ids -> Rows \cup {Unused, Removed}]
  /\ grant \in [Ids -> [Clients -> {"none", "full", "read"}]]
  /\ form \in [Forms -> CreateForms \cup UpdateForms \cup {NoForm}]

TargetsInit ==
  /\ target = [i \in Ids |-> Unused]
  /\ grant = [i \in Ids |-> [k \in Clients |-> "none"]]
  /\ form = [f \in Forms |-> NoForm]
-----------------------------------------------------------------------------
\* createTarget: the name is looked up, then the checks begin.
BeginCreate(f, new) ==
  /\ form[f] = NoForm
  /\ ~NameTaken(new.name)
  /\ form' = [form EXCEPT ![f] = [kind |-> "create", new |-> new]]
  /\ UNCHANGED <<target, grant>>

\* Mutant: the name that was free before the checks is inserted after them.
FinishCreateAnyway(f) ==
  /\ form[f].kind = "create"
  /\ form' = [form EXCEPT ![f] = NoForm]
  /\ LET new == form[f].new IN
     \E i \in Ids :
       /\ target[i] = Unused
       /\ target' = [target EXCEPT ![i] = Row(new.name, new.enabled, new.docs, 1)]
  /\ UNCHANGED grant

\* The checks passed: the row is inserted unless the name, which is UNIQUE in
\* the table, was taken while they ran; then the insert throws.
FinishCreate(f) ==
  /\ form[f].kind = "create"
  /\ form' = [form EXCEPT ![f] = NoForm]
  /\ LET new == form[f].new IN
     IF NameTaken(new.name)
       THEN UNCHANGED target
       ELSE \E i \in Ids :
              /\ target[i] = Unused
              /\ target' = [target EXCEPT ![i] = Row(new.name, new.enabled, new.docs, 1)]
  /\ UNCHANGED grant

\* updateTarget: the row is read, then the checks of the new documents begin.
BeginUpdate(f, i, doc) ==
  /\ form[f] = NoForm
  /\ Saved(i)
  /\ form' = [form EXCEPT ![f] =
                [kind |-> "update", id |-> i, before |-> target[i].docs, docs |-> doc]]
  /\ UNCHANGED <<target, grant>>

\* Mutant: the statement writes no revision.
StoredUnbumped(i, doc) == IF Saved(i) THEN [target EXCEPT ![i].docs = doc] ELSE target

\* Mutant: the statement writes the switch of the form with the documents.
StoredOn(i, doc) ==
  IF Saved(i)
    THEN [target EXCEPT ![i].docs = doc, ![i].enabled = TRUE, ![i].revision = @ + 1]
    ELSE target

\* The UPDATE names the documents, counts the stored revision up and touches
\* no row if the target was removed meanwhile.
Stored(i, doc) ==
  IF Saved(i)
    THEN [target EXCEPT ![i].docs = doc, ![i].revision = @ + 1]
    ELSE target

\* The checks passed: nothing is written if the documents are those read
\* before the checks.
FinishUpdate(f) ==
  /\ form[f].kind = "update"
  /\ form' = [form EXCEPT ![f] = NoForm]
  /\ IF form[f].docs = form[f].before
       THEN UNCHANGED target
       ELSE /\ Bounded(form[f].id)
            /\ target' = Stored(form[f].id, form[f].docs)
  /\ UNCHANGED grant

\* prepareChanges found a problem, or the process died.
FormFails(f) ==
  /\ form[f] # NoForm
  /\ form' = [form EXCEPT ![f] = NoForm]
  /\ UNCHANGED <<target, grant>>

\* setTargetEnabled
SetEnabled(i, on) ==
  /\ Saved(i)
  /\ Bounded(i)
  /\ target' = [target EXCEPT ![i].enabled = on, ![i].revision = @ + 1]
  /\ UNCHANGED <<grant, form>>

\* removeTarget: the grants go with the row (ON DELETE CASCADE).
RemoveTarget(i) ==
  /\ Saved(i)
  /\ target' = [target EXCEPT ![i] = Removed]
  /\ grant' = [grant EXCEPT ![i] = [k \in Clients |-> "none"]]
  /\ UNCHANGED form

\* Mutant: confirming a client writes what is asked.
UpsertAsked(old, readOnly) == IF readOnly THEN "read" ELSE "full"

\* The upsert of grant(): an active grant that is read-only stays read-only,
\* none and a revoked one begin with what is asked.  A row with revoked_at set
\* is read by nothing else, so it is no grant here.
Upsert(old, readOnly) == IF old = "read" \/ readOnly THEN "read" ELSE "full"

\* grantTarget
Grant(i, k, readOnly) ==
  /\ Saved(i)
  /\ grant' = [grant EXCEPT ![i][k] = Upsert(@, readOnly)]
  /\ UNCHANGED <<target, form>>

Active(g) == g \in {"full", "read"}

\* revokeTargetGrant
RevokeGrant(i, k) ==
  /\ Saved(i)
  /\ grant' = [grant EXCEPT ![i][k] = "none"]
  /\ UNCHANGED <<target, form>>

\* onConsentRevoked: the client was disconnected, so every grant of it ends.
Disconnected(k) ==
  /\ grant' = [i \in Ids |-> [grant[i] EXCEPT ![k] = "none"]]
  /\ UNCHANGED <<target, form>>

TargetsNext ==
  \/ \E f \in Forms : \/ \E new \in NewTargets : BeginCreate(f, new)
                      \/ FinishCreate(f)
                      \/ \E i \in Ids, doc \in Edits : BeginUpdate(f, i, doc)
                      \/ FinishUpdate(f)
                      \/ FormFails(f)
  \/ \E i \in Ids : \/ \E on \in BOOLEAN : SetEnabled(i, on)
                    \/ RemoveTarget(i)
                    \/ \E k \in Clients : RevokeGrant(i, k) \/ \E ro \in BOOLEAN : Grant(i, k, ro)
  \/ \E k \in Clients : Disconnected(k)

TargetsSpec == TargetsInit /\ [][TargetsNext]_targetVars
-----------------------------------------------------------------------------
\* A name is one target's: findByName, which resolves every call, has one
\* answer although the name was looked up before the checks and inserted
\* after them.
NameUnique ==
  \A i, j \in Ids : Saved(i) /\ Saved(j) /\ target[i].name = target[j].name => i = j

\* Only saved targets have grants: removal leaves none behind, and no grant
\* page answers for a target that is gone.
GrantsOfSaved == \A i \in Ids, k \in Clients : Active(grant[i][k]) => Saved(i)

\* An edit that was being checked while the operator switched the target off
\* does not switch it on again, brings no removed target back, and bumps the
\* revision beyond every change made while it was checked.
SwitchStays ==
  [][\A i \in Ids : target[i] # Unused /\ target'[i] # target[i] =>
       \/ Saved(i) /\ target'[i] = Removed
       \/ /\ Saved(i) /\ target'[i].state = "saved"
          /\ target'[i].name = target[i].name
          /\ target'[i].revision = target[i].revision + 1
          /\ target'[i].enabled # target[i].enabled => target'[i].docs = target[i].docs]_targetVars

\* What the operator confirmed as read-only stays so until it is revoked:
\* confirming the client again does not widen a grant in use.
CeilingKept ==
  [][\A i \in Ids, k \in Clients : grant[i][k] = "read" => grant'[i][k] # "full"]_targetVars
=============================================================================
