----------------------------- MODULE TargetForms -----------------------------
(***************************************************************************)
(* The pages that create and edit a connection (src/actions/pages).        *)
(*                                                                         *)
(* A form is a list of field descriptors.  The documents of the stored row *)
(* become the values its controls show, the operator changes some, the     *)
(* submission becomes documents again, and between the two the form may    *)
(* come back from a refused save or from a check, the row may be changed   *)
(* on another page, the vault item may lose a field and the deployment may *)
(* be restarted with another switch.  What is asked of them is that a save *)
(* stores what the operator saw and changed, and nothing else.             *)
(*                                                                         *)
(* The forms here keep one field of every sort their connectors have. *)
(* A text is a word; "_" in it is a space the browser sends.  One row is   *)
(* kept: names and grants are in ActionTargets.                            *)
(***************************************************************************)
EXTENDS Naturals, FiniteSets, Sequences

CONSTANTS
  FormPage,     \* the operator's open pages
  FormKind,     \* the connectors, of ssh, winrm, http, code and sql
  VaultItem,    \* the vault items an operator may choose
  Absent,       \* no value in a document
  TypedMax,     \* bound: controls changed on one drawing of a form
  SavesMax      \* bound: a row of this revision is saved no more

\* Every text there is: the choices of the controls and the words typed.
FormTexts ==
  {"", "_", "Token_", "Token", "key", "sshKey", "password", "none", "null", "negotiate", "basic", "bearer", "header",
   "require", "verify", "22", "5432", "1", "9", "code", "docs", "read", "write", "accept", "list", "word",
   "acme", "Acme", "other", "db", "lan", "db:1", "db2"}

\* The lines of a list and the boxes of a set.
FormLists == SUBSET {"accept", "list", "code", "docs", "read", "write"}

ASSUME FormsAssumption ==
  /\ TypedMax \in Nat /\ SavesMax \in Nat
  /\ FormKind \subseteq {"ssh", "winrm", "http", "code", "sql"}
  /\ Absent \notin FormTexts /\ Absent \notin BOOLEAN /\ \A l \in FormLists : l # Absent

VARIABLES
  connector,    \* the connector of the row, fixed at its creation
  savedRow,     \* the stored row
  anyAllowed,   \* VAULTGATE_ACTIONS_ALLOW_ANY_COMMAND
  lost,         \* the items that carry no password field now
  unlocked,     \* the operator confirmed the password in the last five minutes
  page          \* by page: the form as the browser holds it, and its request

formVars == <<connector, savedRow, anyAllowed, lost, unlocked, page>>
-----------------------------------------------------------------------------
\* A descriptor: the control, the value of the schema when a document has
\* none, the field and value it depends on, and its picker.
Plain == [kind |-> "text", fallback |-> "", when |-> <<>>, picker |-> "no", verbatim |-> FALSE]
Text == [Plain EXCEPT !.kind = "text"]
Select(first) == [Plain EXCEPT !.kind = "select", !.fallback = first]
Number(n) == [Plain EXCEPT !.kind = "number", !.fallback = n]
Box(on) == [Plain EXCEPT !.kind = "boolean", !.fallback = on]
Lines(l) == [Plain EXCEPT !.kind = "lines", !.fallback = l]
Boxes(s) == [Plain EXCEPT !.kind = "set", !.fallback = s]
Picker(how, default) == [Plain EXCEPT !.picker = how, !.fallback = default]
When(d, field, value) == [d EXCEPT !.when = <<field, value>>]
Verbatim(d) == [d EXCEPT !.verbatim = TRUE]

\* The forms of the connectors.
SshForm ==
  [host |-> Text, port |-> Number("22"), auth |-> Select("key"),
   key |-> When(Picker("fallback", "sshKey"), "auth", "key"),
   password |-> When(Picker("fallback", "password"), "auth", "password"),
   commands |-> Lines({}), any |-> Box(FALSE)]

WinrmForm ==
  [host |-> Text, auth |-> Select("negotiate"), pin |-> Text,
   password |-> Picker("fallback", "password"), commands |-> Lines({}), any |-> Box(FALSE)]

Together(these, those) ==
  [f \in DOMAIN these \cup DOMAIN those |-> IF f \in DOMAIN these THEN these[f] ELSE those[f]]

HttpMapping ==
  [mode |-> Select("bearer"), field |-> Picker("fallback", "password"),
   prefix |-> When(Verbatim(Text), "mode", "header")]

HttpForm ==
  Together(HttpMapping, [host |-> Text, headers |-> Lines({"accept"}), follow |-> Box(FALSE)])

CodeForm ==
  [repository |-> Text, ref |-> Text, token |-> Picker("none", "password"),
   content |-> Boxes({"code", "docs"}), read |-> Box(TRUE)]

SqlForm ==
  [host |-> Text, port |-> Number("5432"), tls |-> Select("require"),
   ca |-> When(Text, "tls", "verify"), operations |-> Boxes({"read"})]

Form(k) == CASE k = "ssh" -> SshForm [] k = "winrm" -> WinrmForm [] k = "http" -> HttpForm
             [] k = "code" -> CodeForm [] k = "sql" -> SqlForm

Default(d) == d.fallback

\* What the schema puts where a document has nothing: sql's port is optional.
SchemaDefault(k, f) ==
  LET d == Form(k)[f] IN
  IF (d.kind = "text" /\ d.picker = "no") \/ <<k, f>> = <<"sql", "port">> THEN Absent ELSE Default(d)

Fields(k) == DOMAIN Form(k)

\* formFor: a field the deployment does not allow is not drawn.
DrawnFields(k) == {f \in Fields(k) : f = "any" => anyAllowed}

Required(k) == Fields(k) \cap {"host", "repository"}

\* The destination's address, and the field the vault item or the token's
\* list may supply.
Supplied(k) == IF k = "code" THEN "repository" ELSE "host"
-----------------------------------------------------------------------------
Trim(t) == CASE t = "_" -> "" [] t = "Token_" -> "Token" [] OTHER -> t
Fold(t) == IF t = "Acme" THEN "acme" ELSE t

\* hostAndPort: "db:1" is a host with its port.  A URL field takes the URL.
HostOf(k, address) == IF address = "db:1" /\ k \notin {"http", "winrm"} THEN "db" ELSE address
HasPort(k, address) == address = "db:1" /\ k \in {"ssh", "sql"}

Empty(d) == CASE d.kind \in {"lines", "set"} -> {} [] d.kind = "boolean" -> FALSE [] OTHER -> ""

\* isActive
IsActive(d, values) == d.when = <<>> \/ values[d.when[1]] = d.when[2]

\* Mutant: a text is stored as its trimmed form, whatever its descriptor says.
ReadTrimmed(d, raw) ==
  CASE d.kind = "boolean" -> raw
    [] d.kind \in {"lines", "set"} -> IF raw = {} THEN Absent ELSE raw
    [] OTHER -> IF d.picker = "none" /\ raw = "none" THEN "null"
                ELSE IF Trim(raw) = "" THEN Absent ELSE Trim(raw)

\* Mutant: the choice of no field at all is left out, like an empty one.
ReadNoneAbsent(d, raw) ==
  CASE d.kind = "boolean" -> raw
    [] d.kind \in {"lines", "set"} -> IF raw = {} THEN Absent ELSE raw
    [] OTHER -> IF Trim(raw) \in {"", "none"} THEN Absent
                ELSE IF d.verbatim THEN raw ELSE Trim(raw)

\* readField: an empty text, list or set is left out, so the default applies;
\* an unticked box is false; the choice of no field is null.
ReadField(d, raw) ==
  CASE d.kind = "boolean" -> raw
    [] d.kind \in {"lines", "set"} -> IF raw = {} THEN Absent ELSE raw
    [] OTHER -> IF d.picker = "none" /\ raw = "none" THEN "null"
                ELSE IF Trim(raw) = "" THEN Absent
                ELSE IF d.verbatim THEN raw ELSE Trim(raw)

\* documentsFromForm
DocumentsFromForm(k, values) ==
  [f \in Fields(k) |-> IF f \in DrawnFields(k) /\ IsActive(Form(k)[f], values)
                         THEN ReadField(Form(k)[f], values[f])
                         ELSE Absent]

\* The documents as the schemas give them back, the defaults of the chosen
\* mode filled in.
Validated(k, docs) ==
  LET chosen == [f \in Fields(k) |-> IF docs[f] = Absent THEN SchemaDefault(k, f) ELSE docs[f]]
  IN [f \in Fields(k) |-> IF IsActive(Form(k)[f], chosen) THEN chosen[f] ELSE Absent]

\* Mutant: the stored choice of no field is shown as no choice.
WriteNoneEmpty(d, value) ==
  IF value = Absent \/ (d.picker = "none" /\ value = "null") THEN Empty(d) ELSE value

WriteField(d, value) ==
  IF value = Absent THEN Empty(d)
    ELSE IF d.picker = "none" THEN IF value = "null" THEN "none" ELSE value
    ELSE value

\* pickedSelector, and a select no option of which is marked: what the browser
\* sends for a control nobody touched.
Preselected(d, value) ==
  IF (d.kind = "select" \/ d.picker \in {"fallback", "none"}) /\ value = "" THEN d.fallback ELSE value

\* targetValues, as the browser sends them back unless the operator acts
TargetValues(k, docs) ==
  [f \in Fields(k) |->
     LET d == Form(k)[f] IN Preselected(d, WriteField(d, Validated(k, docs)[f]))]

\* createValues: the fallback of every field but a text.
CreateValues(k) ==
  [f \in Fields(k) |-> LET d == Form(k)[f] IN Preselected(d, IF d.kind = "text" THEN "" ELSE Default(d))]

\* applyAddress and applyRepo: a choice beside the field is copied in; with
\* another value typed neither is taken, and the save is refused.
Agrees(k, typed, chosen) ==
  IF k = "code" THEN Fold(typed) = Fold(chosen) ELSE typed = HostOf(k, chosen)

\* Mutant: the choice is taken whatever is typed.
ConflictNever(k, values, from) == FALSE

Conflict(k, values, from) ==
  LET typed == Trim(values[Supplied(k)]) IN from # "" /\ typed # "" /\ ~Agrees(k, typed, from)

ApplyChoices(k, values, from) ==
  IF from = "" \/ Conflict(k, values, from) THEN values
  ELSE [f \in Fields(k) |->
          CASE f = Supplied(k) -> HostOf(k, from)
            [] f = "port" /\ HasPort(k, from) -> "1"
            [] OTHER -> values[f]]

\* deploymentProblems: a field that is not drawn here was sent all the same.
NotAllowed(k, values) == "any" \in Fields(k) \ DrawnFields(k) /\ values["any"]
-----------------------------------------------------------------------------
\* The vault item of a mapping: every item has a key, and a password until it
\* loses it.
Carries(item, selector) == selector = "password" => item \notin lost

CredentialFields(k, docs) ==
  {Validated(k, docs)[f] : f \in {g \in Fields(k) : Form(k)[g].picker # "no"}} \ {Absent, "null"}

\* fieldReport and credentialProblems: a field the item does not carry.
CredentialProblems(k, new) == \E s \in CredentialFields(k, new.docs) : ~Carries(new.item, s)

\* commandProblems and commandPolicyProblems: patterns or any command, never
\* both and never neither, and any command only where the deployment allows it.
CommandProblems(k, docs) ==
  /\ k \in {"ssh", "winrm"}
  /\ \/ docs.any = TRUE /\ ~anyAllowed
     \/ docs.any = TRUE <=> docs.commands # Absent

\* The schemas and the connector's own rules.
Rules(k, docs, internal) ==
  \/ \E f \in Required(k) : docs[f] = Absent
  \/ CommandProblems(k, docs)
  \/ k = "sql" /\ Validated(k, docs).tls = "verify" /\ docs.ca = Absent
  \/ k = "sql" /\ "write" \in Validated(k, docs).operations /\ "read" \notin Validated(k, docs).operations
  \/ k = "code" /\ internal

\* pinEndpoint: the host "lan" resolves to a private address.
Endpoints(k, docs, internal) == k # "code" /\ docs.host = "lan" /\ ~internal

\* Mutant: the rules of the connector are left to the form.
ProblemsOutside(k, new) ==
  \/ Endpoints(k, new.docs, new.internal)
  \/ CredentialProblems(k, new)

\* inspect
Problems(k, new) ==
  \/ Rules(k, new.docs, new.internal)
  \/ Endpoints(k, new.docs, new.internal)
  \/ CredentialProblems(k, new)
-----------------------------------------------------------------------------
NoRow == [revision |-> 0]
HasSavedRow == savedRow # NoRow
NoPage == [at |-> "closed"]

\* A form in the browser: what it holds, the choice beside a field, the item,
\* and whether the token's list is beside it.
OpenedForm(new, values, from, item, internal) ==
  [at |-> "form", new |-> new, values |-> values, from |-> from,
   item |-> item, internal |-> internal, typed |-> 0, listed |-> FALSE]

FormOpen(p) == page[p].at = "form"
Shown(p, f) == [page EXCEPT ![p] = f]

\* addressCandidates: the items have one login address each.
AddressOf(item) == IF item = "item1" THEN "db:1" ELSE "db2"

\* showCreate, after the kind and the item are chosen: with nothing typed the
\* item's address is preselected.
ShowCreate(p, item) ==
  /\ page[p] = NoPage /\ ~HasSavedRow /\ unlocked
  /\ page' = Shown(p, OpenedForm(TRUE, CreateValues(connector),
                             IF connector = "code" THEN "" ELSE AddressOf(item), item, FALSE))
  /\ UNCHANGED <<connector, savedRow, anyAllowed, lost, unlocked>>

\* showEdit, for the item in use or one just chosen
ShowEdit(p, item) ==
  /\ page[p] = NoPage /\ HasSavedRow /\ unlocked
  /\ page' = Shown(p, OpenedForm(FALSE, TargetValues(connector, savedRow.docs), "", item, savedRow.internal))
  /\ UNCHANGED <<connector, savedRow, anyAllowed, lost, unlocked>>

\* The words an operator types or chooses in a control.
FieldWords ==
  [auth |-> IF connector = "ssh" THEN {"key", "password"} ELSE {"negotiate", "basic"},
   mode |-> {"bearer", "header"}, tls |-> {"require", "verify"},
   content |-> SUBSET {"code", "docs"}, operations |-> SUBSET {"read", "write"},
   port |-> {"", "9"}, prefix |-> {"Token_", "_"}, repository |-> {"", "acme", "other"},
   host |-> {"", "db", "lan"}, pin |-> {"", "word"}, ref |-> {"", "word"}, ca |-> {"", "word"}]

Words(d, f) ==
  CASE d.kind = "boolean" -> BOOLEAN
    [] d.kind = "lines" -> {{}, {"list"}}
    [] d.picker = "none" -> {"password", "none", "sshKey"}
    [] d.picker = "fallback" -> {"password", "sshKey"}
    [] OTHER -> FieldWords[f]

Type(p, f) ==
  /\ FormOpen(p) /\ page[p].typed < TypedMax
  /\ f \in DrawnFields(connector)
  /\ \E w \in Words(Form(connector)[f], f) :
       /\ w # page[p].values[f]
       /\ page' = [page EXCEPT ![p].values[f] = w, ![p].typed = @ + 1]
  /\ UNCHANGED <<connector, savedRow, anyAllowed, lost, unlocked>>

\* The list beside the address or the repository, and the internal box.
Choose(p) ==
  /\ FormOpen(p) /\ page[p].typed < TypedMax
  /\ \/ \E from \in {"", IF connector = "code" THEN "Acme" ELSE AddressOf(page[p].item)} :
          /\ from # page[p].from
          /\ connector = "code" => page[p].listed
          /\ page' = [page EXCEPT ![p].from = from, ![p].typed = @ + 1]
     \/ /\ connector # "code"
        /\ page' = [page EXCEPT ![p].internal = ~@, ![p].typed = @ + 1]
  /\ UNCHANGED <<connector, savedRow, anyAllowed, lost, unlocked>>

Refused(p) ==
  \/ NotAllowed(connector, page[p].values)
  \/ Conflict(connector, page[p].values, page[p].from)

Applied(p) == ApplyChoices(connector, page[p].values, page[p].from)

\* The form again, with what was submitted and what was copied in.
Again(p, values, isListed) == [page[p] EXCEPT !.values = values, !.listed = isListed]

\* repoOffer: the token's repositories are listed on a check, with a token.
Listed(p) ==
  LET token == page[p].values["token"] IN token # "none" /\ Carries(page[p].item, token)

\* Check without saving: everything a save checks, and nothing is written.
CheckForm(p) ==
  /\ FormOpen(p) /\ unlocked
  /\ page' = Shown(p, Again(p, Applied(p), connector = "code" /\ Listed(p)))
  /\ page' # page
  /\ UNCHANGED <<connector, savedRow, anyAllowed, lost, unlocked>>

Submission(p) ==
  [docs |-> DocumentsFromForm(connector, Applied(p)), item |-> page[p].item,
   internal |-> page[p].internal]

\* create and update up to the checks: the gate, what a save refuses itself,
\* the row as it is before the checks.
Submit(p) ==
  /\ FormOpen(p) /\ unlocked
  /\ page[p].new \/ HasSavedRow
  /\ page' = IF Refused(p)
               THEN Shown(p, Again(p, Applied(p), FALSE))
               ELSE Shown(p, [at |-> "checking", new |-> page[p].new, sent |-> page[p].values,
                              from |-> page[p].from, submission |-> Submission(p),
                              before |-> savedRow, form |-> Again(p, Applied(p), FALSE)])
  /\ UNCHANGED <<connector, savedRow, anyAllowed, lost, unlocked>>

Close(p) == Shown(p, NoPage)

SameRow(before, new) ==
  before # NoRow /\ before.docs = new.docs /\ before.item = new.item /\ before.internal = new.internal

\* The checks are over: a problem shows the form again; an edit that changes
\* nothing of the row read before them writes nothing; a create whose name was
\* taken meanwhile fails.
SaveChecked(p) ==
  /\ page[p].at = "checking"
  /\ LET new == page[p].submission
         written == [revision |-> savedRow.revision + 1, docs |-> new.docs, item |-> new.item,
                     internal |-> new.internal]
     IN \/ /\ Problems(connector, new)
           /\ page' = Shown(p, page[p].form)
           /\ UNCHANGED savedRow
        \/ /\ ~Problems(connector, new)
           /\ page' = Close(p)
           /\ IF page[p].new = HasSavedRow \/ SameRow(page[p].before, new)
                THEN UNCHANGED savedRow
                ELSE savedRow.revision < SavesMax /\ savedRow' = written
  /\ UNCHANGED <<connector, anyAllowed, lost, unlocked>>

\* The operator closes the page, or a restart loses its request.
Leave(p) ==
  /\ page[p] # NoPage
  /\ page' = Close(p)
  /\ UNCHANGED <<connector, savedRow, anyAllowed, lost, unlocked>>

\* The deployment is started again with the other switch: the requests that
\* were being checked are lost, the forms in the browser are not.
RestartWith ==
  /\ anyAllowed' = ~anyAllowed
  /\ page' = [p \in FormPage |-> IF page[p].at = "checking" THEN NoPage ELSE page[p]]
  /\ UNCHANGED <<connector, savedRow, lost, unlocked>>

\* An item loses its password.
ItemChanges(i) ==
  /\ i \notin lost /\ lost' = lost \cup {i}
  /\ UNCHANGED <<connector, savedRow, anyAllowed, unlocked, page>>

\* ID-15: the window closes, or the password is confirmed again.
Window ==
  /\ unlocked' = ~unlocked
  /\ UNCHANGED <<connector, savedRow, anyAllowed, lost, page>>

FormsInit ==
  /\ connector \in FormKind
  /\ savedRow = NoRow /\ anyAllowed \in BOOLEAN /\ lost = {} /\ unlocked = TRUE
  /\ page = [p \in FormPage |-> NoPage]

FormsNext ==
  \/ \E p \in FormPage :
       \/ \E i \in VaultItem : ShowCreate(p, i) \/ ShowEdit(p, i)
       \/ \E f \in Fields(connector) : Type(p, f)
       \/ Choose(p) \/ CheckForm(p) \/ Submit(p) \/ SaveChecked(p) \/ Leave(p)
  \/ RestartWith \/ Window
  \/ \E i \in VaultItem : ItemChanges(i)

FormsSpec == FormsInit /\ [][FormsNext]_formVars
-----------------------------------------------------------------------------
FormsTypeOK ==
  /\ connector \in FormKind /\ anyAllowed \in BOOLEAN /\ unlocked \in BOOLEAN
  /\ lost \subseteq VaultItem
  /\ savedRow.revision \in 0..SavesMax
  /\ \A p \in FormPage : page[p].at \in {"closed", "form", "checking"}

\* A stored row is one its own schemas accept, whatever was typed, restarted
\* and changed elsewhere before it was saved; an unrestricted shell in it was
\* saved under the switch, so the switch alone may be missing now.
StoredValid ==
  HasSavedRow =>
    \/ ~Rules(connector, savedRow.docs, savedRow.internal)
    \/ connector \in {"ssh", "winrm"} /\ savedRow.docs.any = TRUE /\ ~anyAllowed

\* An edit form that nobody touched stores, if it can be saved, documents that
\* mean what the stored ones mean: what the form cannot show is not lost in it.
Untouched ==
  HasSavedRow =>
    LET docs == DocumentsFromForm(connector, TargetValues(connector, savedRow.docs)) IN
    Rules(connector, docs, savedRow.internal) \/ Validated(connector, docs) = Validated(connector, savedRow.docs)

FormsSafe == FormsTypeOK /\ StoredValid /\ Untouched

\* What the next edit form shows is what was submitted: every control in use
\* shows the words sent, without the spaces around them; one sent empty shows
\* its default; only the address, its port and the repository may come from
\* the choice beside them, and never against a word typed there.  A control
\* not in use, or not drawn here, holds nothing but its default.
SentShown(p) ==
  page[p].at = "checking" /\ savedRow' # savedRow /\ page'[p] = NoPage =>
    LET k == connector
        now == TargetValues(k, savedRow'.docs)
        sent == page[p].sent
    IN \A f \in Fields(k) :
         LET d == Form(k)[f] IN
         IF f \in DrawnFields(k) /\ IsActive(d, sent)
           THEN \/ now[f] = sent[f]
                \/ d.kind \notin {"lines", "set", "boolean"} /\ ~d.verbatim /\ now[f] = Trim(sent[f])
                \/ IF d.kind \in {"lines", "set"} THEN sent[f] = {} /\ now[f] = d.fallback
                   ELSE d.kind # "boolean" /\ Trim(sent[f]) = "" /\ now[f] \in {"", d.fallback}
                \/ f = Supplied(k) /\ page[p].from # "" /\ Trim(sent[f]) = "" /\ now[f] = HostOf(k, page[p].from)
                \/ f = "repository" /\ page[p].from # "" /\ Fold(now[f]) = Fold(sent[f])
                \/ f = "port" /\ HasPort(k, page[p].from) /\ now[f] = "1"
           ELSE savedRow'.docs[f] = Absent

ShownAgain == [][\A p \in FormPage : SentShown(p)]_formVars
=============================================================================
