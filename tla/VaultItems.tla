----------------------------- MODULE VaultItems -----------------------------
(***************************************************************************)
(* The vault's items as agents and the relay reach them: the gate of /mcp  *)
(* and the tools (src/mcp), the vault contract and its field edits         *)
(* (src/vault), the client over bw serve (src/bitwarden: vault-client,     *)
(* items, writes, api) and the relay's reads (src/relay: scope, handlers,  *)
(* item-body).  Every request to bw serve is a step of its own, so calls,  *)
(* the engine's write-back of a rotated secret and the operator interleave.*)
(***************************************************************************)
EXTENDS Integers, Subsequences

CONSTANTS
  Agent, ScopesOf,   \* the agents and the effective scopes of each one's token
  ItemCall,          \* the calls and relay requests in flight
  Patch,             \* the updates an agent may ask for
  FieldsAtFirst,     \* the custom fields of the item at first
  Missing, Purged,    \* no item, no field, no value, no edit; an item deleted for good
  Engine,            \* the actions engine, which writes rotated secrets back
  ItemMax, RevMax    \* bounds: items ever made and revisions

(* The vault's own values, in passwords and hidden fields, and the one the engine writes back; "own" in an update *)
(* stands for a value of the agent's choosing, which is written as the agent itself.                              *)
Secrets == {"kept", "changed", "stored", "sealed"}
Rotated == "rotated"
RotatedSet == [name |-> "token", kind |-> "any", value |-> Rotated]
FieldKinds == {"text", "hidden", "boolean", "linked"}
VisibleKinds == {"text", "boolean"}
ASSUME ItemsAssumption ==
  /\ ItemMax \in Nat \ {0} /\ RevMax \in Nat
  /\ Missing \notin {Purged, "own"} /\ Missing # RotatedSet
  /\ Agent \cap ({Missing, Purged, Engine, Rotated, "generated"} \cup Secrets) = {}
(* What an agent may ask for, and the item's first fields, hold no secret in a field that shows it. *)
ASSUME PatchAssumption ==
  \A p \in Patch :
    /\ DOMAIN p = {"password", "renamed", "set", "rename", "remove"}
    /\ p.password \in {"none", "explicit", "generate", "both"} /\ p.renamed \in BOOLEAN
    /\ p.set # Missing =>
         /\ DOMAIN p.set = {"name", "kind", "value"} /\ p.set.kind \in FieldKinds \cup {"any"}
         /\ p.set.value \notin Agent \cup Secrets \cup {Rotated}
ASSUME FieldsAssumption ==
  /\ FieldsAtFirst \in Seq({FieldsAtFirst[i] : i \in DOMAIN FieldsAtFirst})
  /\ \A i \in DOMAIN FieldsAtFirst :
       /\ DOMAIN FieldsAtFirst[i] = {"name", "kind", "value"} /\ FieldsAtFirst[i].kind \in FieldKinds
       /\ FieldsAtFirst[i].value \notin Agent \cup {Rotated}
       /\ FieldsAtFirst[i].kind \in VisibleKinds => FieldsAtFirst[i].value \notin Secrets

VARIABLES
  items,      \* what bw serve holds: id -> item or Missing
  revision,   \* the last revision given
  icalls,     \* the calls in flight
  shown,      \* the last answer to an agent: whom, and the values in it
  loose       \* history: whether the engine's field was ever one that shows its value
heldVars == <<items, revision, loose>>
itemVars == <<heldVars, icalls, shown>>
ItemIds == 1..ItemMax
Held(i) == items[i] \notin {Missing, Purged}
Quiet == shown' = Missing

(* Summaries carry everything but the secret values. *)
SummariseWhole(item) == {item.fields[i].value : i \in DOMAIN item.fields} \cup {item.password}
Summarise(item) == {item.fields[i].value : i \in {j \in DOMAIN item.fields : item.fields[j].kind \in VisibleKinds}}
ReadVisible(item) == Summarise(item) \ {Missing}

(* What a call needs of its token. *)
ToolScope(tool) ==
  CASE tool \in {"get_item", "search_items", "vault_status"} -> "read"
    [] tool = "get_secret" -> "reveal"
    [] tool = "generate_password" -> "generate"
    [] OTHER -> "write"
IsSecretFieldValue(set) == set # Missing /\ set.value # Missing /\ set.kind \notin VisibleKinds
RequiredByTool(tool, p) == {ToolScope(tool)}
RequiredScopes(tool, p) ==
  {ToolScope(tool)} \cup
    IF \/ tool \in {"create_item", "update_item"} /\ p.password \in {"explicit", "both"}
       \/ tool = "update_item" /\ IsSecretFieldValue(p.set)
    THEN {"reveal"} ELSE {}

(* Custom-field edits: the plan, or why it cannot apply. *)
Named(fields, name) == {i \in DOMAIN fields : fields[i].name = name}
NamesOf(p) == (IF p.set = Missing THEN <<>> ELSE <<p.set.name>>)
  \o (IF p.rename = Missing THEN <<>> ELSE <<p.rename.from, p.rename.to>>) \o (IF p.remove = Missing THEN <<>> ELSE <<p.remove>>)
NamedIn(p) == (IF p.set = Missing THEN {} ELSE {p.set.name})
  \cup (IF p.rename = Missing THEN {} ELSE {p.rename.from, p.rename.to}) \cup (IF p.remove = Missing THEN {} ELSE {p.remove})
NamedTwice(p) == \E i, j \in DOMAIN NamesOf(p) : i # j /\ NamesOf(p)[i] = NamesOf(p)[j]
RemoveHolds(fields, p) == p.remove # Missing => Cardinality(Named(fields, p.remove)) = 1
RenameHolds(fields, p) ==
  p.rename # Missing => Cardinality(Named(fields, p.rename.from)) = 1 /\ Named(fields, p.rename.to) = {}
KindOf(fields, set) ==
  IF Named(fields, set.name) = {} THEN IF set.kind = "any" THEN "hidden" ELSE set.kind
  ELSE fields[CHOOSE i \in Named(fields, set.name) : TRUE].kind
SetAnyKind(fields, p) == p.set # Missing => Cardinality(Named(fields, p.set.name)) <= 1
SetHolds(fields, p) ==
  p.set # Missing =>
    /\ Cardinality(Named(fields, p.set.name)) <= 1
    /\ p.set.kind \in {"any", KindOf(fields, p.set)}
    /\ KindOf(fields, p.set) # "linked"
    /\ KindOf(fields, p.set) = "boolean" => p.set.value \in {"true", "false"}
PlanHolds(fields, p) == ~NamedTwice(p) /\ RemoveHolds(fields, p) /\ RenameHolds(fields, p) /\ SetHolds(fields, p)
EditedRebuilt(f, p) == IF p.rename # Missing /\ f.name = p.rename.from THEN [name |-> p.rename.to, kind |-> "text", value |-> f.value] ELSE f
EditedField(f, p) ==
  IF p.rename # Missing /\ f.name = p.rename.from THEN [f EXCEPT !.name = p.rename.to]
    ELSE IF p.set # Missing /\ f.name = p.set.name THEN [f EXCEPT !.value = p.set.value]
    ELSE f
Left(fields, p) == {i \in DOMAIN fields : p.remove = Missing \/ fields[i].name # p.remove}
WithFieldEdits(fields, p) ==
  LET kept == Kept(fields, Left(fields, p))
  IN [i \in DOMAIN kept |-> EditedField(kept[i], p)]
       \o IF p.set # Missing /\ Named(fields, p.set.name) = {}
          THEN <<[name |-> p.set.name, kind |-> KindOf(fields, p.set), value |-> p.set.value]>> ELSE <<>>

(* The bodies written: the item as it was read, with the patch over it. *)
LoginWhole(raw, password) == password
LoginKept(raw, password) == IF password = Missing THEN raw.password ELSE password
PatchedBody(raw, p, password) ==
  [raw EXCEPT !.fields = WithFieldEdits(@, p), !.password = LoginKept(raw, password), !.label = IF p.renamed THEN "patched" ELSE @]
PatchedFields(raw, name, value) ==
  IF Named(raw.fields, name) = {} THEN [raw EXCEPT !.fields = Append(@, [name |-> name, kind |-> "hidden", value |-> value])]
  ELSE [raw EXCEPT !.fields = [i \in DOMAIN @ |-> IF @[i].name = name THEN [@[i] EXCEPT !.value = value] ELSE @[i]]]
NewItemBody(password) == [fields |-> <<>>, password |-> password, label |-> "new", trashed |-> FALSE, listed |-> FALSE, rev |-> 0]

(* Where the patch leaves an item it was not given to: the parts of two items it does not name that differ. *)
Unnamed(fields, p) == {i \in DOMAIN fields : fields[i].name \notin NamedIn(p)}
Surplus(before, after, p) ==
  \/ ~p.renamed /\ before.label # after.label
  \/ p.password = "none" /\ before.password # after.password
  \/ before.trashed # after.trashed \/ before.listed # after.listed
  \/ Kept(before.fields, Unnamed(before.fields, p)) # Kept(after.fields, Unnamed(after.fields, p))

(* Item 1 holds the credential of a target, in its field "token". *)
Exposes(i, item) == i = 1 /\ \E j \in DOMAIN item.fields : item.fields[j].name = "token" /\ item.fields[j].kind \in VisibleKinds
FirstItem == [fields |-> FieldsAtFirst, password |-> "kept", label |-> "first", trashed |-> FALSE, listed |-> TRUE, rev |-> 0]
IdleItem == [at |-> "idle"]
NoPatch == [password |-> "none", renamed |-> FALSE, set |-> Missing, rename |-> Missing, remove |-> Missing]
ItemsInit ==
  /\ items = [i \in ItemIds |-> IF i = 1 THEN FirstItem ELSE Missing] /\ loose = Exposes(1, FirstItem)
  /\ revision = 0 /\ icalls = [c \in ItemCall |-> IdleItem] /\ shown = Missing

(* What one request to bw serve comes to: an answer, or nothing within its bound; a write may have been made all the same. *)
ItemOver(c) == icalls' = [icalls EXCEPT ![c] = IdleItem]
Unanswered(c) == icalls[c].at # "idle" /\ ItemOver(c) /\ UNCHANGED heldVars /\ Quiet
Store(i, item) ==
  items' = [items EXCEPT ![i] = [item EXCEPT !.rev = revision + 1]] /\ revision' = revision + 1 /\ loose' = (loose \/ Exposes(i, item))
Await(c, i) == icalls' = [icalls EXCEPT ![c] = [at |-> "poll", by |-> @.by, tool |-> @.tool, id |-> i, rev |-> revision + 1, spent |-> FALSE]]
Learns(a, values) == shown' = [to |-> a, values |-> values \ {Missing}]

OwnValue(a, p) == IF p.set # Missing /\ p.set.value = "own" THEN [p EXCEPT !.set.value = a] ELSE p

(* What a tool is given besides the item: a new item has a password and no field edits. *)
Asked(tool) ==
  CASE tool = "update_item" -> Patch
    [] tool = "create_item" -> {[NoPatch EXCEPT !.password = p.password] : p \in Patch}
    [] OTHER -> {NoPatch}

(* tools/call: the scope gate, then the tool. *)
ToolCall(c) ==
  /\ icalls[c].at = "idle"
  /\ \E a \in Agent, tool \in {"get_item", "get_secret", "generate_password", "create_item", "update_item", "trash_item"} :
     \E i \in IF tool \in {"create_item", "generate_password"} THEN {1} ELSE {j \in ItemIds : Held(j)}, p \in Asked(tool) :
       /\ RequiredScopes(tool, p) \subseteq ScopesOf[a]
       /\ icalls' = [icalls EXCEPT ![c] = [at |-> IF tool \in {"create_item", "update_item"} THEN "password" ELSE tool, by |-> a, tool |-> tool,
                                           id |-> i, patch |-> OwnValue(a, p), password |-> Missing, raw |-> Missing]]
  /\ UNCHANGED heldVars /\ Quiet
GetItem(c) ==
  LET k == icalls[c] IN
  /\ k.at = "get_item" /\ ItemOver(c)
  /\ (IF Held(k.id) THEN Learns(k.by, ReadVisible(items[k.id])) ELSE Quiet)
  /\ UNCHANGED heldVars
GetSecret(c) ==
  LET k == icalls[c] IN
  /\ k.at = "get_secret" /\ ItemOver(c)
  /\ IF ~Held(k.id) THEN Quiet
     ELSE \E v \in {items[k.id].password} \cup {items[k.id].fields[j].value : j \in DOMAIN items[k.id].fields} : Learns(k.by, {v})
  /\ UNCHANGED heldVars
GeneratePassword(c) ==
  /\ icalls[c].at = "generate_password" /\ ItemOver(c) /\ Learns(icalls[c].by, {"generated"})
  /\ UNCHANGED heldVars
ResolvePassword(c) ==
  LET k == icalls[c] IN
  /\ k.at = "password" /\ UNCHANGED heldVars /\ Quiet
  /\ IF k.patch.password = "both" THEN ItemOver(c)
     ELSE icalls' = [icalls EXCEPT ![c].at = IF k.tool = "create_item" THEN "post" ELSE "read",
                                   ![c].password = CASE k.patch.password = "explicit" -> k.by
                                                     [] k.patch.password = "generate" -> "stored" [] OTHER -> Missing]

(* create_item: the new item, then the wait for its revision. *)
PostItem(c) ==
  LET k == icalls[c] IN
  /\ k.at = "post" /\ revision < RevMax
  /\ \E i \in ItemIds :
       /\ items[i] = Missing /\ (\A j \in ItemIds : items[j] = Missing => i <= j)
       /\ Store(i, NewItemBody(k.password))
       /\ Await(c, i) \/ ItemOver(c)
  /\ Quiet

(* update_item and the engine's write-back: read, plan, write the whole item, wait for the revision. *)
RotateStart(c) ==
  /\ icalls[c].at = "idle"
  /\ icalls' = [icalls EXCEPT ![c] = [at |-> "read", by |-> Engine, tool |-> "rotate", id |-> 1, patch |-> NoPatch,
                                      password |-> Missing, raw |-> Missing]]
  /\ UNCHANGED heldVars /\ Quiet
ReadItem(c) ==
  LET k == icalls[c] IN
  /\ k.at = "read" /\ UNCHANGED heldVars /\ Quiet
  /\ IF Held(k.id) /\ PlanHolds(items[k.id].fields, k.patch)
     THEN icalls' = [icalls EXCEPT ![c].at = "put", ![c].raw = items[k.id]]
     ELSE ItemOver(c)
Body(k) == IF k.by = Engine THEN PatchedFields(k.raw, "token", Rotated) ELSE PatchedBody(k.raw, k.patch, k.password)
GivenTo(k) == IF k.by = Engine THEN [NoPatch EXCEPT !.set = RotatedSet] ELSE k.patch
PutItem(c) ==
  LET k == icalls[c] IN
  /\ k.at = "put"
  /\ IF ~Held(k.id) THEN ItemOver(c) /\ UNCHANGED heldVars
     ELSE revision < RevMax /\ Store(k.id, Body(k)) /\ (Await(c, k.id) \/ ItemOver(c))
  /\ Quiet
DeleteItem(c) ==
  LET k == icalls[c] IN
  /\ k.at = "trash_item"
  /\ IF ~Held(k.id) THEN ItemOver(c) /\ UNCHANGED heldVars
     ELSE /\ revision < RevMax
          /\ Store(k.id, [items[k.id] EXCEPT !.trashed = TRUE])
          /\ Await(c, k.id) \/ ItemOver(c)
  /\ Quiet

(* The wait: the revision, a trashed item, or the last thing seen when the budget is spent. *)
IsSettled(k, seen) ==
  CASE seen \in {Missing, Purged} -> FALSE
    [] k.tool = "trash_item" -> seen.trashed
    [] OTHER -> seen.rev = k.rev
BudgetNever(k) == FALSE
Budget(k) == ~k.spent
PollDeadline(c) ==
  /\ icalls[c].at = "poll" /\ Budget(icalls[c])
  /\ icalls' = [icalls EXCEPT ![c].spent = TRUE] /\ UNCHANGED heldVars /\ Quiet
Poll(c) ==
  LET k == icalls[c] IN
  /\ k.at = "poll"
  /\ \E seen \in {items[k.id]} \cup IF k.tool = "create_item" THEN {Missing} ELSE {} :
       /\ IsSettled(k, seen) \/ k.spent
       /\ IF seen \in {Missing, Purged} \/ k.by = Engine \/ k.tool = "trash_item" THEN Quiet ELSE Learns(k.by, ReadVisible(seen))
  /\ ItemOver(c) /\ UNCHANGED heldVars

(* The relay: the lookup, filtered to the scope, then the secrets of what it found, in requests of their own. *)
IsListedOnly(item) == item.listed
IsInScope(item) == ~item.trashed /\ item.listed
RelayLookUp(c) ==
  /\ icalls[c].at = "idle" /\ UNCHANGED heldVars /\ Quiet
  /\ \E i \in ItemIds :
       /\ Held(i) /\ IsInScope(items[i])
       /\ icalls' = [icalls EXCEPT ![c] = [at |-> "reveal", id |-> i, summary |-> items[i]]]
RelayReveal(c) ==
  icalls[c].at = "reveal" /\ ItemOver(c) /\ UNCHANGED heldVars /\ Quiet

(* The operator, in a Bitwarden client. *)
OperatorEdits ==
  /\ revision < RevMax
  /\ \E i \in ItemIds :
       /\ Held(i)
       /\ \/ Store(i, [items[i] EXCEPT !.listed = ~@])
          \/ Store(i, [items[i] EXCEPT !.password = "changed"])
          \/ items[i].trashed /\ items' = [items EXCEPT ![i] = Purged] /\ revision' = revision + 1 /\ UNCHANGED loose
  /\ UNCHANGED icalls /\ Quiet

ItemStep(c) ==
  \/ GetItem(c) \/ GetSecret(c) \/ GeneratePassword(c) \/ ResolvePassword(c) \/ PostItem(c) \/ ReadItem(c)
  \/ PutItem(c) \/ DeleteItem(c) \/ PollDeadline(c) \/ Poll(c) \/ RelayReveal(c)
ItemsNext == OperatorEdits \/ \E c \in ItemCall : ToolCall(c) \/ RotateStart(c) \/ RelayLookUp(c) \/ ItemStep(c) \/ Unanswered(c)
ItemsSpec == ItemsInit /\ [][ItemsNext]_itemVars

(* Properties. *)
ItemsTypeOK ==
  /\ revision \in 0..RevMax /\ (shown # Missing => shown.to \in Agent)
  /\ \A c \in ItemCall : icalls[c].at \in {"idle", "get_item", "get_secret", "generate_password", "password", "post", "read", "put", "trash_item", "poll", "reveal"}
(* An agent without vault:reveal is never shown a value the vault keeps secret, by whatever sequence of edits, renames *)
(* and reads; nor a rotated one, unless an update has given the engine's field a kind that shows it, which the engine  *)
(* keeps when it writes.                                                                                               *)
Withheld == Secrets \cup IF loose THEN {} ELSE {Rotated}
KnowsNoSecret == shown # Missing /\ "reveal" \notin ScopesOf[shown.to] => shown.values \cap Withheld = {}
(* Nor does a value of its choosing ever end up as a password or in a hidden field. *)
WritesNoSecret ==
  \A a \in Agent : "reveal" \notin ScopesOf[a] =>
    \A i \in ItemIds : Held(i) =>
      /\ items[i].password # a
      /\ \A j \in DOMAIN items[i].fields : items[i].fields[j].value = a => items[i].fields[j].kind \in VisibleKinds
(* What the relay is about to disclose was live and in the relay's folder when it was looked up. *)
DisclosesScope == \A c \in ItemCall : icalls[c].at = "reveal" => icalls[c].summary.listed /\ ~icalls[c].summary.trashed
(* Those and the types, as one invariant of the module. *)
ItemsSafe == ItemsTypeOK /\ KnowsNoSecret /\ WritesNoSecret /\ DisclosesScope
(* An update changes what it was not given only when another write came between its read and its write: the whole *)
(* item goes back, read and written in two requests with nothing between them that would refuse.                  *)
OverwritesOnlyRaced ==
  [][\A c \in ItemCall :
       LET k == icalls[c] IN
       k.at = "put" /\ icalls'[c].at # "put" /\ Held(k.id) /\ items'[k.id] # items[k.id] /\ Surplus(items[k.id], items'[k.id], GivenTo(k))
         => items[k.id].rev # k.raw.rev]_itemVars
(* bw serve answers or the call to it times out, and the timer of a poll fires. *)
ItemFairness ==
  \A c \in ItemCall :
    /\ WF_itemVars(ItemStep(c))
    /\ WF_itemVars(icalls[c].at \in {"post", "put", "trash_item"} /\ Unanswered(c))
(* Every call and every relay request ends, the wait for a revision at its budget. *)
ItemCallsEnd == \A c \in ItemCall : icalls[c].at # "idle" ~> icalls[c].at = "idle"
=============================================================================
