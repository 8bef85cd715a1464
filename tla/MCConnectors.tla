---------------------------- MODULE MCConnectors ----------------------------
(* The rules a call is judged by, the connectors that carry it out, the     *)
(* forms their targets are edited in and the vault items they take their    *)
(* credentials from, each on a small instance: "part" is the one that runs, *)
(* the others rest at one of their initial states.                          *)
EXTENDS ActionRules, Connectors, TargetForms, VaultItems, TLC

VARIABLE part

(* A token from Graph's host or any other, a fixed token on a pinned host, and documents no save accepts. *)
HttpDocument(mode, grant, trust, follow) ==
  [mode |-> mode, grant |-> grant, trust |-> trust, tls |-> TRUE, internal |-> FALSE, origin |-> "graph",
   queryAllowed |-> TRUE, refreshField |-> grant = "refresh_token", follow |-> follow]
HttpDocuments == {
  HttpDocument("graph", "refresh_token", "store", FALSE), HttpDocument("oauth2", "client_credentials", "pin", TRUE),
  HttpDocument("bearer", "none", "ca", TRUE), HttpDocument("bearer", "none", "both", TRUE)}
HttpOperations ==
  [method : {"GET", "POST", "PUT"}, path : {"allowed", "denied"}, header : {"listed"}, body : {"text"}]

SqlDocuments ==
  [engine : {"postgres", "mssql"}, tls : {"disable", "require", "verify-full"}, ca : BOOLEAN, named : BOOLEAN,
   operations : SUBSET {"read", "write"}, classes : SUBSET {"dml", "ddl"}]
SqlStatements ==
  {s \in [tool : {"sql_query", "sql_execute"}, class : {"read", "dml", "ddl", "other", "two"},
          bound : BOOLEAN, listed : BOOLEAN, writes : BOOLEAN, exact : BOOLEAN] : s.class = "dml" => s.writes}

ShellDocuments ==
  [kind : {"ssh"}, hostKey : {"pinned", "unparsed"}, any : BOOLEAN, patterns : BOOLEAN, allowAny : BOOLEAN,
   auth : {"key"}, tls : {FALSE}, pin : {FALSE}]
  \cup [kind : {"winrm"}, hostKey : {"pinned"}, any : BOOLEAN, patterns : BOOLEAN, allowAny : BOOLEAN,
        auth : {"negotiate", "basic"}, tls : BOOLEAN, pin : BOOLEAN]
ShellCommands == [long : BOOLEAN, breaks : BOOLEAN, meta : BOOLEAN, listed : BOOLEAN, stdin : BOOLEAN]

AnySqlDocument == CHOOSE d \in SqlDocuments : SqlSavable(d)
AnySqlStatement == CHOOSE s \in SqlStatements : TRUE
AnyShellDocument == CHOOSE d \in ShellDocuments : ShellSavable(d)
AnyShellCommand == CHOOSE c \in ShellCommands : TRUE

(* Agents without and with vault:reveal, and the engine, which may do anything. *)
Scopes == "plain" :> {"read", "write", "generate"} @@ "trusted" :> {"read", "write", "reveal"}
ItemFields == <<[name |-> "token", kind |-> "hidden", value |-> "sealed"], [name |-> "note", kind |-> "text", value |-> "shown"]>>
Edits(password, renamed, set, rename, remove) ==
  [password |-> password, renamed |-> renamed, set |-> set, rename |-> rename, remove |-> remove]
(* The name with a generated password, an explicit password, and each kind of edit of a custom field. *)
Patches == {
  Edits("generate", TRUE, Missing, Missing, Missing),
  Edits("explicit", FALSE, Missing, Missing, Missing),
  Edits("none", FALSE, Missing, [from |-> "token", to |-> "note"], Missing),
  Edits("none", FALSE, Missing, [from |-> "token", to |-> "spare"], Missing),
  Edits("none", FALSE, Missing, Missing, "note"),
  Edits("none", FALSE, [name |-> "token", kind |-> "text", value |-> "own"], Missing, Missing),
  Edits("none", FALSE, [name |-> "note", kind |-> "text", value |-> "own"], Missing, Missing)}

(* What a step of the run leaves out: it could change nothing that a later step of the run still reads. *)
\* A save is for the calls to come, and a token ages for the calls that are not over.
WorldInTime ==
  /\ (\A c \in HttpCall : hcalls[c].at # "idle") => documentRevision' = documentRevision
  /\ (\A c \in HttpCall : hcalls[c].at = "done") => UNCHANGED cache
\* An update comes, and a form is opened, while a revision or a save is left to make.
WritesLeft == revision = RevMax => \A c \in ItemCall : icalls[c].at = "idle" => icalls'[c].at \notin {"password", "read", "trash_item"}
SavesLeft == savedRow.revision = SavesMax => \A p \in FormPage : page[p] = NoPage => page'[p] = NoPage
(* Of two calls that overlap, one goes first: an HTTP call that waits for a name or for its destination, which is no *)
(* other call's business, and a call on an item before it holds anything of it, which might as well have come later. *)
LocalFirst(calls, next, over, local) ==
  LET ready == {c \in DOMAIN calls : calls[c].at \in local}
  IN ready # {} /\ (\A c \in DOMAIN calls : calls[c].at \notin over) => \E c \in ready : next[c] # calls[c]
HttpFirst == LocalFirst(hcalls, hcalls', {"idle", "done"}, {"resolve", "send", "hop"})
ItemFirst ==
  LocalFirst(icalls, icalls', {"idle"}, {"get_item", "get_secret", "generate_password", "password", "read", "post", "trash_item", "reveal"})

ConnectorsInit ==
  /\ part \in {"rules", "http", "sql", "shell", "forms", "items"}
  /\ IF part = "http" THEN TRUE ELSE document = HttpDocument("bearer", "none", "ca", TRUE) /\ habit = "keeps"
  /\ IF part = "sql" THEN TRUE ELSE sqlDoc = AnySqlDocument /\ statement = AnySqlStatement
  /\ IF part = "shell" THEN TRUE ELSE shellDoc = AnyShellDocument /\ ask = AnyShellCommand
  /\ IF part = "forms" THEN TRUE ELSE connector = "ssh" /\ anyAllowed = FALSE
  /\ RulesInit /\ HttpInit /\ SqlInit /\ ShellInit /\ FormsInit /\ ItemsInit
ConnectorsNext ==
  /\ UNCHANGED part
  /\ \/ part = "rules" /\ RulesNext /\ UNCHANGED <<httpVars, sqlVars, shellVars, formVars, itemVars>>
     \/ part = "http" /\ HttpNext /\ WorldInTime /\ HttpFirst /\ UNCHANGED <<input, sqlVars, shellVars, formVars, itemVars>>
     \/ part = "sql" /\ SqlNext /\ UNCHANGED <<input, httpVars, shellVars, formVars, itemVars>>
     \/ part = "shell" /\ ShellNext /\ UNCHANGED <<input, httpVars, sqlVars, formVars, itemVars>>
     \/ part = "forms" /\ FormsNext /\ SavesLeft /\ UNCHANGED <<input, httpVars, sqlVars, shellVars, itemVars>>
     \/ part = "items" /\ ItemsNext /\ WritesLeft /\ ItemFirst /\ UNCHANGED <<input, httpVars, sqlVars, shellVars, formVars>>
ConnectorsSpec ==
  ConnectorsInit /\ [][ConnectorsNext]_<<part, input, httpVars, sqlVars, shellVars, formVars, itemVars>>

Symmetry == Permutations(HttpCall) \cup Permutations(ItemCall)
=============================================================================
