----------------------------- MODULE MCServeEnds ----------------------------
(* What a connector opened is closed and its call answered; whoever waits   *)
(* on the server is answered, a reader of the trail comes to the end, and a *)
(* signalled process goes.  Small instances, as in MCWorkEnds.              *)
EXTENDS HttpConnector, SqlConnector, ShellConnectors, AuthorizeConsent, EndpointGates, ServerLife, AuditTrail, TLC

CONSTANTS t1, doc1, dyn1, other
VARIABLE part

HttpDocuments == {
  [mode |-> m, grant |-> IF m = "graph" THEN "refresh_token" ELSE "none", trust |-> "store", tls |-> TRUE, internal |-> FALSE,
   origin |-> "graph", queryAllowed |-> TRUE, refreshField |-> m = "graph", follow |-> m # "graph"] : m \in {"graph", "bearer"}}
HttpOperations == [method : {"GET", "POST"}, path : {"allowed"}, header : {"listed"}, body : {"text"}]
SqlDocuments ==
  [engine : {"postgres", "mssql"}, tls : {"require"}, ca : {FALSE}, named : {TRUE}, operations : {{"read", "write"}}, classes : {{"dml"}}]
SqlStatements ==
  [tool : {"sql_query", "sql_execute"}, class : {"read", "dml"}, bound : {TRUE}, listed : {TRUE}, writes : BOOLEAN, exact : {TRUE}]
ShellDocuments ==
  [kind : {"ssh", "winrm"}, hostKey : {"pinned"}, any : {FALSE}, patterns : {TRUE}, allowAny : {FALSE},
   auth : {"negotiate", "basic"}, tls : {TRUE}, pin : {FALSE}]
ShellCommands == [long : {FALSE}, breaks : {FALSE}, meta : {FALSE}, listed : {TRUE}, stdin : BOOLEAN]

UriA == [scheme |-> "https", host |-> "a", port |-> 1, clean |-> TRUE]
UriB == [scheme |-> "https", host |-> "b", port |-> 1, clean |-> TRUE]
Documents == {[owner |-> doc1, redirects |-> {UriA}, public |-> TRUE], [owner |-> other, redirects |-> {UriB}, public |-> TRUE]}
Uris == {UriA, UriB, [UriA EXCEPT !.clean = FALSE]}
OwnUris == {UriB}
GrantedHere == t1 :> {"read", "run"}
Needs == {[scopes |-> {"read"}, mode |-> "all"], [scopes |-> {"run", "query"}, mode |-> "any"]}

Plainly ==
  [key |-> "ok", url |-> "ok", file |-> "ok", code |-> "unset", listen |-> "unset", codeOn |-> FALSE, tags |-> FALSE, scoped |-> FALSE]
Environments == {Plainly, [Plainly EXCEPT !.key = "bad"]}
ReleaseLists == {<<"a">>, <<"a", "b">>, <<"a", "b2", "c">>}

AnySqlDocument == CHOOSE d \in SqlDocuments : SqlSavable(d)
AnySqlStatement == CHOOSE s \in SqlStatements : TRUE
AnyShellDocument == CHOOSE d \in ShellDocuments : ShellSavable(d)
AnyShellCommand == CHOOSE c \in ShellCommands : TRUE
EndsInit ==
  /\ part \in {"http", "sql", "shell", "consent", "gates", "server", "trail"}
  /\ IF part = "http" THEN TRUE ELSE document = (CHOOSE d \in HttpDocuments : d.mode = "bearer") /\ habit = "echoes"
  /\ IF part = "sql" THEN TRUE ELSE sqlDoc = AnySqlDocument /\ statement = AnySqlStatement
  /\ IF part = "shell" THEN TRUE ELSE shellDoc = AnyShellDocument /\ ask = AnyShellCommand
  /\ IF part = "gates" THEN TRUE ELSE interface = FALSE /\ tailnet = [n \in Peer |-> "member"]
  /\ IF part = "consent" THEN TRUE
     ELSE hosted = [c \in DocumentClient |-> CHOOSE d \in Documents : TRUE] /\ configured = {} /\ switchedOn = AnyScope
  /\ HttpInit /\ SqlInit /\ ShellInit /\ ConsentInit /\ GateInit /\ LifeInit /\ TrailInit

(* What the run leaves out of the consent page: a ticked box of a consent that is refused, a document or a cache that  *)
(* changes once nobody may ask any more, a registration of other URIs than one, and a restart that interrupts nobody. *)
RefusesPlainly == \A v \in Visit : visits'[v].at = "body" => visits'[v].approve \/ visits'[v].ticked = {}
HostsRead == (\A i \in ClientIds : pending[i] # Nobody) => UNCHANGED <<hosted, cached>>
OneRegisters == \A c \in DynamicClient : clientRows'[c] # Nobody => clientRows'[c].redirects = {UriA}
RestartsAmid == restarts' # restarts => \E v \in Visit : visits[v].at # "idle"

(* And of the gates: a node whose standing changes while nobody asks for it. *)
StandingAsked == tailnet' # tailnet => \E c \in GateCall : gcall[c].at = "whois"

HttpGoes == part = "http" /\ HttpNext /\ UNCHANGED <<sqlVars, shellVars, consentVars, gateVars, lifeVars, trailVars>>
SqlGoes == part = "sql" /\ SqlNext /\ UNCHANGED <<httpVars, shellVars, consentVars, gateVars, lifeVars, trailVars>>
ShellGoes == part = "shell" /\ ShellNext /\ UNCHANGED <<httpVars, sqlVars, consentVars, gateVars, lifeVars, trailVars>>
ConsentGoes == part = "consent" /\ ConsentNext /\ HostsRead /\ RefusesPlainly /\ OneRegisters /\ RestartsAmid /\ UNCHANGED <<httpVars, sqlVars, shellVars, gateVars, lifeVars, trailVars>>
GatesGo == part = "gates" /\ GateNext /\ StandingAsked /\ UNCHANGED <<httpVars, sqlVars, shellVars, consentVars, lifeVars, trailVars>>
ServerGoes == part = "server" /\ LifeNext /\ UNCHANGED <<httpVars, sqlVars, shellVars, consentVars, gateVars, trailVars>>
TrailGoes == part = "trail" /\ TrailNext /\ UNCHANGED <<httpVars, sqlVars, shellVars, consentVars, gateVars, lifeVars>>
EndsNext == UNCHANGED part /\ (HttpGoes \/ SqlGoes \/ ShellGoes \/ ConsentGoes \/ GatesGo \/ ServerGoes \/ TrailGoes)

(* The listener of the gates and their clock would go on while another part runs. *)
DoorFairness == WF_gateVars(part = "gates" /\ DoorStep) /\ WF_gateVars(part = "gates" /\ GateTick)
EndsSpec ==
  /\ EndsInit /\ [][EndsNext]_<<part, httpVars, sqlVars, shellVars, consentVars, gateVars, lifeVars, trailVars>>
  /\ HttpFairness /\ SqlFairness /\ ShellFairness /\ ConsentFairness /\ GateFairness /\ DoorFairness /\ LifeFairness /\ TrailFairness

(* Calls of the connectors, requests to the gates and the consent page, a shutdown and a reading all end, whatever the *)
(* destination, the daemon and the client do.                                                                         *)
ServeEnds == HttpCallsEnd /\ SqlEnds /\ ShellCallsEnd /\ VisitsEnd /\ GatesAnswer /\ ShutdownEnds /\ ReadersEnd
=============================================================================
