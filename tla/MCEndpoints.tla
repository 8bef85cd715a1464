----------------------------- MODULE MCEndpoints -----------------------------
(* The server and what it answers to: its start and shutdown, the limiters, *)
(* the gates of /mcp and of the relay, and the authorization endpoint with  *)
(* its consent page, each on a small instance: "part" is the one that runs, *)
(* the others rest at one of their initial states.                          *)
EXTENDS ServerLife, RateLimits, EndpointGates, AuthorizeConsent, TLC

CONSTANTS t1, doc1, conf1, other
VARIABLE part

(* A bound configuration, one with the code connector, and ones that are refused for a value or for what two say together. *)
Plainly ==
  [key |-> "ok", url |-> "ok", file |-> "ok", code |-> "unset", listen |-> "unset", codeOn |-> FALSE, tags |-> FALSE, scoped |-> FALSE]
Environments ==
  {[Plainly EXCEPT !.listen = "one", !.tags = TRUE, !.scoped = s] : s \in BOOLEAN}
    \cup {[Plainly EXCEPT !.code = c, !.codeOn = TRUE, !.key = k] : c \in {"unset", "inside", "outside"}, k \in {"ok", "bad"}}
(* A release, the next one, and one whose second migration was edited. *)
ReleaseLists == {<<"a">>, <<"a", "b">>, <<"a", "b2", "c">>}

Granted == t1 :> {"read", "run"}
(* A tool to read, one that writes and reveals, and one for either of two scopes. *)
Needs == {[scopes |-> {"read"}, mode |-> "all"], [scopes |-> {"write", "reveal"}, mode |-> "all"],
          [scopes |-> {"run", "query"}, mode |-> "any"]}

(* A document of the client's own, and one that names another client. *)
UriA == [scheme |-> "https", host |-> "a", port |-> 1, clean |-> TRUE]
UriB == [scheme |-> "https", host |-> "b", port |-> 1, clean |-> TRUE]
Documents == {[owner |-> doc1, redirects |-> {UriA}, public |-> TRUE], [owner |-> other, redirects |-> {UriB}, public |-> TRUE]}
Uris == {UriA, UriB}
OwnUris == {UriB}

(* Bounds of the run: of the three keys of the limiters one at least is never dropped for room; the relay's listener is *)
(* not open yet where /mcp is asked, with which it shares nothing, so requests that overlap come through one door.      *)
FewDropped == Cardinality(evicted') <= 2
DoorOf(k) == IF k.at = "answered" THEN k.to.door ELSE k.door
OneDoor(calls) ==
  LET doors == {DoorOf(calls[c]) : c \in {d \in GateCall : calls[d].at # "idle"}}
  IN Cardinality(doors) <= 1 /\ ("mcp" \in doors \/ revokedHere' # {} => door' = "binding")
(* What a step leaves out that could change nothing a later step reads: the clock before the relay's first sync, the    *)
(* documents and their cache once no request may come any more, and the boxes that are ticked where consent is refused. *)
ClockCounts == relaySyncs = <<>> => gateClock' = gateClock
HostsRead == (\A i \in ClientIds : pending[i] # Nobody) => UNCHANGED <<hosted, cached>>
RefusesPlainly == \A v \in Visit : visits'[v].at = "body" => visits'[v].approve \/ visits'[v].ticked = {}

EndpointsInit ==
  /\ part \in {"server", "limits", "gates", "consent"}
  /\ IF part = "limits" THEN TRUE ELSE limiter = "bucket"
  /\ IF part = "gates" THEN TRUE ELSE interface = TRUE /\ tailnet = [n \in Peer |-> "member"]
  /\ IF part = "consent" THEN TRUE
     ELSE hosted = [c \in DocumentClient |-> CHOOSE d \in Documents : TRUE] /\ configured = {} /\ switchedOn = AnyScope
  /\ LifeInit /\ LimitsInit /\ GateInit /\ ConsentInit
EndpointsNext ==
  /\ UNCHANGED part
  /\ \/ part = "server" /\ LifeNext /\ UNCHANGED <<limitVars, gateVars, consentVars>>
     \/ part = "limits" /\ LimitsNext /\ FewDropped /\ UNCHANGED <<lifeVars, gateVars, consentVars>>
     \/ part = "gates" /\ GateNext /\ ClockCounts /\ OneDoor(gcall') /\ UNCHANGED <<lifeVars, limitVars, consentVars>>
     \/ part = "consent" /\ ConsentNext /\ HostsRead /\ RefusesPlainly /\ UNCHANGED <<lifeVars, limitVars, gateVars>>
EndpointsSpec == EndpointsInit /\ [][EndpointsNext]_<<part, lifeVars, limitVars, gateVars, consentVars>>

(* Requests are alike, at the gates and at the consent page, and so are browsers. *)
Symmetry == Permutations(GateCall) \cup Permutations(Browser)
=============================================================================
