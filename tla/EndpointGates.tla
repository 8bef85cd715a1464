----------------------------- MODULE EndpointGates -----------------------------
(***************************************************************************)
(* The two doors agents come through: the credential relay on its tailnet  *)
(* listener (src/relay: app, whois, handlers, sync, listener) and /mcp     *)
(* (src/mcp: request-guards, bearer, challenges, scopes, routes).  Every   *)
(* await of a request is a step boundary: the tailnet's answer, the token  *)
(* lookup, the body, the vault.  What the vault holds is in VaultItems and *)
(* how the limiters count in RateLimits; here they answer either way.      *)
(***************************************************************************)
EXTENDS Integers, FiniteSets, Sequences, TLC

CONSTANTS
  Peer,                      \* the tailnet's nodes
  Bearer, GrantedTo,         \* access tokens and the scopes each one carries
  EnabledHere,               \* the scopes this deployment enables
  Need,                      \* what a tool asks for: [scopes, mode]
  GateCall,                  \* requests in flight
  RelayListMax,              \* MAX_LIST_ITEMS
  SyncEvery,                 \* RELAY_SYNC_INTERVAL_MS
  Syncs, GateClockMax        \* bounds: syncs started for the relay and ticks
ASSUME GateBounds == Syncs \in Nat /\ GateClockMax \in Nat /\ SyncEvery \in Nat
ASSUME NeedAssumption == \A n \in Need : n.mode \in {"all", "any"} /\ n.scopes # {}

VARIABLES
  gateClock,
  tailnet,     \* what the daemon says of each peer
  revokedHere, \* tokens revoked or expired
  gcall,       \* the requests
  audited,     \* per request: the audit records made of it
  relaySyncs,  \* the syncs started for relay callers, in order
  door,        \* the relay's listener
  interface    \* whether the tailnet address exists
gateVars == <<gateClock, tailnet, revokedHere, gcall, audited, relaySyncs, door, interface>>

Standing == {"member", "untagged", "router", "behind"}
IdleRequest == [at |-> "idle"]
GateInit ==
  /\ gateClock = 0 /\ tailnet \in [Peer -> {"member", "untagged"}] /\ revokedHere = {}
  /\ gcall = [c \in GateCall |-> IdleRequest] /\ audited = [c \in GateCall |-> {}]
  /\ relaySyncs = <<>> /\ door = "binding" /\ interface \in BOOLEAN

(* A request that goes on to a place, with what it learnt on the way. *)
GoesTo(k, place, learnt) ==
  [x \in DOMAIN k \cup DOMAIN learnt |-> IF x = "at" THEN place ELSE IF x \in DOMAIN k THEN k[x] ELSE learnt[x]]
To(c, request) == gcall' = [gcall EXCEPT ![c] = request]
Recorded(c, what) == audited' = [audited EXCEPT ![c] = @ \cup {<<what, 0>>}]
RecordedItem(c, i) == audited' = [audited EXCEPT ![c] = @ \cup {<<"item", i>>}]
Answer(c, status, items) == To(c, [at |-> "answered", to |-> gcall[c], status |-> status, items |-> items])
RestOfGate == UNCHANGED <<gateClock, tailnet, revokedHere, relaySyncs, door, interface>>
RequestOver(c) ==
  /\ gcall[c].at = "answered" /\ To(c, IdleRequest) /\ audited' = [audited EXCEPT ![c] = {}] /\ RestOfGate

-----------------------------------------------------------------------------
(* The relay: admission. *)
Routes == {"status", "sync", "item", "list", "unknown"}
RelayArrives(c) ==
  /\ gcall[c].at = "idle" /\ door = "listening" /\ RestOfGate
  /\ \E n \in Peer, route \in Routes :
       LET asked == [at |-> "whois", door |-> "relay", peer |-> n, route |-> route, good |-> tailnet[n] = "member"]
       IN \/ To(c, asked) /\ UNCHANGED audited
          \* an Origin, a foreign Host or no address: refused unasked
          \/ To(c, [at |-> "answered", to |-> asked, status |-> 403, items |-> {}]) /\ Recorded(c, "denied")
AdmissionAnyTag(standing) == standing \in {"member", "untagged"}
Admitted(standing) == standing = "member"
WhoIsAnswers(c) ==
  LET k == gcall[c] IN
  /\ k.at = "whois" /\ RestOfGate
  /\ \/ Answer(c, 403, {}) /\ Recorded(c, "denied")         \* late, or not a peer
     \/ ~Admitted(tailnet[k.peer]) /\ Answer(c, 403, {}) /\ Recorded(c, "denied")
     \/ Admitted(tailnet[k.peer]) /\ Answer(c, 429, {}) /\ Recorded(c, "denied")
     \/ Admitted(tailnet[k.peer]) /\ To(c, [k EXCEPT !.at = k.route]) /\ UNCHANGED audited

(* Its routes. *)
Unknown(c) == gcall[c].at = "unknown" /\ Answer(c, 404, {}) /\ UNCHANGED audited /\ RestOfGate
Status(c) ==
  /\ gcall[c].at = "status" /\ RestOfGate /\ Recorded(c, "status")
  /\ \E status \in {200, 500, 503} : Answer(c, status, {})
Joins == relaySyncs # <<>> /\ gateClock - relaySyncs[Len(relaySyncs)].at < SyncEvery
SyncJoins(c) ==
  /\ gcall[c].at = "sync" /\ Joins /\ UNCHANGED audited
  /\ To(c, GoesTo(gcall[c], "syncing", [sync |-> Len(relaySyncs)]))
  /\ RestOfGate
StartedNow == [at |-> gateClock, outcome |-> "running"]
SyncStarts(c) ==
  /\ gcall[c].at = "sync" /\ ~Joins /\ Len(relaySyncs) < Syncs /\ UNCHANGED audited
  /\ relaySyncs' = Append(relaySyncs, StartedNow)
  /\ To(c, GoesTo(gcall[c], "syncing", [sync |-> Len(relaySyncs) + 1]))
  /\ UNCHANGED <<gateClock, tailnet, revokedHere, door, interface>>
SyncEnds ==
  /\ \E i \in DOMAIN relaySyncs, outcome \in {"ok", "failed"} :
       relaySyncs[i].outcome = "running" /\ relaySyncs' = [relaySyncs EXCEPT ![i].outcome = outcome]
  /\ UNCHANGED <<gateClock, tailnet, revokedHere, gcall, audited, door, interface>>
(* Mutant: a sync that failed leaves those who wait for it waiting. *)
RelaySyncAnswersOk(c) ==
  LET k == gcall[c] IN
  /\ k.at = "syncing" /\ relaySyncs[k.sync].outcome = "ok"
  /\ Answer(c, 200, {}) /\ Recorded(c, "sync") /\ RestOfGate
RelaySyncAnswers(c) ==
  LET k == gcall[c] IN
  /\ k.at = "syncing" /\ relaySyncs[k.sync].outcome # "running"
  /\ Answer(c, IF relaySyncs[k.sync].outcome = "ok" THEN 200 ELSE 503, {}) /\ Recorded(c, "sync") /\ RestOfGate
LooksUp(c) ==
  LET k == gcall[c] IN
  /\ k.at \in {"item", "list"} /\ RestOfGate
  /\ \/ \E status \in {400, 404, 503} : Answer(c, status, {}) /\ Recorded(c, "failure") \* the term, none, too many, the vault
     \/ k.at = "list" /\ Answer(c, 200, {}) /\ Recorded(c, "empty")
     \/ \E n \in 1..(IF k.at = "item" THEN 1 ELSE RelayListMax) :
          To(c, GoesTo(k, "reveal", [left |-> 1..n, out |-> {}])) /\ UNCHANGED audited
NextLeft(k) == CHOOSE i \in k.left : \A j \in k.left : i <= j
RevealUnrecorded(c) ==
  LET k == gcall[c]  i == NextLeft(k) IN
  /\ k.at = "reveal" /\ RestOfGate /\ UNCHANGED audited
  /\ IF k.left = {i} THEN Answer(c, 200, k.out \cup {i}) ELSE To(c, [k EXCEPT !.left = @ \ {i}, !.out = @ \cup {i}])
Reveal(c) ==
  LET k == gcall[c]  i == NextLeft(k) IN
  /\ k.at = "reveal" /\ RestOfGate
  /\ \/ Recorded(c, "reveal failed") /\ Answer(c, 503, {})
     \/ RecordedItem(c, i) /\ IF k.left = {i} THEN Answer(c, 200, k.out \cup {i}) ELSE To(c, [k EXCEPT !.left = @ \ {i}, !.out = @ \cup {i}])

(* Its listener, and the daemon it asks. *)
RestOfDoor == UNCHANGED <<gateClock, tailnet, revokedHere, gcall, audited, relaySyncs>>
Bound == door = "binding" /\ interface /\ door' = "listening" /\ UNCHANGED interface /\ RestOfDoor
BindFails == door = "binding" /\ ~interface /\ door' = "retry" /\ UNCHANGED interface /\ RestOfDoor
(* Mutant: the timer of the next attempt outlives the close. *)
RetryBindAlways == door \in {"retry", "closed"} /\ door' = "binding" /\ UNCHANGED interface /\ RestOfDoor
RetryBind == door = "retry" /\ door' = "binding" /\ UNCHANGED interface /\ RestOfDoor
DoorCloses == door # "closed" /\ door' = "closed" /\ UNCHANGED interface /\ RestOfDoor
InterfaceComes == ~interface /\ interface' = TRUE /\ UNCHANGED door /\ RestOfDoor
TailnetChanges ==
  /\ \E n \in Peer, standing \in Standing :
       /\ tailnet[n] # standing /\ tailnet' = [tailnet EXCEPT ![n] = standing]
       /\ gcall' = [c \in GateCall |->
            IF gcall[c].at = "whois" /\ gcall[c].peer = n /\ standing = "member" THEN [gcall[c] EXCEPT !.good = TRUE] ELSE gcall[c]]
  /\ UNCHANGED <<gateClock, revokedHere, audited, relaySyncs, door, interface>>
GateTick ==
  /\ gateClock < GateClockMax /\ gateClock' = gateClock + 1
  /\ UNCHANGED <<tailnet, revokedHere, gcall, audited, relaySyncs, door, interface>>

-----------------------------------------------------------------------------
(* /mcp: the guards, the token, the body, the scope gate, the limiter, the tool. *)
McpArrives(c) ==
  /\ gcall[c].at = "idle" /\ UNCHANGED audited /\ RestOfGate
  /\ \E t \in Bearer :
       LET asked == [at |-> "verify", door |-> "mcp", bearer |-> t, good |-> t \notin revokedHere]
       IN \/ To(c, asked)
          \/ \E status \in {400, 401, 403, 413} : To(c, [at |-> "answered", to |-> asked, status |-> status, items |-> {}])
AcceptedAlways(t) == TRUE
Accepted(t) == t \notin revokedHere
EffectiveScopes(t) == GrantedTo[t] \cap EnabledHere
Challenged(c, status) == Answer(c, status, {})
McpVerifies(c) ==
  LET k == gcall[c] IN
  /\ k.at = "verify" /\ UNCHANGED audited /\ RestOfGate
  /\ IF Accepted(k.bearer) THEN To(c, [k EXCEPT !.at = "body"]) ELSE Challenged(c, 401)
IsMetByAny(need, scopes) == need.scopes \cap scopes # {}
IsMet(need, scopes) == IF need.mode = "any" THEN need.scopes \cap scopes # {} ELSE need.scopes \subseteq scopes
McpGate(c) ==
  LET k == gcall[c] IN
  /\ k.at = "body" /\ RestOfGate
  /\ \/ \E need \in Need :
          IF ~IsMet(need, EffectiveScopes(k.bearer)) THEN Challenged(c, 403) /\ Recorded(c, "denied")
          ELSE UNCHANGED audited /\ (Answer(c, 429, {}) \/ To(c, GoesTo(k, "tool", [need |-> need])))
     \/ UNCHANGED audited /\ Answer(c, 200, {})     \* not a call of a tool served here
ToolEnds(c) == gcall[c].at = "tool" /\ Recorded(c, "called") /\ Answer(c, 200, {0}) /\ RestOfGate
Revoked ==
  /\ \E t \in Bearer \ revokedHere : revokedHere' = revokedHere \cup {t}
  /\ UNCHANGED <<gateClock, tailnet, gcall, audited, relaySyncs, door, interface>>

GateStep(c) ==
  \/ WhoIsAnswers(c) \/ Unknown(c) \/ Status(c) \/ SyncJoins(c) \/ SyncStarts(c) \/ RelaySyncAnswers(c) \/ LooksUp(c) \/ Reveal(c)
  \/ McpVerifies(c) \/ McpGate(c) \/ ToolEnds(c) \/ RequestOver(c)
DoorStep == Bound \/ BindFails \/ RetryBind
GateNext ==
  \/ \E c \in GateCall : RelayArrives(c) \/ McpArrives(c) \/ GateStep(c)
  \/ DoorStep \/ SyncEnds \/ DoorCloses \/ InterfaceComes \/ TailnetChanges \/ GateTick \/ Revoked
GateSpec == GateInit /\ [][GateNext]_gateVars

-----------------------------------------------------------------------------
(* Properties. *)
GateTypeOK ==
  /\ gateClock \in 0..GateClockMax /\ tailnet \in [Peer -> Standing] /\ revokedHere \subseteq Bearer
  /\ door \in {"binding", "listening", "retry", "closed"} /\ Len(relaySyncs) <= Syncs
Told(c) == gcall[c].at = "answered" /\ gcall[c].status = 200
(* Whatever a node is shown is in the audit log under that item first; and no relay request but one for no route ends unrecorded. *)
ToldIsRecorded ==
  \A c \in GateCall : gcall[c].at = "answered" /\ gcall[c].to.door = "relay" =>
    (\A i \in gcall[c].items : <<"item", i>> \in audited[c]) /\ (audited[c] # {} \/ gcall[c].to.route = "unknown")
(* A node that was no tagged member at any time while its request was judged is shown nothing. *)
ShownToMembers == \A c \in GateCall : Told(c) /\ gcall[c].to.door = "relay" /\ gcall[c].items # {} => gcall[c].to.good
(* A token already revoked when its request came is never served, and a tool never runs for scopes its token lacks here. *)
ServedWithinGrant ==
  \A c \in GateCall :
    LET k == IF gcall[c].at = "answered" THEN gcall[c].to ELSE gcall[c]
    IN k.at = "tool" => k.good /\ (k.need.mode = "all" => k.need.scopes \subseteq GrantedTo[k.bearer] \cap EnabledHere)
                               /\ k.need.scopes \cap GrantedTo[k.bearer] \cap EnabledHere # {}
(* Whichever nodes ask, the relay starts its syncs at least the interval apart. *)
SyncsSpaced == \A i \in 1..(Len(relaySyncs) - 1) : relaySyncs[i + 1].at - relaySyncs[i].at >= SyncEvery
(* Those and the types, as one invariant of the module. *)
GatesSafe == GateTypeOK /\ ToldIsRecorded /\ ShownToMembers /\ ServedWithinGrant /\ SyncsSpaced
(* A closed listener stays closed: no bind tried again comes after it. *)
ClosedStays == [][door = "closed" => door' = "closed"]_gateVars
(* The daemon, the token table and a sync answer a request or fail it. *)
GateFairness == WF_gateVars(SyncEnds) /\ \A c \in GateCall : WF_gateVars(GateStep(c))
(* Every request is answered, and the listener opens once its address is there. *)
GatesAnswer ==
  /\ \A c \in GateCall : gcall[c].at # "idle" ~> gcall[c].at = "idle"
  /\ interface ~> door \in {"listening", "closed"}
=============================================================================
