---------------------------- MODULE HttpConnector ----------------------------
(***************************************************************************)
(* Calls of one http target: src/actions/connectors/http, the token       *)
(* service of connectors/graph, what the engine lends a run                *)
(* (run-support.ts, destination.ts) and the pinned transport of src/net.   *)
(* Calls interleave at every await: the vault, the name service, the token *)
(* endpoint and the destination; the operator may save the target between. *)
(***************************************************************************)
EXTENDS Integers, Sequences

CONSTANTS
  HttpCall,         \* the calls
  NoToken,          \* no token, in a cache, a call or an answer
  Document,         \* the target documents an operator may submit
  HttpOperation,    \* the operations an agent may ask for
  EndpointHabit,    \* what the token endpoint does with a used refresh token
  IssuedMax,        \* bound: token exchanges the endpoint answers
  RevisionMax       \* bound: revisions of the target
ASSUME HabitAssumption == EndpointHabit \subseteq {"echoes", "keeps", "revokes"}
ASSUME OperationAssumption ==
  HttpOperation \subseteq [method : {"GET", "HEAD", "POST", "PUT"}, path : {"allowed", "denied", "climbs"},
                           header : {"none", "listed", "unlisted", "fixed", "occupied"}, body : {"none", "text", "json", "big"}]
ASSUME HttpBounds == IssuedMax \in Nat /\ RevisionMax \in Nat \ {0}

VARIABLES
  document,   \* the target's document
  habit,      \* the endpoint's
  documentRevision,   \* the target's revision
  refresh,    \* the refresh token in the vault item, a number
  accepted,   \* the refresh tokens the endpoint takes
  issued,     \* the access tokens: the revision each was obtained under
  cache,      \* the target's cached token, or NoToken
  hcalls,     \* the calls
  delivered,  \* the last request that reached a peer, or NoToken
  mislaid     \* an answer with a new refresh token was lost or not written

httpVars == <<document, habit, documentRevision, refresh, accepted, issued, cache, hcalls, delivered, mislaid>>
endpointVars == <<accepted, issued>>

(* Documents. *)
TokenMode(d) == d.mode \in {"graph", "oauth2"}
Savable(d) ==
  /\ ~(d.trust = "both")
  /\ d.trust # "store" => d.tls
  /\ ~d.tls => d.internal
  /\ d.mode = "graph" => d.origin = "graph"
  /\ d.mode = "query" => d.queryAllowed
  /\ d.mode = "oauth2" /\ d.grant = "refresh_token" => d.refreshField
  /\ d.mode = "oauth2" /\ d.grant = "client_credentials" => ~d.refreshField
  /\ d.mode = "graph" /\ d.grant = "refresh_token" => d.refreshField

(* The policy decision, in the order of its refusals. *)
HeaderOf(d) == IF d.mode = "query" THEN "none" ELSE "occupied"
HeadersAllowed(d, header) == header \in {"none", "listed"} \/ (header = "occupied" /\ HeaderOf(d) = "none")
HttpAuthorize(d, op) ==
  IF op.method \notin {"GET", "HEAD", "POST"} THEN "method"
    ELSE IF op.path # "allowed" THEN "path"
    ELSE IF ~HeadersAllowed(d, op.header) THEN "header"
    ELSE IF op.body = "big" THEN "body_size"
    ELSE "allowed"

(* One resolution, every address judged, the first pinned. *)
Judged(address, internal) ==
  CASE address = "public" -> "ok"
    [] address = "private" -> IF internal THEN "ok" ELSE "private"
    [] OTHER -> "forbidden"
PinEndpoint(answer, internal) ==
  IF answer = {} THEN "unresolved"
  ELSE LET bad == {a \in answer : Judged(a, internal) # "ok"}
       IN IF bad = {} THEN "ok" ELSE Judged(CHOOSE a \in bad : TRUE, internal)
Answers == {{}, {"public"}, {"private"}, {"public", "forbidden"}}
Resolve(answer, internal) ==
  CASE PinEndpoint(answer, internal) = "ok" -> "ok"
    [] PinEndpoint(answer, internal) = "unresolved" -> "connection_failed"
    [] OTHER -> "destination_refused"

(* Who the peer of a connection proved to be before a byte leaves. *)
Certificates == {"none", "store", "authority", "pinned"}
JudgeMissing(certificate) == certificate \in {"none", "pinned"}
Judge(certificate) == certificate = "pinned"
Verified(tls, trust, certificate) ==
  IF ~tls THEN TRUE
    ELSE IF trust = "pin" THEN Judge(certificate)
    ELSE IF trust = "ca" THEN certificate = "authority"
    ELSE certificate = "store"
DestinationTrust(d) == d.trust

(* The token cache. *)
GetAnyRevision(entry, rev) == IF entry # NoToken /\ entry.fresh THEN entry.token ELSE NoToken
CacheGet(entry, rev) == IF entry # NoToken /\ entry.fresh /\ entry.revision = rev THEN entry.token ELSE NoToken
KeepOnRetry(entry, retry) == entry
Invalidated(entry, retry) == IF retry THEN NoToken ELSE entry

(* What an answer of the token endpoint means. *)
TokenAnswers == {"grant", "grant_no_lifetime", "error_200", "invalid_grant", "other_error", "malformed"}
TokenOutcome(answer) ==
  CASE answer \in {"grant", "grant_no_lifetime"} -> "ok"
    [] answer \in {"invalid_grant", "error_200"} -> "authentication_failed"
    [] OTHER -> "upstream_error"

(* Redirects. *)
Redirect == {"see_other", "found", "temporary"}
HopMethod(status, method) ==
  CASE status = "see_other" -> IF method = "HEAD" THEN "HEAD" ELSE "GET"
    [] status = "found" /\ method = "POST" -> "GET"
    [] OTHER -> method
IsUnderBase(location) == location = "under"
NextHop(response) == response.status \in Redirect /\ IsUnderBase(response.location)
HopBody(request, method) == IF method = request.method THEN request.body ELSE "none"
Response ==
  [status : {"ok", "unauthorized"}, location : {"none"}] \cup [status : Redirect, location : {"none", "under", "outside"}]

(* A failed connection, as the agent is told. *)
TransportFailure(why) ==
  CASE why = "aborted" -> "timeout" [] why = "certificate" -> "tls_error" [] OTHER -> "connection_failed"

IdleHttpCall == [at |-> "idle", method |-> "GET", body |-> "none", path |-> "allowed", doc |-> NoToken, revision |-> 0, held |-> 0, table |-> {},
                 token |-> NoToken, retry |-> FALSE, hops |-> 0, end |-> "none"]

HttpInit ==
  /\ document \in {d \in Document : Savable(d)} /\ habit \in EndpointHabit
  /\ documentRevision = 1 /\ refresh = 1 /\ accepted = {1} /\ issued = <<>> /\ cache = NoToken
  /\ hcalls = [c \in HttpCall |-> IdleHttpCall] /\ delivered = NoToken /\ mislaid = FALSE

Finish(c, how) == hcalls' = [hcalls EXCEPT ![c] = [IdleHttpCall EXCEPT !.at = "done", !.end = how]]
Doc(c) == hcalls[c].doc

(* The engine's part: the document, the pinned address and the vault's values. *)
HttpArrive(c) ==
  /\ hcalls[c].at = "idle"
  /\ \E op \in HttpOperation, answer \in Answers :
       LET verdict == HttpAuthorize(document, op)
           pinned == Resolve(answer, document.internal)
       IN IF verdict # "allowed" THEN Finish(c, "policy_denied")
          ELSE IF pinned # "ok" THEN Finish(c, pinned)
          ELSE hcalls' = [hcalls EXCEPT ![c] =
                 [IdleHttpCall EXCEPT !.at = IF TokenMode(document) THEN "token" ELSE "send", !.method = op.method,
                                      !.body = op.body, !.path = op.path, !.doc = document, !.revision = documentRevision,
                                      !.held = refresh, !.table = {<<"refresh", refresh>>}]]
  /\ UNCHANGED <<document, habit, documentRevision, refresh, endpointVars, cache, delivered, mislaid>>

(* What the scrub table of the call holds; whose certificate its request accepts. *)
Covered(c, secret) == secret \in hcalls[c].table
PeerAccepted(c, certificate) == Verified(Doc(c).tls, DestinationTrust(Doc(c)), certificate)

(* A credential whose value the call holds, or a token: cached or to obtain. *)
Captures(c, secret) == hcalls[c].table \cup {secret}
AccessToken(c) ==
  LET call == hcalls[c]
      entry == Invalidated(cache, call.retry)
      cached == CacheGet(entry, call.revision)
  IN /\ call.at = "token"
     /\ cache' = IF cached = NoToken THEN NoToken ELSE entry
     /\ IF cached # NoToken THEN hcalls' = [hcalls EXCEPT ![c].at = "send", ![c].token = cached, ![c].table = Captures(c, <<"access", cached>>)]
        ELSE hcalls' = [hcalls EXCEPT ![c].at = "resolve"]
     /\ UNCHANGED <<document, habit, documentRevision, refresh, endpointVars, delivered, mislaid>>

Obtain(c) ==
  /\ hcalls[c].at = "resolve"
  /\ \E answer \in Answers :
       IF Resolve(answer, Doc(c).internal) # "ok" THEN Finish(c, Resolve(answer, Doc(c).internal))
       ELSE hcalls' = [hcalls EXCEPT ![c].at = "exchange"]
  /\ UNCHANGED <<document, habit, documentRevision, refresh, endpointVars, cache, delivered, mislaid>>

(* The endpoint: a refresh token it takes gives a token and its successor. *)
Granted(c) == Doc(c).grant = "client_credentials" \/ hcalls[c].held \in accepted
Newest == 1 + Len(issued)
Successor(c) == IF Doc(c).grant = "client_credentials" \/ habit = "echoes" THEN hcalls[c].held ELSE Newest + 1
EndpointGrants(c) ==
  /\ Newest <= IssuedMax
  /\ issued' = Append(issued, hcalls[c].revision)
  /\ accepted' = IF Doc(c).grant = "client_credentials" THEN accepted
                 ELSE (IF habit = "revokes" THEN accepted \ {hcalls[c].held} ELSE accepted) \cup {Successor(c)}

(* The token is kept and cached once nothing is left to write. *)
Cached(c, token) == [token |-> token, revision |-> hcalls[c].revision, fresh |-> TRUE]
WritesNothing(c) == Successor(c) = hcalls[c].held
WritesNever(c) == TRUE
Unwritten(c) == WritesNothing(c)

RequestToken(c) ==
  /\ hcalls[c].at = "exchange"
  /\ \E certificate \in {"store", "none"}, answer \in TokenAnswers :
       IF ~Verified(TRUE, "store", certificate)
       THEN Finish(c, TransportFailure("certificate")) /\ UNCHANGED <<endpointVars, cache, delivered>>
       ELSE /\ delivered' = [to |-> "endpoint", certificate |-> certificate, trust |-> "store",
                            covered |-> Covered(c, <<"refresh", hcalls[c].held>>)]
            /\ IF TokenOutcome(answer) = "ok"
               THEN /\ Granted(c) /\ EndpointGrants(c)
                    /\ LET table == Captures(c, <<"access", Newest>>)
                       IN IF Unwritten(c)
                          THEN /\ cache' = Cached(c, Newest)
                               /\ hcalls' = [hcalls EXCEPT ![c].at = "send", ![c].token = Newest, ![c].table = table]
                          ELSE /\ hcalls' = [hcalls EXCEPT ![c].at = "writing", ![c].token = Newest, ![c].held = Successor(c),
                                                           ![c].table = table \cup {<<"refresh", Successor(c)>>}]
                               /\ UNCHANGED cache
               ELSE /\ answer = "invalid_grant" => ~Granted(c)
                    /\ Finish(c, TokenOutcome(answer)) /\ UNCHANGED <<endpointVars, cache>>
  /\ UNCHANGED <<document, habit, documentRevision, refresh, mislaid>>

(* The grant was made and its answer never arrived. *)
AnswerLost(c) ==
  /\ hcalls[c].at = "exchange" /\ Granted(c) /\ EndpointGrants(c)
  /\ \E why \in {"aborted", "reset"} : Finish(c, TransportFailure(why))
  /\ mislaid' = (mislaid \/ Successor(c) # hcalls[c].held)
  /\ UNCHANGED <<document, habit, documentRevision, refresh, cache, delivered>>

WriteBack(c) ==
  /\ hcalls[c].at = "writing"
  /\ \/ /\ refresh' = hcalls[c].held /\ cache' = Cached(c, hcalls[c].token)
        /\ hcalls' = [hcalls EXCEPT ![c].at = "send"]
        /\ UNCHANGED mislaid
     \/ /\ Finish(c, "credential_rotation_failed") /\ mislaid' = TRUE
        /\ UNCHANGED <<refresh, cache>>
  /\ UNCHANGED <<document, habit, documentRevision, endpointVars, delivered>>

(* One request and its answer; the credential goes to it and to every hop. *)
MaxHops == 2
Secret(c) == IF TokenMode(Doc(c)) THEN <<"access", hcalls[c].token>> ELSE <<"refresh", hcalls[c].held>>
Room(hops) == hops < MaxHops
RetryAlways(call) == TRUE
MayRetry(call) == ~call.retry
Delivery(c, certificate, place) ==
  [to |-> place, certificate |-> certificate, trust |-> DestinationTrust(Doc(c)),
   covered |-> Covered(c, Secret(c))]

Send(c) ==
  LET call == hcalls[c] IN
  /\ call.at \in {"send", "hop"}
  /\ \E certificate \in Certificates :
     IF ~PeerAccepted(c, certificate)
     THEN Finish(c, TransportFailure("certificate")) /\ UNCHANGED delivered
     ELSE /\ delivered' = Delivery(c, certificate, IF call.path = "outside" THEN "outside" ELSE "base")
          /\ \E response \in Response :
               LET method == HopMethod(response.status, call.method)
               IN IF NextHop(response) /\ Doc(c).follow /\ Room(call.hops)
                  THEN hcalls' = [hcalls EXCEPT ![c].at = "hop", ![c].path = IF response.location = "under" THEN "allowed" ELSE "outside",
                                        ![c].method = method, ![c].body = HopBody(call, method), ![c].hops = @ + 1]
                  ELSE IF response.status = "unauthorized" /\ TokenMode(Doc(c)) /\ MayRetry(call)
                  THEN hcalls' = [hcalls EXCEPT ![c].at = "token", ![c].retry = TRUE, ![c].hops = 0]
                  ELSE Finish(c, response.status)
  /\ UNCHANGED <<document, habit, documentRevision, refresh, endpointVars, cache, mislaid>>

(* The engine's signal: the call is waiting for a name, an endpoint or a destination. *)
HttpTimeout(c) ==
  /\ hcalls[c].at \in {"resolve", "exchange", "send", "hop"}
  /\ Finish(c, TransportFailure("aborted"))
  /\ UNCHANGED <<document, habit, documentRevision, refresh, endpointVars, cache, delivered, mislaid>>

(* The 60 s margin of the cached token passes; the operator saves the target. *)
TokenAges ==
  /\ cache # NoToken /\ cache.fresh /\ cache' = [cache EXCEPT !.fresh = FALSE]
  /\ UNCHANGED <<document, habit, documentRevision, refresh, endpointVars, hcalls, delivered, mislaid>>
HttpSave ==
  /\ documentRevision < RevisionMax /\ documentRevision' = documentRevision + 1
  /\ \E d \in Document : Savable(d) /\ document' = d
  /\ UNCHANGED <<habit, refresh, endpointVars, cache, hcalls, delivered, mislaid>>

HttpStep(c) == AccessToken(c) \/ Obtain(c) \/ RequestToken(c) \/ WriteBack(c) \/ Send(c) \/ HttpTimeout(c) \/ AnswerLost(c)
HttpNext == (\E c \in HttpCall : HttpArrive(c) \/ HttpStep(c)) \/ TokenAges \/ HttpSave
HttpSpec == HttpInit /\ [][HttpNext]_httpVars

----------------------------------------------------------------------------

HttpTypeOK ==
  /\ Savable(document) /\ documentRevision \in 1..RevisionMax /\ refresh \in 1..IssuedMax + 1
  /\ \A c \in HttpCall : hcalls[c].hops <= MaxHops /\ hcalls[c].at \in
       {"idle", "token", "resolve", "exchange", "writing", "send", "hop", "done"}

(* ACT-82: whatever calls, saves and other calls' exchanges came between, *)
(* the token a request carries was obtained under the revision its call   *)
(* resolved, and a retry after a 401 never carries the first one again.   *)
TokenOfItsRevision ==
  \A c \in HttpCall : hcalls[c].token # NoToken => issued[hcalls[c].token] = hcalls[c].revision

(* ACT-83, T49: the refresh token in the vault is one the endpoint takes, *)
(* unless an answer was lost, a write failed or a call is between the     *)
(* endpoint's answer and its write.                                       *)
CredentialAlive ==
  \/ refresh \in accepted \/ mislaid
  \/ \E c \in HttpCall : hcalls[c].at = "writing"

(* ACT-22, ACT-57, ACT-121: the credential reaches the base, never a      *)
(* redirect's other host, over a connection the document's trust proved,  *)
(* and the call's scrub table holds what it sent.                         *)
CredentialStays ==
  delivered # NoToken =>
    /\ delivered.to \in {"base", "endpoint"} /\ delivered.covered
    /\ delivered.trust = "pin" => delivered.certificate = "pinned"
    /\ delivered.to = "endpoint" => delivered.certificate = "store"

(* A call goes on by itself: a step that a peer never answers ends with the signal. *)
HttpFairness == \A c \in HttpCall : WF_httpVars(HttpStep(c))
(* A call that began is answered, whatever the peers do: the signal.      *)
HttpCallsEnd == \A c \in HttpCall : hcalls[c].at # "idle" ~> hcalls[c].at = "done"

(* A 401 is answered with a token of its own: the second is not the first.*)
RetriesAfresh ==
  [][\A c \in HttpCall : hcalls[c].retry /\ hcalls[c].at = "token" /\ hcalls'[c].at = "send"
        => hcalls'[c].token # hcalls[c].token]_httpVars

HttpSafe == HttpTypeOK /\ TokenOfItsRevision /\ CredentialAlive /\ CredentialStays
=============================================================================
