-------------------------- MODULE AuthorizeConsent --------------------------
(***************************************************************************)
(* The authorization endpoint and the consent page (src/oauth): requests   *)
(* that identify a client (configured, by its metadata document, or        *)
(* registered dynamically), the pending authorizations they leave, and the *)
(* operator's decision on one.  Visits interleave at every await: the name *)
(* service and the host of a metadata document, and the body of a form.    *)
(***************************************************************************)
EXTENDS Integers, FiniteSets

CONSTANTS
  DocumentClient,   \* client ids that are https URLs of a metadata document
  DynamicClient,    \* client ids a registration may mint
  ConfiguredClient, \* client ids VAULTGATE_OAUTH_CLIENTS may list
  ConfiguredUris,   \* the redirect URIs such a client is configured with
  Metadata,         \* the metadata documents a host may serve
  Uri,              \* redirect URIs: [scheme, host, port, clean]
  AnyScope,         \* the scopes
  Browser, Visit,
  Nobody,           \* no session, no document, no redirect
  SessionMax, PendingMax,  \* bounds: sessions and pending requests ever made
  FetchBudget,      \* document fetches the process-wide limiter allows (30 a minute in the code)
  RestartMax        \* bound: restarts
ASSUME ConsentBounds == SessionMax \in Nat /\ PendingMax \in Nat /\ FetchBudget \in Nat
ASSUME MetadataAssumption == (\A d \in Metadata : d.redirects \subseteq Uri) /\ ConfiguredUris \subseteq Uri
ASSUME ClientAssumption ==   \* an id is of one kind
  /\ DocumentClient \cap DynamicClient = {} /\ DocumentClient \cap ConfiguredClient = {}
  /\ DynamicClient \cap ConfiguredClient = {}

VARIABLES
  hosted,      \* per document client: what its URL serves now
  listed,      \* per client: every redirect URI it ever listed as its own
  cached,      \* cimd_cache: per document client, a row or Nobody
  clientRows,        \* oauth_clients: the clients stored, with their mode
  configured,  \* the configured clients of this process
  switchedOn,  \* the scopes this deployment enables
  pending,     \* pending_authorizations: id -> row, or Nobody
  issuedCodes,       \* the authorization codes issued
  browsers,    \* per browser: its session and its binding cookie
  visits,      \* the requests being handled
  fetches,     \* tokens left in the limiter of metadata fetches
  gone,        \* the last redirect to a client, or Nobody
  sessions,    \* how many sessions were made
  restarts
consentVars == <<hosted, listed, cached, clientRows, configured, switchedOn, pending, issuedCodes, browsers, visits, fetches, gone, sessions, restarts>>
resolverVars == <<cached, clientRows, fetches>>
aroundVars == <<hosted, configured, switchedOn, sessions, restarts>>

AnyClient == DocumentClient \cup DynamicClient \cup ConfiguredClient
ClientIds == 1..PendingMax

(* The rows of pending_authorizations and of oauth_clients. *)
BindingKey == [session : 1..SessionMax] \cup [cookie : ClientIds] \cup {Nobody}
PendingRows ==
  [client : AnyClient, uri : Uri, scopes : SUBSET AnyScope, state : {"live", "expired", "decided"}, by : Browser, binding : BindingKey]
ClientRecords == [mode : {"preregistered", "cimd", "dcr"}, redirects : SUBSET Uri]
ASSUME NobodyAssumption == Nobody \notin PendingRows \cup ClientRecords

(* Redirect URIs. *)
ValidateRedirectUri(u) == u.clean /\ u.scheme \in {"https", "loopback"}
IsLoopbackPortMatch(u, r) == u.scheme = "loopback" /\ r.scheme = "loopback" /\ u.host = r.host
IsRegisteredRedirect(u, uris) == u \in uris \/ \E r \in uris : IsLoopbackPortMatch(u, r)

(* Metadata documents. *)
ParseAnyOwner(c, d) == d.public /\ d.redirects # {} /\ \A u \in d.redirects : ValidateRedirectUri(u)
ParseCimdDocument(c, d) == ParseAnyOwner(c, d) /\ d.owner = c
CachedDocument(c) == IF cached[c] = Nobody THEN Nobody ELSE cached[c].doc
FreshDocument(c) == IF cached[c] # Nobody /\ cached[c].fresh THEN cached[c].doc ELSE Nobody

(* One hop of a fetch: every address the host resolves to is public, and the connection goes to one that was checked. *)
PinnedAny(answer) == answer \cap {"public", "private"}
PinnedAddress(answer) == IF answer = {"public"} THEN {"public"} ELSE {}

(* Scopes, at the request and at the decision. *)
EnabledScopes == (SUBSET AnyScope) \ {{}}
ParseScopes(scopes) == scopes # {} /\ scopes \subseteq switchedOn
OfferedScopes(p) == switchedOn \ p.scopes
TickedScopes(p, form) == form.ticked \cap (p.scopes \cup OfferedScopes(p))

(* The keys a browser can prove, as the request carried them. *)
BindingHashes(v) == {visits[v].session, visits[v].cookie} \ {Nobody}
IsBoundToAny(v, p) == TRUE
IsBoundToBrowser(v, p) == p.binding \in BindingHashes(v)
LivePending(id) == pending[id] # Nobody /\ pending[id].state = "live"

(* Rows: a client's, and the configured clients written over what is stored. *)
ClientRecord(mode, uris) == [mode |-> mode, redirects |-> uris]
Preregistered(on, stored) == [c \in AnyClient |-> IF c \in on THEN ClientRecord("preregistered", ConfiguredUris) ELSE stored[c]]
PutCache(c, doc) == [cached EXCEPT ![c] = [doc |-> doc, fresh |-> TRUE]]

IdleVisit == [at |-> "idle"]
End(v) == visits' = [visits EXCEPT ![v] = IdleVisit]

ConsentInit ==
  /\ hosted \in [DocumentClient -> Metadata]
  /\ configured \in SUBSET ConfiguredClient /\ switchedOn \in EnabledScopes
  /\ listed = [c \in AnyClient |-> CASE c \in DocumentClient -> IF hosted[c].owner = c THEN hosted[c].redirects ELSE {}
                                     [] c \in ConfiguredClient -> ConfiguredUris [] OTHER -> {}]
  /\ cached = [c \in DocumentClient |-> Nobody]
  /\ clientRows = Preregistered(configured, [c \in AnyClient |-> Nobody])
  /\ pending = [i \in ClientIds |-> Nobody] /\ issuedCodes = {}
  /\ browsers = [b \in Browser |-> [session |-> Nobody, cookie |-> Nobody]]
  /\ visits = [v \in Visit |-> IdleVisit] /\ fetches = FetchBudget /\ gone = Nobody /\ sessions = 0 /\ restarts = 0

(* How GET /oauth/authorize ends once the client is known: a page, an error redirect, or a row that *)
(* waits for the decision, bound to the session or to the cookie of the browser that asked.         *)
FreeIds == {i \in ClientIds : pending[i] = Nobody}
BindingCookie(v, i) == IF visits[v].cookie = Nobody THEN [cookie |-> i] ELSE visits[v].cookie
PendingRow(r, binding) ==
  [client |-> r.client, uri |-> r.uri, scopes |-> r.scopes, state |-> "live", by |-> r.browser, binding |-> binding]
Parked(v, i) ==
  LET r == visits[v] IN
  /\ pending' = [pending EXCEPT ![i] = PendingRow(r, IF r.session = Nobody THEN BindingCookie(v, i) ELSE r.session)]
  /\ browsers' = IF r.session = Nobody THEN [browsers EXCEPT ![r.browser].cookie = BindingCookie(v, i)] ELSE browsers
RedirectToClient(client, uri) == [client |-> client, uri |-> uri]
TrustedAlways(u, uris) == TRUE
Trusted(u, uris) == IsRegisteredRedirect(u, uris)
Answered(v, uris) ==
  LET r == visits[v]
      trusted == Trusted(r.uri, uris)
      sound == r.rest = "ok" /\ ParseScopes(r.scopes)
  IN /\ End(v)
     /\ gone' = IF trusted /\ ~sound THEN RedirectToClient(r.client, r.uri) ELSE Nobody
     /\ IF trusted /\ sound THEN \E i \in FreeIds : (\A j \in FreeIds : i <= j) /\ Parked(v, i) ELSE UNCHANGED <<pending, browsers>>
PageShown(v) == End(v) /\ gone' = Nobody /\ UNCHANGED <<pending, browsers>>
UpsertCache(c, mode, uris) == [clientRows EXCEPT ![c] = ClientRecord(IF clientRows[c] = Nobody THEN mode ELSE clientRows[c].mode, uris)]

(* resolve: configured, then the metadata document, then a dynamic registration. *)
Authorize(v) ==
  /\ visits[v].at = "idle" /\ Cardinality(FreeIds) > Cardinality({w \in Visit : visits[w].at # "idle"})
  /\ \E b \in Browser, c \in AnyClient, u \in Uri, scopes \in {AnyScope} \cup {{s} : s \in AnyScope}, rest \in {"ok", "invalid"} :
       visits' = [visits EXCEPT ![v] = [at |-> "resolve", browser |-> b, session |-> browsers[b].session, cookie |-> browsers[b].cookie,
                                        client |-> c, uri |-> u, scopes |-> scopes, rest |-> rest, forced |-> FALSE, hops |-> 0, address |-> "none"]]
  /\ gone' = Nobody /\ UNCHANGED <<resolverVars, aroundVars, listed, pending, issuedCodes, browsers>>
ResolveAt(v, place, forced) == visits' = [visits EXCEPT ![v].at = place, ![v].forced = forced, ![v].hops = 0]
ResolveKnown(v) ==
  LET r == visits[v] IN
  /\ r.at = "resolve" /\ r.client \notin DocumentClient
  /\ IF ~ValidateRedirectUri(r.uri) THEN PageShown(v)
       ELSE IF r.client \in configured THEN Answered(v, ConfiguredUris)
       ELSE IF clientRows[r.client] # Nobody /\ clientRows[r.client].mode = "dcr" THEN Answered(v, clientRows[r.client].redirects)
       ELSE PageShown(v)
  /\ UNCHANGED <<resolverVars, aroundVars, listed, issuedCodes>>
NoRefetchUnforced(v, uris) == Trusted(visits[v].uri, uris)
NoRefetch(v, uris) == Trusted(visits[v].uri, uris) \/ visits[v].forced
(* A document was found: another fetch when it does not list the URI and was not forced, or the answer. *)
RowFound(v, doc, cacheNow, fetchesNow) ==
  LET c == visits[v].client IN
  /\ cached' = cacheNow /\ fetches' = fetchesNow
  /\ IF NoRefetch(v, doc.redirects)
     THEN clientRows' = UpsertCache(c, "cimd", doc.redirects) /\ Answered(v, doc.redirects)
     ELSE ResolveAt(v, "limit", TRUE) /\ gone' = Nobody /\ UNCHANGED <<clientRows, pending, browsers>>
FallBack(v, fetchesNow) ==
  LET doc == CachedDocument(visits[v].client) IN
  IF doc = Nobody THEN PageShown(v) /\ fetches' = fetchesNow /\ UNCHANGED <<cached, clientRows>> ELSE RowFound(v, doc, cached, fetchesNow)
ResolveDocument(v) ==
  LET r == visits[v] IN
  /\ r.at = "resolve" /\ r.client \in DocumentClient
  /\ CASE ~ValidateRedirectUri(r.uri) -> PageShown(v) /\ UNCHANGED resolverVars
       [] ValidateRedirectUri(r.uri) /\ FreshDocument(r.client) # Nobody -> RowFound(v, FreshDocument(r.client), cached, fetches)
       [] OTHER -> ResolveAt(v, "limit", FALSE) /\ gone' = Nobody /\ UNCHANGED <<resolverVars, pending, browsers>>
  /\ UNCHANGED <<aroundVars, listed, issuedCodes>>

(* refetch: the limiter, then hops of an address check and a connection, at most two redirects. *)
FetchesSpent == fetches = 0
FetchStarts(v) ==
  /\ visits[v].at = "limit"
  /\ IF FetchesSpent THEN FallBack(v, 0)
     ELSE fetches' = fetches - 1 /\ ResolveAt(v, "lookup", visits[v].forced) /\ gone' = Nobody /\ UNCHANGED <<cached, clientRows, pending, browsers>>
  /\ UNCHANGED <<aroundVars, listed, issuedCodes>>
LookupAnswers(v) ==
  /\ visits[v].at = "lookup"
  /\ \E answer \in SUBSET {"public", "private"} :
       \/ /\ \E a \in PinnedAddress(answer) : visits' = [visits EXCEPT ![v].at = "connect", ![v].address = a]
          /\ gone' = Nobody /\ UNCHANGED <<resolverVars, pending, browsers>>
       \/ PinnedAddress(answer) = {} /\ FallBack(v, fetches)
  /\ UNCHANGED <<aroundVars, listed, issuedCodes>>
HostRedirects(v) ==
  /\ visits[v].at = "connect"
  /\ \E https \in BOOLEAN :
       IF https /\ visits[v].hops < 2
       THEN /\ visits' = [visits EXCEPT ![v].at = "lookup", ![v].hops = @ + 1, ![v].address = "none"]
            /\ gone' = Nobody /\ UNCHANGED <<resolverVars, pending, browsers>>
       ELSE FallBack(v, fetches)
  /\ UNCHANGED <<aroundVars, listed, issuedCodes>>
MetadataFails(v) == visits[v].at = "connect" /\ FallBack(v, fetches) /\ UNCHANGED <<aroundVars, listed, issuedCodes>>
Refetched(v) ==
  LET c == visits[v].client
      doc == hosted[c]
  IN /\ visits[v].at = "connect"
     /\ IF ParseCimdDocument(c, doc)
        THEN RowFound(v, doc, PutCache(c, doc), fetches)
        ELSE PageShown(v) /\ UNCHANGED resolverVars
     /\ UNCHANGED <<aroundVars, listed, issuedCodes>>

(* POST /oauth/authorize: the session is looked up as the request arrives, the rest after its body was read. *)
Submit(v) ==
  /\ visits[v].at = "idle"
  /\ \E b \in Browser, i \in ClientIds, approve \in BOOLEAN, ticked \in SUBSET AnyScope : \E token \in {Nobody, browsers[b].session} :
       /\ pending[i] # Nobody
       /\ visits' = [visits EXCEPT ![v] = [at |-> "body", browser |-> b, session |-> browsers[b].session, cookie |-> browsers[b].cookie,
                                           id |-> i, held |-> pending[i], csrf |-> token, approve |-> approve, ticked |-> ticked]]
  /\ gone' = Nobody /\ UNCHANGED <<resolverVars, aroundVars, listed, pending, issuedCodes, browsers>>
StateChange(v) == visits[v].session # Nobody /\ visits[v].csrf = visits[v].session
FindAsSent(v) == visits[v].held.state = "live"
FindLive(v) == LivePending(visits[v].id)
Issue(v, p, scopes) ==
  issuedCodes' = issuedCodes \cup {[id |-> visits[v].id, nth |-> Cardinality({c \in issuedCodes : c.id = visits[v].id}), client |-> p.client, uri |-> p.uri,
                        scopes |-> scopes, by |-> visits[v].browser, enabled |-> switchedOn]}
Decide(v) ==
  LET p == pending[visits[v].id]
      scopes == TickedScopes(p, visits[v])
  IN /\ visits[v].at = "body" /\ End(v)
     /\ IF StateChange(v) /\ FindLive(v) /\ IsBoundToBrowser(v, p)
        THEN \/ gone' = Nobody /\ UNCHANGED <<pending, issuedCodes>>      \* over the limit of this session
             \/ /\ pending' = [pending EXCEPT ![visits[v].id].state = "decided"]
                /\ gone' = RedirectToClient(p.client, p.uri)
                /\ IF visits[v].approve /\ scopes # {} THEN Issue(v, p, scopes) ELSE UNCHANGED issuedCodes
        ELSE gone' = Nobody /\ UNCHANGED <<pending, issuedCodes>>
     /\ UNCHANGED <<resolverVars, aroundVars, listed, browsers>>

(* POST /oauth/register, whose body was read. *)
Registrable(uris) == uris # {} /\ \A u \in uris : ValidateRedirectUri(u)
Register ==
  /\ \E c \in DynamicClient, uris \in SUBSET Uri :
       /\ clientRows[c] = Nobody /\ Registrable(uris)
       /\ clientRows' = UpsertCache(c, "dcr", uris) /\ listed' = [listed EXCEPT ![c] = uris]
  /\ gone' = Nobody /\ UNCHANGED <<cached, fetches, aroundVars, pending, issuedCodes, browsers, visits>>

(* Around it: the browser logs in and out, time passes, hosts change their documents, vaultgate restarts. *)
LogIn(b) ==
  /\ browsers[b].session = Nobody /\ sessions < SessionMax
  /\ sessions' = sessions + 1 /\ browsers' = [browsers EXCEPT ![b].session = [session |-> sessions']]
  /\ gone' = Nobody /\ UNCHANGED <<resolverVars, hosted, configured, switchedOn, restarts, listed, pending, issuedCodes, visits>>
LogOut(b) ==
  /\ browsers[b].session # Nobody /\ browsers' = [browsers EXCEPT ![b].session = Nobody]
  /\ gone' = Nobody /\ UNCHANGED <<resolverVars, aroundVars, listed, pending, issuedCodes, visits>>
PendingEnds ==
  /\ \E i \in ClientIds : LivePending(i) /\ pending' = [pending EXCEPT ![i].state = "expired"]
  /\ gone' = Nobody /\ UNCHANGED <<resolverVars, aroundVars, listed, issuedCodes, browsers, visits>>
CacheEnds ==
  /\ \E c \in DocumentClient, swept \in BOOLEAN :
       cached[c] # Nobody /\ cached' = [cached EXCEPT ![c] = IF swept THEN Nobody ELSE [@ EXCEPT !.fresh = FALSE]]
  /\ gone' = Nobody /\ UNCHANGED <<clientRows, fetches, aroundVars, listed, pending, issuedCodes, browsers, visits>>
HostChanges ==
  /\ \E c \in DocumentClient : \E d \in Metadata \ {hosted[c]} :
       /\ hosted' = [hosted EXCEPT ![c] = d]
       /\ listed' = [listed EXCEPT ![c] = @ \cup IF d.owner = c THEN d.redirects ELSE {}]
  /\ gone' = Nobody /\ UNCHANGED <<resolverVars, configured, switchedOn, sessions, restarts, pending, issuedCodes, browsers, visits>>
Restart ==
  /\ restarts < RestartMax /\ restarts' = restarts + 1
  /\ configured' \in SUBSET ConfiguredClient /\ switchedOn' \in EnabledScopes
  /\ clientRows' = Preregistered(configured', clientRows)
  /\ visits' = [v \in Visit |-> IdleVisit] /\ fetches' = FetchBudget /\ gone' = Nobody
  /\ UNCHANGED <<cached, hosted, sessions, listed, pending, issuedCodes, browsers>>

VisitStep(v) ==
  \/ ResolveKnown(v) \/ ResolveDocument(v) \/ FetchStarts(v) \/ LookupAnswers(v) \/ HostRedirects(v)
  \/ MetadataFails(v) \/ Refetched(v) \/ Decide(v)
ConsentNext ==
  \/ \E v \in Visit : Authorize(v) \/ Submit(v) \/ VisitStep(v)
  \/ Register \/ PendingEnds \/ CacheEnds \/ HostChanges \/ Restart
  \/ \E b \in Browser : LogIn(b) \/ LogOut(b)

ConsentSpec == ConsentInit /\ [][ConsentNext]_consentVars

(* Properties. *)
ConsentTypeOK ==
  /\ fetches \in 0..FetchBudget /\ sessions \in 0..SessionMax /\ configured \subseteq ConfiguredClient
  /\ \A v \in Visit : visits[v].at \in {"idle", "resolve", "limit", "lookup", "connect", "body"}
  /\ \A i \in ClientIds : pending[i] # Nobody => pending[i].state \in {"live", "expired", "decided"}
(* Whatever leaves for a client, a code or an error, leaves for a URI that client itself listed: its own document, registration or configuration. *)
LeavesForListed ==
  /\ gone # Nobody => IsRegisteredRedirect(gone.uri, listed[gone.client])
  /\ \A c \in issuedCodes : IsRegisteredRedirect(c.uri, listed[c.client])
(* One decision per request, by the browser that made the request, on what that request named. *)
DecidedOnce ==
  \A c \in issuedCodes :
    /\ \A d \in issuedCodes : c.id = d.id => c = d
    /\ LET p == pending[c.id] IN p.state = "decided" /\ p.by = c.by /\ p.client = c.client /\ p.uri = c.uri
(* A metadata fetch never connects to an address that is not public, redirected or not. *)
HopsPublic == \A v \in Visit : visits[v].at = "connect" => visits[v].address = "public" /\ visits[v].hops <= 2
(* A registration never becomes another kind of client, and a client taken out of the configuration is unknown again. *)
ModesKept == \A c \in AnyClient : clientRows[c] # Nobody =>
  clientRows[c].mode = CASE c \in DocumentClient -> "cimd" [] c \in DynamicClient -> "dcr" [] OTHER -> "preregistered"
ConsentSafe == ConsentTypeOK /\ LeavesForListed /\ DecidedOnce /\ HopsPublic /\ ModesKept
(* consent.ts on the ticked scopes: one the deployment does not enable is never granted, whatever the form says. *)
GrantsEnabled == \A c \in issuedCodes : c.scopes \subseteq c.enabled
(* A fetch answers, fails or is given up, and a form that was sent is read. *)
ConsentFairness == \A v \in Visit : WF_consentVars(VisitStep(v))
(* Every request is answered, whatever the hosts do. *)
VisitsEnd == \A v \in Visit : visits[v].at # "idle" ~> visits[v].at = "idle"
=============================================================================
