----------------------------- MODULE ServingProofs -----------------------------
(***************************************************************************)
(* Theorems about the processes that serve and what they answer, for every *)
(* set of releases, requests, peers, tokens, clients and every bound; and  *)
(* about the vault's items and the limiters behind them.                   *)
(***************************************************************************)
EXTENDS ServerLife, EndpointGates, Connectors, AuthorizeConsent, VaultItems,
        RateLimits, SubsequencesProofs, FiniteSetTheorems, TLAPS

-----------------------------------------------------------------------------
(* One process after another over one directory.                           *)

Migrations == UNION {{r[i] : i \in DOMAIN r} : r \in Releases}
Ups == {"starting", "serving", "draining"}

\* A process that runs was configured whole and runs one of the releases.
Running(l) ==
  /\ l \in [at : {"opening", "migrating", "starting", "serving", "draining", "stopping"}, starts : 0..StartMax,
            release : Releases, runs : {e \in Environment : Issues(e) = {}},
            store : {"closed", "open"}, vault : {"none", "started", "stopped"}, ready : BOOLEAN]
  /\ l.at = "opening" => l.store = "closed"
  /\ l.at \in {"migrating"} \cup Ups => l.store = "open"
  /\ l.at \in Ups => l.vault = "started"
LifeShape == life \in [at : {"off"}, starts : 0..StartMax] \/ Running(life)

\* What is committed went in by the migrations, one statement and one row each.
DirectoryShape ==
  /\ directory \in [schema : Seq(Migrations), registry : Seq(Migrations)]
  /\ directory.schema = directory.registry

\* The open transaction holds the release's next migration, with or without its row.
TransactionShape ==
  \/ written = NoTransaction
  \/ /\ life.at = "migrating" /\ IsPending
     /\ \E registry \in {directory.registry, Append(directory.registry, NextMigration)} :
          written = [open |-> TRUE, disk |-> [schema |-> Append(directory.schema, NextMigration), registry |-> registry]]

\* Past its migrations a release finds its own list, and requests only in between.
Served ==
  /\ life.at \in Ups \cup {"stopping"} => directory.registry = life.release
  /\ web \subseteq WebRequest /\ (web # {} => life.at \in {"serving", "draining"})

LifeInv == LifeShape /\ DirectoryShape /\ TransactionShape /\ Served

LEMMA LifeBegins == LifeInit => LifeInv
  BY LifeBounds DEF LifeInit, NoProcess, LifeInv, LifeShape, DirectoryShape, TransactionShape, Served, Ups

\* A release is a list of migrations, and what continues to its end is the release.
LEMMA ReleaseLists ==
  ASSUME NEW r \in Releases
  PROVE  r \in Seq(Migrations) /\ Len(r) > 0
  <1>1. r \in Seq({r[i] : i \in DOMAIN r}) /\ Len(r) > 0 BY ReleaseAssumption
  <1>2. DOMAIN r = 1..Len(r) /\ Len(r) \in Nat /\ r = [i \in 1..Len(r) |-> r[i]] BY <1>1
  <1>3. \A i \in 1..Len(r) : r[i] \in Migrations BY <1>2 DEF Migrations
  <1> QED BY <1>1, <1>2, <1>3

LEMMA ContinuedToTheEnd ==
  ASSUME NEW r \in Releases, NEW s \in Seq(Migrations), IsContinued(s, r), ~(Len(s) < Len(r))
  PROVE  s = r
  BY ReleaseLists DEF IsContinued

\* A process that ends leaves what was committed.
LEMMA ExitsSafely ==
  ASSUME LifeInv, Exit
  PROVE  LifeInv'
  <1>1. life'.at = "off" /\ life'.starts = life.starts /\ life' \in [at : {"off"}, starts : 0..StartMax]
    BY DEF LifeInv, LifeShape, Running, Exit, NoProcess
  <1>2. web' = {} /\ written' = NoTransaction /\ directory' = directory BY DEF Exit, NoProcess
  <1> QED BY <1>1, <1>2 DEF LifeInv, LifeShape, DirectoryShape, TransactionShape, Served, Ups

LEMMA ConfigLoads ==
  ASSUME LifeInv, LoadConfig
  PROVE  LifeInv'
  <1>1. life.starts + 1 \in 0..StartMax BY LifeBounds DEF LifeInv, LifeShape, Running, LoadConfig
  <1>2. life' \in [at : {"off"}, starts : 0..StartMax] \/ (Running(life)' /\ life'.at = "opening")
    BY <1>1 DEF LoadConfig, NoProcess, Running, Ups
  <1>3. web = {} /\ written = NoTransaction BY DEF LoadConfig, LifeInv, TransactionShape, Served
  <1>4. UNCHANGED <<directory, written, web>> BY DEF LoadConfig
  <1>5. life'.at \in {"off", "opening"} BY <1>2
  <1> QED BY <1>2, <1>3, <1>4, <1>5 DEF LifeInv, LifeShape, DirectoryShape, TransactionShape, Served, Ups

\* The steps that only move the process on.
LEMMA ProcessMoves ==
  ASSUME LifeInv, OpenStore \/ Migrated \/ Listen \/ VaultTurns \/ StopListening \/ StopVault \/ CloseStore
  PROVE  LifeInv'
  <1>1. UNCHANGED <<directory, written, web>>
    BY DEF OpenStore, Migrated, Listen, VaultTurns, StopListening, StopVault, CloseStore
  <1>2. Running(life) BY DEF LifeInv, LifeShape, OpenStore, Migrated, Listen, VaultTurns, StopListening, StopVault, CloseStore
  <1>3. life.at # "migrating" \/ Migrated
    BY DEF OpenStore, Migrated, Listen, VaultTurns, StopListening, StopVault, CloseStore
  <1>4. written = NoTransaction BY <1>3 DEF LifeInv, TransactionShape, Migrated, NoTransaction
  <1>5. Running(life)'
    BY <1>2 DEF Running, Ups, LifeAt, OpenStore, Migrated, Listen, VaultTurns, StopListening, StopVault, CloseStore
  <1>6. life'.release = life.release
    BY <1>2 DEF Running, LifeAt, OpenStore, Migrated, Listen, VaultTurns, StopListening, StopVault, CloseStore
  <1>7. Migrated => directory.registry = life.release
    BY <1>2, ContinuedToTheEnd DEF Migrated, IsPending, LifeInv, DirectoryShape, Running
  <1>8. life'.at \in Ups \cup {"stopping"} => Migrated \/ life.at \in Ups \cup {"stopping"}
    BY <1>2 DEF Running, Ups, LifeAt, OpenStore, Migrated, Listen, VaultTurns, StopListening, StopVault, CloseStore
  <1>9. web # {} => life'.at \in {"serving", "draining"}
    BY <1>2 DEF LifeInv, Served, IsDrained, Running, LifeAt, OpenStore, Migrated, Listen, VaultTurns, StopListening, StopVault, CloseStore
  <1> QED BY <1>1, <1>4, <1>5, <1>6, <1>7, <1>8, <1>9 DEF LifeInv, LifeShape, DirectoryShape, TransactionShape, Served

\* The steps of a migration.
LEMMA MigrationSteps ==
  ASSUME LifeInv, ApplySql \/ ApplyRow \/ CommitMigration
  PROVE  LifeInv'
  <1> DEFINE old == directory.registry  next == NextMigration
  <1>1. life.at = "migrating" /\ IsPending /\ UNCHANGED <<life, web>>
    BY DEF LifeInv, TransactionShape, NoTransaction, ApplySql, ApplyRow, CommitMigration
  <1>2. Running(life) BY <1>1 DEF LifeInv, LifeShape
  <1>3. directory = [schema |-> old, registry |-> old] /\ old \in Seq(Migrations)
    BY DEF LifeInv, DirectoryShape
  <1>4. next \in Migrations
    BY <1>1, <1>2, <1>3, ReleaseLists DEF IsPending, IsContinued, NextMigration, Running
  <1>5. Append(old, next) \in Seq(Migrations) /\ Append(old, next) # old
    BY <1>3, <1>4
  <1> HIDE DEF next, old
  <1>6. CASE ApplySql
    <2>1. written' = [open |-> TRUE, disk |-> [schema |-> Append(old, next), registry |-> old]] /\ directory' = directory
      BY <1>6, <1>3 DEF ApplySql, next
    <2> QED BY <2>1, <1>1, <1>3 DEF LifeInv, LifeShape, Running, DirectoryShape, TransactionShape, Served, old, next,
         IsPending, NextMigration
  <1>7. CASE ApplyRow
    <2>1. written = [open |-> TRUE, disk |-> [schema |-> Append(old, next), registry |-> old]]
      BY <1>7, <1>3, <1>5 DEF ApplyRow, LifeInv, TransactionShape, NoTransaction, old, next
    <2>2. written' = [open |-> TRUE, disk |-> [schema |-> Append(old, next), registry |-> Append(old, next)]] /\ directory' = directory
      BY <1>7, <2>1 DEF ApplyRow, next
    <2> QED BY <2>2, <1>1, <1>3 DEF LifeInv, LifeShape, Running, DirectoryShape, TransactionShape, Served, old, next,
         IsPending, NextMigration
  <1>8. CASE CommitMigration
    <2>1. written.disk = [schema |-> Append(old, next), registry |-> Append(old, next)]
      <3>1. written.open /\ written.disk.registry # old BY <1>8 DEF CommitMigration, old
      <3>2. PICK registry \in {old, Append(old, next)} :
              written = [open |-> TRUE, disk |-> [schema |-> Append(old, next), registry |-> registry]]
        BY <3>1, <1>3 DEF LifeInv, TransactionShape, NoTransaction, old, next
      <3> QED BY <3>1, <3>2
    <2>2. directory' = [schema |-> Append(old, next), registry |-> Append(old, next)] /\ written' = NoTransaction
      BY <1>8, <2>1 DEF CommitMigration
    <2> QED BY <2>2, <1>1, <1>5 DEF LifeInv, LifeShape, Running, DirectoryShape, TransactionShape, Served, Ups
  <1> QED BY <1>6, <1>7, <1>8

\* The requests, which leave the process alone.
LEMMA RequestsPass ==
  ASSUME LifeInv, NEW w \in WebRequest, RequestArrives(w) \/ RequestAnswered(w)
  PROVE  LifeInv'
  <1>1. UNCHANGED <<directory, written, life>> /\ web' \subseteq WebRequest /\ (web' # {} => life.at \in {"serving", "draining"})
    BY DEF RequestArrives, RequestAnswered, LifeInv, Served
  <1> QED BY <1>1 DEF LifeInv, LifeShape, Running, DirectoryShape, TransactionShape, Served, Ups, IsPending, NextMigration

LEMMA LifeHolds == LifeSpec => []LifeInv
  <1>1. LifeInv /\ [LifeNext]_lifeVars => LifeInv'
    <2> SUFFICES ASSUME LifeInv, [LifeNext]_lifeVars PROVE LifeInv' OBVIOUS
    <2>1. CASE LoadConfig BY <2>1, ConfigLoads
    <2>2. CASE OpenFails \/ ApplyFails \/ ClientsRefused \/ Killed \/ RefusesStart \/ Stopped
      BY <2>2, ExitsSafely DEF OpenFails, ApplyFails, ClientsRefused, Killed, RefusesStart, Stopped
    <2>3. CASE OpenStore \/ Migrated \/ Listen \/ VaultTurns \/ StopListening \/ StopVault \/ CloseStore BY <2>3, ProcessMoves
    <2>4. CASE ApplySql \/ ApplyRow \/ CommitMigration BY <2>4, MigrationSteps
    <2>5. CASE \E w \in WebRequest : RequestArrives(w) \/ RequestAnswered(w) BY <2>5, RequestsPass
    <2>6. CASE UNCHANGED lifeVars
      BY <2>6 DEF lifeVars, LifeInv, LifeShape, Running, DirectoryShape, TransactionShape, Served, Ups, IsPending, NextMigration
    <2> QED BY <2>1, <2>2, <2>3, <2>4, <2>5, <2>6 DEF LifeNext, LifeStep
  <1> QED BY LifeBegins, <1>1, PTL DEF LifeSpec

\* LifeSafe (src/main.ts, src/storage/migrate.ts, src/config): whatever releases
\* ran before and wherever one was killed, the schema is what schema_migrations
\* says, a release serves on its own migrations only, with a configuration that
\* was accepted whole, and a request keeps its store and vault until it is answered.
THEOREM LifeIsSafe == LifeSpec => []LifeSafe
  <1>1. LifeInv => LifeSafe
    <2> SUFFICES ASSUME LifeInv PROVE LifeSafe OBVIOUS
    <2>1. LifeTypeOK BY DEF LifeInv, LifeShape, Running, Served, LifeTypeOK
    <2>2. RegistryTells BY DEF LifeInv, DirectoryShape, RegistryTells
    <2>3. ServesItsSchema BY DEF LifeInv, Served, ServesItsSchema, Ups
    <2>4. RequestsKeepTheirs BY DEF LifeInv, LifeShape, Running, Served, RequestsKeepTheirs, Ups
    <2>5. RunsConfigured
      <3> SUFFICES ASSUME life.at = "serving" 
            PROVE  /\ life.runs.listen # "outside" /\ (life.runs.listen # "unset" => life.runs.tags /\ life.runs.scoped)
                   /\ life.runs.codeOn => life.runs.code = "inside"
        BY DEF RunsConfigured
      <3> DEFINE e == life.runs
      <3>1. e \in Environment /\ Issues(e) = {} BY DEF LifeInv, LifeShape, Running
      <3> HIDE DEF e
      <3>2. FieldIssues(e) = {} /\ CrossIssues(e) = {} BY <3>1 DEF Issues
      <3>3. e.code # "outside" /\ e.listen # "outside" BY <3>2 DEF FieldIssues
      <3>4. ~(e.codeOn /\ e.code = "unset") /\ ~(e.listen # "unset" /\ ~e.tags) /\ ~(e.listen # "unset" /\ ~e.scoped)
        BY <3>2 DEF CrossIssues
      <3> QED BY <3>1, <3>3, <3>4, EnvironmentAssumption DEF e
    <2> QED BY <2>1, <2>2, <2>3, <2>4, <2>5 DEF LifeSafe
  <1> QED BY LifeHolds, <1>1, PTL
-----------------------------------------------------------------------------
(* The two doors agents come through.                                      *)

\* What every field read below rests on: the fields a request carries.
RelayFields == {"at", "door", "peer", "route", "good"}
McpFields == {"at", "door", "bearer", "good"}

\* A relay request that went past the daemon came from a node that was a member.
Relayed(k) ==
  /\ k.door = "relay" /\ RelayFields \subseteq DOMAIN k
  /\ k.at \in Routes \cup {"whois", "syncing", "reveal"}
  /\ k.at = "whois" => k.route \in Routes /\ (tailnet[k.peer] = "member" => k.good)
  /\ k.at # "whois" => k.good
  /\ k.at = "unknown" => k.route = "unknown"
  /\ k.at \notin {"syncing", "reveal"} => DOMAIN k = RelayFields
\* A call on /mcp past the token's verification had a token that was good when it came.
Called(k) ==
  /\ k.door = "mcp" /\ McpFields \subseteq DOMAIN k /\ k.at \in {"verify", "body", "tool"}
  /\ k.at = "verify" => (k.bearer \notin revokedHere => k.good)
  /\ k.at # "verify" => k.good
  /\ k.at # "tool" => DOMAIN k = McpFields
  /\ k.at = "tool" => k.need \in Need /\ IsMet(k.need, EffectiveScopes(k.bearer))

\* An answer keeps the request as it was judged, what it shows and what was recorded.
AnswerKept(k, records) ==
  /\ k.at = "answered"
  /\ \/ k.to.door = "mcp" /\ (k.to.at = "tool" => Called(k.to))
     \/ /\ k.to.door = "relay" /\ k.to.at # "tool"
        /\ k.items # {} => k.to.good
        /\ \A i \in k.items : <<"item", i>> \in records
        /\ records # {} \/ k.to.route = "unknown"
CallKept(k, records) ==
  \/ k = IdleRequest
  \/ Relayed(k) /\ (k.at = "reveal" => {"left", "out"} \subseteq DOMAIN k /\ \A i \in k.out : <<"item", i>> \in records)
  \/ Called(k)
  \/ AnswerKept(k, records)

\* The syncs as they started, the last one not ahead of the clock.
SyncEntry == [at : 0..GateClockMax, outcome : {"running", "ok", "failed"}]
SyncsKept ==
  /\ relaySyncs \in Seq(SyncEntry) /\ Len(relaySyncs) <= Syncs /\ SyncsSpaced
  /\ relaySyncs # <<>> => relaySyncs[Len(relaySyncs)].at <= gateClock
DoorKept ==
  /\ gateClock \in 0..GateClockMax /\ tailnet \in [Peer -> Standing] /\ revokedHere \subseteq Bearer
  /\ door \in {"binding", "listening", "retry", "closed"}
CallsKept ==
  /\ DOMAIN gcall = GateCall /\ audited = [c \in GateCall |-> audited[c]]
  /\ \A c \in GateCall : CallKept(gcall[c], audited[c])
GateInv == DoorKept /\ SyncsKept /\ CallsKept

LEMMA GatesBegin == GateInit => GateInv
  <1> SUFFICES ASSUME GateInit PROVE GateInv OBVIOUS
  <1>1. DoorKept BY GateBounds DEF GateInit, DoorKept, Standing
  <1>2. SyncsKept BY GateBounds DEF GateInit, SyncsKept, SyncsSpaced
  <1>3. CallsKept BY DEF GateInit, CallsKept, CallKept
  <1> QED BY <1>1, <1>2, <1>3 DEF GateInv

\* A request that is replaced by one that may be there leaves the others alone.
LEMMA OneCallMoves ==
  ASSUME GateInv, NEW c \in GateCall, NEW k, NEW records, To(c, k), audited' = [audited EXCEPT ![c] = records],
         UNCHANGED <<gateClock, tailnet, revokedHere, door>>, SyncsKept', CallKept(k, records)
  PROVE  GateInv'
  <1>1. \A d \in GateCall : CallKept(gcall'[d], audited'[d])
    <2> TAKE d \in GateCall
    <2>1. CASE d = c BY <2>1 DEF To, GateInv, CallsKept
    <2>2. CASE d # c
      <3>1. gcall'[d] = gcall[d] /\ audited'[d] = audited[d] BY <2>2 DEF To, GateInv, CallsKept
      <3> QED BY <3>1 DEF GateInv, CallsKept
    <2> QED BY <2>1, <2>2
  <1>2. ASSUME NEW d \in GateCall PROVE CallKept(gcall[d], audited[d])'
    <2>1. CallKept(gcall'[d], audited'[d]) BY <1>1
    <2>2. Relayed(gcall'[d]) => Relayed(gcall[d])' BY DEF Relayed
    <2>3. Called(gcall'[d]) => Called(gcall[d])' BY DEF Called
    <2>4. Called(gcall'[d].to) => Called(gcall[d].to)' BY DEF Called
    <2> QED BY <2>1, <2>2, <2>3, <2>4 DEF CallKept, AnswerKept
  <1>3. DOMAIN gcall' = GateCall /\ audited' = [d \in GateCall |-> audited'[d]] BY DEF To, GateInv, CallsKept
  <1> QED BY <1>2, <1>3 DEF GateInv, DoorKept, CallsKept
\* The relay's requests, from the daemon's answer to the last item.
LEMMA RelayGoesOn ==
  ASSUME NEW k, Relayed(k), NEW place \in {"syncing", "reveal"}, NEW learnt, DOMAIN learnt \cap RelayFields = {}, k.at # "whois"
  PROVE  Relayed(GoesTo(k, place, learnt))
  <1> DEFINE g == GoesTo(k, place, learnt)
  <1>1. g.at = place /\ RelayFields \subseteq DOMAIN g BY DEF GoesTo, Relayed, RelayFields
  <1>2. g.door = k.door /\ g.good = k.good BY DEF GoesTo, Relayed, RelayFields
  <1> HIDE DEF g
  <1>3. Relayed(g) BY <1>1, <1>2 DEF Relayed, Routes
  <1> QED BY <1>3 DEF g

\* The same for a step that leaves everything else alone, records or not.
LEMMA QuietCall ==
  ASSUME GateInv, NEW c \in GateCall, NEW k, NEW records, To(c, k), RestOfGate, CallKept(k, records),
         \/ audited' = [audited EXCEPT ![c] = records]
         \/ UNCHANGED audited /\ records = audited[c]
  PROVE  GateInv'
  <1>1. audited' = [audited EXCEPT ![c] = records] BY DEF GateInv, CallsKept
  <1>2. SyncsKept' BY DEF GateInv, SyncsKept, SyncsSpaced, RestOfGate
  <1> QED BY <1>1, <1>2, OneCallMoves DEF RestOfGate

\* An answer to a relay request that shows nothing, recorded unless it was for no route.
LEMMA RelayAnswered ==
  ASSUME GateInv, NEW c \in GateCall, Relayed(gcall[c]), NEW status, NEW what, Answer(c, status, {}), RestOfGate,
         Recorded(c, what) \/ (UNCHANGED audited /\ gcall[c].at = "unknown")
  PROVE  GateInv'
  <1> DEFINE k == [at |-> "answered", to |-> gcall[c], status |-> status, items |-> {}]
             records == IF Recorded(c, what) THEN audited[c] \cup {<<what, 0>>} ELSE audited[c]
  <1>1. To(c, k) BY DEF Answer
  <1>2. audited' = [audited EXCEPT ![c] = records] \/ (UNCHANGED audited /\ records = audited[c]) BY DEF Recorded
  <1>3. AnswerKept(k, records)
    <2>1. records # {} \/ gcall[c].route = "unknown" BY DEF Relayed
    <2>2. k.at = "answered" /\ k.to = gcall[c] /\ k.items = {} BY DEF k
    <2>3. gcall[c].door = "relay" /\ gcall[c].at # "tool" BY DEF Relayed, Routes
    <2> HIDE DEF k, records
    <2> QED BY <2>1, <2>2, <2>3 DEF AnswerKept
  <1>4. CallKept(k, records) BY <1>3 DEF CallKept
  <1> HIDE DEF k, records
  <1> QED BY <1>1, <1>2, <1>4, QuietCall

\* A relay request is one of the stages it can be at.
LEMMA RelayStages ==
  ASSUME GateInv, NEW c \in GateCall, gcall[c].at \in Routes \cup {"whois", "syncing", "reveal"}
  PROVE  Relayed(gcall[c]) /\ (gcall[c].at = "reveal" =>
           {"left", "out"} \subseteq DOMAIN gcall[c] /\ \A i \in gcall[c].out : <<"item", i>> \in audited[c])
  BY DEF GateInv, CallsKept, CallKept, Called, AnswerKept, IdleRequest, Routes

LEMMA RelayIsAsked ==
  ASSUME GateInv, NEW c \in GateCall, RelayArrives(c)
  PROVE  GateInv'
  <1>1. PICK n \in Peer, route \in Routes :
          LET asked == [at |-> "whois", door |-> "relay", peer |-> n, route |-> route, good |-> tailnet[n] = "member"]
          IN \/ To(c, asked) /\ UNCHANGED audited
             \/ To(c, [at |-> "answered", to |-> asked, status |-> 403, items |-> {}]) /\ Recorded(c, "denied")
    BY DEF RelayArrives
  <1> DEFINE asked == [at |-> "whois", door |-> "relay", peer |-> n, route |-> route, good |-> tailnet[n] = "member"]
  <1>2. Relayed(asked) BY DEF Relayed, RelayFields, Routes
  <1>3. RestOfGate BY DEF RelayArrives
  <1>4. CASE To(c, asked) /\ UNCHANGED audited
    <2>1. CallKept(asked, audited[c]) BY <1>2 DEF CallKept
    <2> QED BY <2>1, <1>3, <1>4, QuietCall
  <1>5. CASE To(c, [at |-> "answered", to |-> asked, status |-> 403, items |-> {}]) /\ Recorded(c, "denied")
    <2> DEFINE records == audited[c] \cup {<<"denied", 0>>}
    <2>1. AnswerKept([at |-> "answered", to |-> asked, status |-> 403, items |-> {}], records) BY DEF AnswerKept
    <2>2. CallKept([at |-> "answered", to |-> asked, status |-> 403, items |-> {}], records) BY <2>1 DEF CallKept
    <2>3. audited' = [audited EXCEPT ![c] = records] BY <1>5 DEF Recorded
    <2> HIDE DEF asked, records
    <2> QED BY <2>2, <2>3, <1>3, <1>5, QuietCall
  <1> QED BY <1>1, <1>4, <1>5

LEMMA DaemonAnswers ==
  ASSUME GateInv, NEW c \in GateCall, WhoIsAnswers(c)
  PROVE  GateInv'
  <1> DEFINE k == gcall[c]
  <1>1. k.at = "whois" /\ RestOfGate BY DEF WhoIsAnswers
  <1>2. Relayed(k) BY <1>1, RelayStages
  <1>3. CASE \E status : Answer(c, status, {}) /\ Recorded(c, "denied") BY <1>1, <1>2, <1>3, RelayAnswered
  <1>4. CASE Admitted(tailnet[k.peer]) /\ To(c, [k EXCEPT !.at = k.route]) /\ UNCHANGED audited
    <2> DEFINE m == [k EXCEPT !.at = k.route]
    <2>1. k.good /\ k.route \in Routes BY <1>1, <1>2, <1>4 DEF Relayed, Admitted
    <2>2. m.at = k.route /\ m.door = k.door /\ m.good = k.good /\ m.route = k.route /\ DOMAIN m = DOMAIN k
      BY <1>2 DEF Relayed, RelayFields
    <2> HIDE DEF m
    <2>3. Relayed(m) BY <2>1, <2>2, <1>1, <1>2 DEF Relayed, Routes
    <2>4. CallKept(m, audited[c]) BY <2>1, <2>2, <2>3 DEF CallKept, Routes
    <2> QED BY <2>4, <1>1, <1>4, QuietCall DEF m
  <1> QED BY <1>3, <1>4 DEF WhoIsAnswers

LEMMA RelayRoutes ==
  ASSUME GateInv, NEW c \in GateCall, Unknown(c) \/ Status(c) \/ RelaySyncAnswers(c)
  PROVE  GateInv'
  <1>1. gcall[c].at \in {"unknown", "status", "syncing"} /\ RestOfGate BY DEF Unknown, Status, RelaySyncAnswers
  <1>2. Relayed(gcall[c]) BY <1>1, RelayStages DEF Routes
  <1>3. \E status, what : Answer(c, status, {}) /\ (Recorded(c, what) \/ (UNCHANGED audited /\ gcall[c].at = "unknown"))
    BY DEF Unknown, Status, RelaySyncAnswers
  <1> QED BY <1>1, <1>2, <1>3, RelayAnswered
\* The steps that take a request on to more of what it asks.
LEMMA SyncsAreSpaced ==
  ASSUME GateInv, Len(relaySyncs) < Syncs, ~Joins, relaySyncs' = Append(relaySyncs, StartedNow), UNCHANGED gateClock
  PROVE  SyncsKept'
  <1> DEFINE n == Len(relaySyncs)
  <1>1. relaySyncs \in Seq(SyncEntry) /\ n \in Nat /\ gateClock \in 0..GateClockMax
    BY DEF GateInv, SyncsKept, DoorKept
  <1>2. StartedNow \in SyncEntry /\ StartedNow.at = gateClock BY <1>1 DEF StartedNow, SyncEntry
  <1>3. relaySyncs' \in Seq(SyncEntry) /\ Len(relaySyncs') = n + 1 BY <1>1, <1>2
  <1>4. relaySyncs'[n + 1] = StartedNow /\ \A i \in 1..n : relaySyncs'[i] = relaySyncs[i] BY <1>1, <1>2
  <1>5. n > 0 => relaySyncs[n].at \in Int /\ gateClock - relaySyncs[n].at >= SyncEvery
    <2> SUFFICES ASSUME n > 0 PROVE relaySyncs[n].at \in Int /\ gateClock - relaySyncs[n].at >= SyncEvery OBVIOUS
    <2>1. relaySyncs # <<>>
      <3>1. Len(<<>>) = 0 OBVIOUS
      <3> QED BY <3>1
    <2>2. relaySyncs[n].at \in Int
      <3>1. n \in 1..n BY <1>1
      <3>2. relaySyncs[n] \in SyncEntry BY <3>1, <1>1
      <3> QED BY <3>2 DEF SyncEntry
    <2> QED BY <2>1, <2>2, <1>1, GateBounds DEF Joins
  <1>6. SyncsSpaced'
    <2> SUFFICES ASSUME NEW i \in 1..n PROVE relaySyncs'[i + 1].at - relaySyncs'[i].at >= SyncEvery
      BY <1>3, <1>1 DEF SyncsSpaced
    <2>1. CASE i = n BY <2>1, <1>1, <1>2, <1>4, <1>5
    <2>2. CASE i # n
      <3>1. i \in 1..(n - 1) /\ i + 1 \in 1..n BY <2>2, <1>1
      <3> QED BY <3>1, <1>4 DEF GateInv, SyncsKept, SyncsSpaced
    <2> QED BY <2>1, <2>2
  <1>7. relaySyncs'[Len(relaySyncs')].at <= gateClock' BY <1>1, <1>2, <1>3, <1>4
  <1> QED BY <1>1, <1>3, <1>6, <1>7, GateBounds DEF SyncsKept, SyncsSpaced

LEMMA SyncIsAsked ==
  ASSUME GateInv, NEW c \in GateCall, SyncJoins(c) \/ SyncStarts(c)
  PROVE  GateInv'
  <1>1. gcall[c].at = "sync" /\ UNCHANGED audited /\ \E n : To(c, GoesTo(gcall[c], "syncing", [sync |-> n]))
    BY DEF SyncJoins, SyncStarts
  <1>2. PICK n : To(c, GoesTo(gcall[c], "syncing", [sync |-> n])) BY <1>1
  <1> DEFINE m == GoesTo(gcall[c], "syncing", [sync |-> n])
  <1>3. Relayed(gcall[c]) BY <1>1, RelayStages DEF Routes
  <1>4. Relayed(m) BY <1>1, <1>3, RelayGoesOn DEF RelayFields
  <1>5. m.at = "syncing" BY <1>3 DEF GoesTo, Relayed, RelayFields
  <1> HIDE DEF m
  <1>6. CallKept(m, audited[c]) BY <1>4, <1>5 DEF CallKept
  <1>7. CASE SyncJoins(c) BY <1>7, <1>1, <1>2, <1>6, QuietCall DEF SyncJoins, m
  <1>8. CASE SyncStarts(c)
    <2>1. UNCHANGED <<gateClock, tailnet, revokedHere, door>> BY <1>8 DEF SyncStarts
    <2>2. SyncsKept' BY <1>8, SyncsAreSpaced DEF SyncStarts
    <2>3. audited' = [audited EXCEPT ![c] = audited[c]] BY <1>1 DEF GateInv, CallsKept
    <2> QED BY <2>1, <2>2, <2>3, <1>2, <1>6, OneCallMoves DEF m
  <1> QED BY <1>7, <1>8

LEMMA ItemsAreLookedUp ==
  ASSUME GateInv, NEW c \in GateCall, LooksUp(c)
  PROVE  GateInv'
  <1> DEFINE k == gcall[c]
  <1>1. k.at \in {"item", "list"} /\ RestOfGate BY DEF LooksUp
  <1>2. Relayed(k) BY <1>1, RelayStages DEF Routes
  <1>3. ASSUME NEW status, NEW what, Answer(c, status, {}), Recorded(c, what) PROVE GateInv'
    BY <1>1, <1>2, <1>3, RelayAnswered
  <1>4. ASSUME NEW n, To(c, GoesTo(k, "reveal", [left |-> 1..n, out |-> {}])), UNCHANGED audited PROVE GateInv'
    <2> DEFINE m == GoesTo(k, "reveal", [left |-> 1..n, out |-> {}])
    <2>1. Relayed(m) BY <1>1, <1>2, RelayGoesOn DEF RelayFields
    <2>2. {"left", "out"} \subseteq DOMAIN m BY DEF GoesTo
    <2>3. m.out = {} BY <1>1, <1>2 DEF GoesTo, Relayed, RelayFields
    <2> HIDE DEF m
    <2>4. CallKept(m, audited[c]) BY <2>1, <2>2, <2>3 DEF CallKept
    <2> QED BY <2>4, <1>1, <1>4, QuietCall DEF m
  <1>5. CASE \E status \in {400, 404, 503} : Answer(c, status, {}) /\ Recorded(c, "failure")
    BY ONLY <1>3, <1>5, Zenon
  <1>6. CASE k.at = "list" /\ Answer(c, 200, {}) /\ Recorded(c, "empty")
    BY ONLY <1>3, <1>6, Zenon
  <1>7. CASE \E n \in 1..(IF k.at = "item" THEN 1 ELSE RelayListMax) :
               To(c, GoesTo(k, "reveal", [left |-> 1..n, out |-> {}])) /\ UNCHANGED audited
    BY ONLY <1>4, <1>7, Zenon
  <1>8. \/ \E status \in {400, 404, 503} : Answer(c, status, {}) /\ Recorded(c, "failure")
        \/ k.at = "list" /\ Answer(c, 200, {}) /\ Recorded(c, "empty")
        \/ \E n \in 1..(IF k.at = "item" THEN 1 ELSE RelayListMax) :
             To(c, GoesTo(k, "reveal", [left |-> 1..n, out |-> {}])) /\ UNCHANGED audited
    BY Zenon DEF LooksUp
  <1> QED BY <1>5, <1>6, <1>7, <1>8

\* An item is shown once it is recorded, or the request fails.
LEMMA ItemIsRevealed ==
  ASSUME GateInv, NEW c \in GateCall, Reveal(c)
  PROVE  GateInv'
  <1> DEFINE k == gcall[c]  i == NextLeft(k)  records == audited[c] \cup {<<"item", i>>}
  <1>1. k.at = "reveal" /\ RestOfGate BY DEF Reveal
  <1>2. Relayed(k) /\ {"left", "out"} \subseteq DOMAIN k /\ \A j \in k.out : <<"item", j>> \in audited[c]
    BY <1>1, RelayStages
  <1>3. CASE Recorded(c, "reveal failed") /\ Answer(c, 503, {}) BY <1>1, <1>2, <1>3, RelayAnswered
  <1>4. CASE RecordedItem(c, i) /\ Answer(c, 200, k.out \cup {i})
    <2> DEFINE m == [at |-> "answered", to |-> k, status |-> 200, items |-> k.out \cup {i}]
    <2>1. audited' = [audited EXCEPT ![c] = records] BY <1>4 DEF RecordedItem
    <2>2. To(c, m) BY <1>4 DEF Answer
    <2>3. m.at = "answered" /\ m.to = k /\ m.items = k.out \cup {i} OBVIOUS
    <2>4. \A j \in k.out \cup {i} : <<"item", j>> \in records BY <1>2
    <2>5. k.door = "relay" /\ k.good /\ records # {} BY <1>1, <1>2 DEF Relayed
    <2> HIDE DEF m, records, i
    <2>6. CallKept(m, records) BY <2>3, <2>4, <2>5, <1>1 DEF CallKept, AnswerKept
    <2> QED BY <2>1, <2>2, <2>6, <1>1, QuietCall
  <1>5. CASE RecordedItem(c, i) /\ To(c, [k EXCEPT !.left = @ \ {i}, !.out = @ \cup {i}])
    <2> DEFINE m == [k EXCEPT !.left = @ \ {i}, !.out = @ \cup {i}]
    <2>1. audited' = [audited EXCEPT ![c] = records] BY <1>5 DEF RecordedItem
    <2>2. m.at = k.at /\ m.door = k.door /\ m.route = k.route /\ m.good = k.good /\ m.peer = k.peer /\ m.out = k.out \cup {i}
          /\ DOMAIN m = DOMAIN k
      BY <1>2
    <2>3. \A j \in k.out \cup {i} : <<"item", j>> \in records BY <1>2
    <2>4. To(c, m) BY <1>5
    <2> HIDE DEF m, records, i
    <2>5. Relayed(m) BY <2>2, <1>1, <1>2 DEF Relayed
    <2>6. CallKept(m, records) BY <2>2, <2>3, <2>5, <1>2 DEF CallKept
    <2> QED BY <2>1, <2>4, <2>6, <1>1, QuietCall
  <1> QED BY <1>3, <1>4, <1>5 DEF Reveal

\* The calls on /mcp.
LEMMA CallStages ==
  ASSUME GateInv, NEW c \in GateCall, gcall[c].at \in {"verify", "body", "tool"}
  PROVE  Called(gcall[c])
  BY DEF GateInv, CallsKept, CallKept, Relayed, AnswerKept, IdleRequest, Routes

LEMMA CallAnswered ==
  ASSUME GateInv, NEW c \in GateCall, Called(gcall[c]), NEW status, NEW found, Answer(c, status, found), RestOfGate,
         \E what : Recorded(c, what) \/ UNCHANGED audited
  PROVE  GateInv'
  <1> DEFINE k == [at |-> "answered", to |-> gcall[c], status |-> status, items |-> found]
  <1>1. To(c, k) BY DEF Answer
  <1>2. \A records : CallKept(k, records) BY DEF CallKept, AnswerKept, Called
  <1> HIDE DEF k
  <1>3. PICK what : Recorded(c, what) \/ UNCHANGED audited OBVIOUS
  <1>4. CASE Recorded(c, what)
    <2> DEFINE records == audited[c] \cup {<<what, 0>>}
    <2>1. audited' = [audited EXCEPT ![c] = records] BY <1>4 DEF Recorded
    <2> HIDE DEF records
    <2> QED BY <2>1, <1>1, <1>2, QuietCall
  <1>5. CASE UNCHANGED audited BY <1>5, <1>1, <1>2, QuietCall
  <1> QED BY <1>3, <1>4, <1>5

LEMMA CallArrives ==
  ASSUME GateInv, NEW c \in GateCall, McpArrives(c)
  PROVE  GateInv'
  <1>1. PICK t \in Bearer :
          LET asked == [at |-> "verify", door |-> "mcp", bearer |-> t, good |-> t \notin revokedHere]
          IN \/ To(c, asked)
             \/ \E status \in {400, 401, 403, 413} : To(c, [at |-> "answered", to |-> asked, status |-> status, items |-> {}])
    BY DEF McpArrives
  <1> DEFINE asked == [at |-> "verify", door |-> "mcp", bearer |-> t, good |-> t \notin revokedHere]
  <1>2. RestOfGate /\ UNCHANGED audited BY DEF McpArrives
  <1>3. CallKept(asked, audited[c]) BY DEF CallKept, Called, McpFields
  <1>4. \A status : CallKept([at |-> "answered", to |-> asked, status |-> status, items |-> {}], audited[c])
    BY DEF CallKept, AnswerKept
  <1>5. \E m : To(c, m) /\ CallKept(m, audited[c]) BY <1>1, <1>3, <1>4
  <1> HIDE DEF asked
  <1> QED BY <1>2, <1>5, QuietCall

LEMMA CallVerified ==
  ASSUME GateInv, NEW c \in GateCall, McpVerifies(c)
  PROVE  GateInv'
  <1> DEFINE k == gcall[c]
  <1>1. k.at = "verify" /\ RestOfGate /\ UNCHANGED audited BY DEF McpVerifies
  <1>2. Called(k) BY <1>1, CallStages
  <1>3. CASE Accepted(k.bearer)
    <2> DEFINE m == [k EXCEPT !.at = "body"]
    <2>1. To(c, m) BY <1>3 DEF McpVerifies
    <2>2. m.at = "body" /\ m.door = k.door /\ m.good = k.good /\ m.bearer = k.bearer /\ DOMAIN m = DOMAIN k
      BY <1>2 DEF Called, McpFields
    <2>3. k.good BY <1>1, <1>2, <1>3 DEF Called, Accepted
    <2> HIDE DEF m
    <2>4. Called(m) BY <2>2, <2>3, <1>1, <1>2 DEF Called
    <2>5. CallKept(m, audited[c]) BY <2>4 DEF CallKept
    <2> QED BY <2>1, <2>5, <1>1, QuietCall
  <1>4. CASE ~Accepted(k.bearer) BY <1>1, <1>2, <1>4, CallAnswered DEF McpVerifies, Challenged
  <1> QED BY <1>3, <1>4

LEMMA CallGated ==
  ASSUME GateInv, NEW c \in GateCall, McpGate(c)
  PROVE  GateInv'
  <1> DEFINE k == gcall[c]
  <1>1. k.at = "body" /\ RestOfGate BY DEF McpGate
  <1>2. Called(k) BY <1>1, CallStages
  <1>3. CASE \E status : Answer(c, status, {}) /\ (Recorded(c, "denied") \/ UNCHANGED audited)
    BY <1>1, <1>2, <1>3, CallAnswered
  <1>4. CASE \E need \in Need : IsMet(need, EffectiveScopes(k.bearer)) /\ UNCHANGED audited
                               /\ To(c, GoesTo(k, "tool", [need |-> need]))
    <2>1. PICK need \in Need : IsMet(need, EffectiveScopes(k.bearer)) /\ To(c, GoesTo(k, "tool", [need |-> need]))
      BY <1>4
    <2> DEFINE m == GoesTo(k, "tool", [need |-> need])
    <2>2. m.at = "tool" /\ m.door = k.door /\ m.good = k.good /\ m.bearer = k.bearer /\ McpFields \subseteq DOMAIN m
      BY <1>2 DEF GoesTo, Called, McpFields
    <2>3. m.need = need BY <1>1, <1>2 DEF GoesTo, Called, McpFields
    <2> HIDE DEF m
    <2>4. Called(m) BY <2>1, <2>2, <2>3, <1>1, <1>2 DEF Called
    <2>5. CallKept(m, audited[c]) BY <2>4 DEF CallKept
    <2> QED BY <2>1, <2>5, <1>1, <1>4, QuietCall DEF m
  <1> QED BY <1>3, <1>4 DEF McpGate, Challenged

LEMMA ToolIsDone ==
  ASSUME GateInv, NEW c \in GateCall, ToolEnds(c)
  PROVE  GateInv'
  BY CallStages, CallAnswered DEF ToolEnds

LEMMA RequestIsOver ==
  ASSUME GateInv, NEW c \in GateCall, RequestOver(c)
  PROVE  GateInv'
  <1>1. CallKept(IdleRequest, {}) BY DEF CallKept
  <1> QED BY <1>1, QuietCall DEF RequestOver
\* What moves around the requests.
LEMMA GateAround ==
  ASSUME GateInv, DoorStep \/ DoorCloses \/ InterfaceComes \/ GateTick \/ SyncEnds
  PROVE  GateInv'
  <1>1. UNCHANGED <<gcall, audited, tailnet, revokedHere>>
    BY DEF DoorStep, Bound, BindFails, RetryBind, DoorCloses, InterfaceComes, GateTick, SyncEnds, RestOfDoor
  <1>2. CallsKept' BY <1>1 DEF GateInv, CallsKept, CallKept, Relayed, Called, AnswerKept
  <1>3. DoorKept'
    BY <1>1, GateBounds
    DEF GateInv, DoorKept, DoorStep, Bound, BindFails, RetryBind, DoorCloses, InterfaceComes, GateTick, SyncEnds, RestOfDoor
  <1>4. SyncsKept'
    <2>1. relaySyncs \in Seq(SyncEntry) BY DEF GateInv, SyncsKept
    <2>2. CASE SyncEnds
      <3>1. PICK i \in DOMAIN relaySyncs, outcome \in {"ok", "failed"} : relaySyncs' = [relaySyncs EXCEPT ![i].outcome = outcome]
        BY <2>2 DEF SyncEnds
      <3>2. i \in 1..Len(relaySyncs) /\ relaySyncs[i] \in SyncEntry BY <2>1, <3>1
      <3>3. [relaySyncs[i] EXCEPT !.outcome = outcome] \in SyncEntry BY <3>2 DEF SyncEntry
      <3>4. relaySyncs' \in Seq(SyncEntry) /\ Len(relaySyncs') = Len(relaySyncs) BY <2>1, <3>1, <3>2, <3>3
      <3>5. \A j \in 1..Len(relaySyncs) : relaySyncs'[j].at = relaySyncs[j].at BY <2>1, <3>1, <3>2 DEF SyncEntry
      <3>6. SyncsSpaced' BY <2>1, <3>4, <3>5 DEF GateInv, SyncsKept, SyncsSpaced
      <3>7. relaySyncs' # <<>> => relaySyncs'[Len(relaySyncs')].at <= gateClock' 
        <4>1. Len(relaySyncs) \in 1..Len(relaySyncs) /\ relaySyncs # <<>> BY <2>1, <3>2
        <4>2. gateClock' = gateClock BY <2>2 DEF SyncEnds
        <4> QED BY <4>1, <4>2, <3>4, <3>5 DEF GateInv, SyncsKept
      <3> QED BY <3>4, <3>6, <3>7 DEF GateInv, SyncsKept
    <2>3. CASE ~SyncEnds
      <3>1. UNCHANGED relaySyncs /\ gateClock' \in {gateClock, gateClock + 1}
        BY <2>3 DEF DoorStep, Bound, BindFails, RetryBind, DoorCloses, InterfaceComes, GateTick, RestOfDoor
      <3>2. relaySyncs # <<>> => relaySyncs[Len(relaySyncs)].at \in Int
        <4>1. relaySyncs # <<>> => relaySyncs[Len(relaySyncs)] \in SyncEntry BY <2>1
        <4> QED BY <4>1 DEF SyncEntry
      <3> QED BY <3>1, <3>2 DEF GateInv, DoorKept, SyncsKept, SyncsSpaced
    <2> QED BY <2>2, <2>3
  <1> QED BY <1>2, <1>3, <1>4 DEF GateInv

\* What the daemon says of a node changes, and a request the daemon is asked about hears of it.
LEMMA TailnetMoves ==
  ASSUME GateInv, TailnetChanges
  PROVE  GateInv'
  <1>1. UNCHANGED <<gateClock, revokedHere, audited, relaySyncs, door>> BY DEF TailnetChanges
  <1>2. PICK n \in Peer, standing \in Standing :
          /\ tailnet' = [tailnet EXCEPT ![n] = standing]
          /\ gcall' = [c \in GateCall |->
               IF gcall[c].at = "whois" /\ gcall[c].peer = n /\ standing = "member" THEN [gcall[c] EXCEPT !.good = TRUE] ELSE gcall[c]]
    BY DEF TailnetChanges
  <1>3. ASSUME NEW c \in GateCall PROVE CallKept(gcall[c], audited[c])'
    <2> DEFINE k == gcall[c]
    <2>1. CallKept(k, audited[c]) BY DEF GateInv, CallsKept
    <2>2. CASE k.at = "whois" /\ k.peer = n /\ standing = "member"
      <3> DEFINE m == [k EXCEPT !.good = TRUE]
      <3>1. Relayed(k) BY <2>2, RelayStages
      <3>2. m.at = "whois" /\ m.door = k.door /\ m.good = TRUE /\ m.peer = k.peer /\ m.route = k.route /\ DOMAIN m = DOMAIN k
        BY <2>2, <3>1 DEF Relayed, RelayFields
      <3>3. gcall'[c] = m BY <1>2, <2>2
      <3> HIDE DEF m
      <3>4. Relayed(gcall[c])' BY <3>1, <3>2, <3>3, <2>2, <1>1 DEF Relayed, Routes
      <3> QED BY <3>2, <3>3, <3>4, <1>1 DEF CallKept
    <2>3. CASE ~(k.at = "whois" /\ k.peer = n /\ standing = "member")
      <3>1. gcall'[c] = k /\ audited'[c] = audited[c] BY <1>1, <1>2, <2>3
      <3>2. k.at = "whois" /\ tailnet'[k.peer] = "member" => tailnet[k.peer] = "member"
        BY <1>2, <2>3 DEF GateInv, DoorKept
      <3> HIDE DEF k
      <3>3. Relayed(k) => (Relayed(gcall[c])') BY <3>1, <3>2 DEF Relayed
      <3> QED BY <2>1, <3>1, <3>3, <1>1 DEF CallKept, Called, AnswerKept
    <2> QED BY <2>2, <2>3
  <1>4. CallsKept' BY <1>1, <1>2, <1>3 DEF GateInv, CallsKept
  <1>5. SyncsKept' BY <1>1 DEF GateInv, SyncsKept, SyncsSpaced
  <1>6. tailnet' \in [Peer -> Standing] BY <1>2 DEF GateInv, DoorKept
  <1>7. DoorKept' BY <1>1, <1>6 DEF GateInv, DoorKept
  <1> QED BY <1>4, <1>5, <1>7 DEF GateInv

\* A token that is revoked was good for the calls already verified.
LEMMA TokenIsRevoked ==
  ASSUME GateInv, Revoked
  PROVE  GateInv'
  <1>1. UNCHANGED <<gateClock, tailnet, gcall, audited, relaySyncs, door>> /\ revokedHere \subseteq revokedHere'
        /\ revokedHere' \subseteq Bearer
    BY DEF Revoked, GateInv, DoorKept
  <1>2. CallsKept' BY <1>1 DEF GateInv, CallsKept, CallKept, Relayed, Called, AnswerKept
  <1> QED BY <1>1, <1>2 DEF GateInv, DoorKept, SyncsKept, SyncsSpaced

LEMMA GatesHold == GateSpec => []GateInv
  <1>1. GateInv /\ [GateNext]_gateVars => GateInv'
    <2> SUFFICES ASSUME GateInv, [GateNext]_gateVars PROVE GateInv' OBVIOUS
    <2>1. CASE \E c \in GateCall : RelayArrives(c) \/ McpArrives(c) BY <2>1, RelayIsAsked, CallArrives
    <2>2. CASE \E c \in GateCall : GateStep(c)
      BY <2>2, DaemonAnswers, RelayRoutes, SyncIsAsked, ItemsAreLookedUp, ItemIsRevealed, CallVerified, CallGated, ToolIsDone,
         RequestIsOver DEF GateStep
    <2>3. CASE DoorStep \/ DoorCloses \/ InterfaceComes \/ GateTick \/ SyncEnds BY <2>3, GateAround
    <2>4. CASE TailnetChanges BY <2>4, TailnetMoves
    <2>5. CASE Revoked BY <2>5, TokenIsRevoked
    <2>6. CASE UNCHANGED gateVars
      <3>1. CallsKept' BY <2>6 DEF gateVars, GateInv, CallsKept, CallKept, Relayed, Called, AnswerKept
      <3>2. DoorKept' /\ SyncsKept' BY <2>6 DEF gateVars, GateInv, DoorKept, SyncsKept, SyncsSpaced
      <3> QED BY <3>1, <3>2 DEF GateInv
    <2> QED BY <2>1, <2>2, <2>3, <2>4, <2>5, <2>6 DEF GateNext
  <1> QED BY GatesBegin, <1>1, PTL DEF GateSpec

\* GatesSafe (src/relay, src/mcp): no node is shown what it was no member for or
\* what is not recorded first, no revoked token and no tool beyond its scopes is
\* served, and the relay's syncs start the interval apart.
THEOREM GatesAreSafe == GateSpec => []GatesSafe
  <1>1. GateInv => GatesSafe
    <2> SUFFICES ASSUME GateInv PROVE GatesSafe OBVIOUS
    <2>1. GateTypeOK BY DEF GateInv, DoorKept, SyncsKept, GateTypeOK
    <2>2. ToldIsRecorded BY DEF GateInv, CallsKept, CallKept, AnswerKept, Relayed, Called, Routes, IdleRequest, ToldIsRecorded
    <2>3. ShownToMembers BY DEF GateInv, CallsKept, CallKept, AnswerKept, Relayed, Called, Routes, IdleRequest, ShownToMembers, Told
    <2>4. ServedWithinGrant
      <3> SUFFICES ASSUME NEW c \in GateCall, NEW k, k = IF gcall[c].at = "answered" THEN gcall[c].to ELSE gcall[c], k.at = "tool"
                   PROVE  /\ k.good /\ (k.need.mode = "all" => k.need.scopes \subseteq GrantedTo[k.bearer] \cap EnabledHere)
                          /\ k.need.scopes \cap GrantedTo[k.bearer] \cap EnabledHere # {}
        BY DEF ServedWithinGrant
      <3>1. Called(k)
        BY DEF GateInv, CallsKept, CallKept, AnswerKept, Relayed, Called, Routes, IdleRequest
      <3>2. k.good /\ k.need \in Need /\ IsMet(k.need, EffectiveScopes(k.bearer)) BY <3>1 DEF Called
      <3> QED BY <3>2, NeedAssumption DEF IsMet, EffectiveScopes
    <2>5. SyncsSpaced BY DEF GateInv, SyncsKept
    <2> QED BY <2>1, <2>2, <2>3, <2>4, <2>5 DEF GatesSafe
  <1> QED BY GatesHold, <1>1, PTL

\* ClosedStays (src/relay/listener.ts): nothing binds the listener again once it
\* was closed, no retry that was armed and no address that comes.
THEOREM ClosedForGood == GateSpec => ClosedStays
  <1>1. [GateNext]_gateVars => [door = "closed" => door' = "closed"]_gateVars
    <2> SUFFICES ASSUME GateNext, door = "closed" PROVE door' = "closed" BY DEF gateVars
    <2>1. CASE \E c \in GateCall : RelayArrives(c) \/ McpArrives(c)
      BY <2>1 DEF RelayArrives, McpArrives, RestOfGate
    <2>2. CASE \E c \in GateCall : GateStep(c)
      <3>1. PICK c \in GateCall : GateStep(c) BY <2>2
      <3>2. CASE WhoIsAnswers(c) \/ Unknown(c) \/ Status(c) \/ SyncJoins(c) \/ LooksUp(c) \/ Reveal(c) \/ RelaySyncAnswers(c)
                 \/ McpVerifies(c) \/ McpGate(c) \/ ToolEnds(c) \/ RequestOver(c)
        <4>1. RestOfGate
          BY <3>2 DEF WhoIsAnswers, Unknown, Status, SyncJoins, LooksUp, Reveal, RelaySyncAnswers, McpVerifies, McpGate, ToolEnds, RequestOver
        <4> QED BY <4>1 DEF RestOfGate
      <3>3. CASE SyncStarts(c) BY <3>3 DEF SyncStarts
      <3> QED BY <3>1, <3>2, <3>3 DEF GateStep
    <2>3. CASE DoorStep BY <2>3 DEF DoorStep, Bound, BindFails, RetryBind
    <2>4. CASE SyncEnds \/ DoorCloses \/ InterfaceComes \/ TailnetChanges \/ GateTick \/ Revoked
      BY <2>4 DEF SyncEnds, DoorCloses, InterfaceComes, TailnetChanges, GateTick, Revoked, RestOfDoor
    <2> QED BY <2>1, <2>2, <2>3, <2>4 DEF GateNext
  <1> QED BY <1>1, PTL DEF GateSpec, ClosedStays
-----------------------------------------------------------------------------
(* One call to a database.                                                 *)

Refusals == {"policy_denied", "invalid_arguments", "credential_unavailable"}
Faults == {"authentication_failed", "timeout", "connection_failed", "tls_error", "upstream_error", "connector_fault"}

\* What is on its way, by where the connector is.
SentKept ==
  /\ sqlAt = "begin" => sent \in {"none", "begin", "began", "refused"}
  /\ sqlAt = "statement" => sent \in {"none", "statement", "ran", "refused"}
  /\ sqlAt = "commit" => sent \in {"none", "commit", "committed", "refused"}
  /\ sqlAt = "rollback" => sent \in {"none", "rollback", "rolled", "refused"}
  /\ sqlAt \notin {"begin", "statement", "commit", "rollback"} => sent = "none"

\* The transaction of a call that writes: open until its COMMIT is on its way,
\* unless the database rolled it back because its link is gone.
Lost == transaction = "rolled_back" /\ link = "dropped" /\ sent \in {"none", "refused"}
TransactionKept ==
  /\ sqlAt \in {"idle", "connecting"} => link = "none" /\ transaction = "none" /\ ~wrote
  /\ sqlAt = "begin" =>
       /\ HasTransaction(sqlDoc, statement)
       /\ sent \in {"none", "begin"} => transaction = "none"
       /\ sent = "began" => transaction = "open"
       /\ sent = "refused" => Lost
  /\ sqlAt = "statement" /\ HasTransaction(sqlDoc, statement) => transaction = "open" \/ Lost
  /\ sqlAt = "statement" /\ ~HasTransaction(sqlDoc, statement) =>
       transaction \in {"none", "committed"} /\ (transaction = "committed" => sent = "ran")
  /\ sqlAt = "commit" =>
       /\ HasTransaction(sqlDoc, statement)
       /\ IF sent = "committed" THEN transaction = "committed" ELSE (transaction = "open" /\ sent # "refused") \/ Lost
  /\ sqlAt = "rows" => (HasTransaction(sqlDoc, statement) => transaction = "committed")
  /\ sqlAt = "rollback" /\ sent # "none" => transaction # "committed"

\* The failure of a call, by where the connector is: none while it works.
FaultKept ==
  /\ fault \in Faults \cup {"none"}
  /\ sqlAt \in {"idle", "connecting", "begin", "statement", "commit", "rows"} => fault = "none"
  /\ sqlAt = "rollback" => fault # "none" /\ (transaction = "committed" => fault = "connection_failed" /\ link = "dropped")
  /\ sqlAt = "closing" =>
       /\ fault = "none" => (HasTransaction(sqlDoc, statement) => transaction = "committed")
       /\ transaction = "committed" /\ fault # "none" =>
            (fault = "connection_failed" /\ link = "dropped") \/ (fault = "connector_fault" /\ sqlDoc.engine = "mssql")

\* What the agent was told: nothing or the deadline's answer while the connector works.
AnswerTold ==
  /\ told = "timeout" /\ sqlAt # "done" => deadline
  /\ sqlAt # "done" => told \in {"nothing", "timeout"}
  /\ sqlAt = "done" => told \in {"ok"} \cup Refusals \cup Faults

SqlInv ==
  /\ sqlDoc \in SqlDocument /\ statement \in SqlStatement /\ SqlTypeOK
  /\ SentKept /\ TransactionKept /\ FaultKept /\ AnswerTold
  /\ RefusedUnopened /\ ReadsLeaveNothing /\ SqlToldTrue

LEMMA SqlBegins == SqlInit => SqlInv
  BY DEF SqlInit, SqlInv, SqlTypeOK, SentKept, TransactionKept, FaultKept, AnswerTold, RefusedUnopened, ReadsLeaveNothing, SqlToldTrue

\* Every failure has one code of the engine.
LEMMA CodesOfFaults ==
  /\ ActionErrorOf("socket") = "connection_failed"
  /\ ActionErrorOf("cancelled") = "timeout"
  /\ ActionErrorOf("login") = "authentication_failed"
  /\ ActionErrorOf("certificate") = "tls_error"
  /\ ActionErrorOf("sql") = "upstream_error"
  BY DEF ActionErrorOf, PostgresFaults, MssqlFaults

LEMMA SqlIsPrepared ==
  ASSUME SqlInv, SqlArrive
  PROVE  SqlInv'
  <1>1. PICK held \in BOOLEAN :
          LET verdict == Prepare(sqlDoc, statement, held)
          IN IF verdict = "allowed" THEN Goes("connecting") /\ UNCHANGED told
             ELSE Goes("done") /\ Tell(verdict)
    BY DEF SqlArrive
  <1>2. Prepare(sqlDoc, statement, held) \in Refusals \cup {"allowed"}
    BY DEF Prepare, SqlAuthorize, ReadDecision, WriteDecision, SqlBound, Refusals
  <1>3. told = "nothing" \/ told = "timeout" BY DEF SqlInv, AnswerTold, SqlArrive
  <1>4. sqlAt = "idle" /\ UNCHANGED <<sqlDoc, statement, link, listening, deadline, sent, database, fault>> BY DEF SqlArrive
  <1>5. \/ sqlAt' = "connecting" /\ told' = told
        \/ sqlAt' = "done" /\ told' \in Refusals \cup {"timeout"}
    BY <1>1, <1>2, <1>3 DEF Goes, Tell
  <1> QED BY <1>4, <1>5 DEF database, SqlInv, SqlTypeOK, SentKept, TransactionKept, FaultKept, AnswerTold, RefusedUnopened,
         ReadsLeaveNothing, SqlToldTrue, HasTransaction, Lost, Faults, Refusals
\* The connector opens, asks, hears and closes; the database does as it is asked.
LEMMA SqlIsOpened ==
  ASSUME SqlInv, SqlConnect \/ SqlOpenFails
  PROVE  SqlInv'
  <1>1. sqlAt = "connecting" /\ UNCHANGED <<sqlDoc, statement, deadline, sent, database>> BY DEF SqlConnect, SqlOpenFails
  <1>2. CASE SqlConnect
    <2>1. sqlAt' \in {"begin", "statement"} /\ (sqlAt' = "begin" <=> HasTransaction(sqlDoc, statement)) /\ link' = "open"
          /\ UNCHANGED <<told, fault>>
      BY <1>2 DEF SqlConnect, Goes
    <2> QED BY <1>1, <2>1 DEF database, SqlInv, SqlTypeOK, SentKept, TransactionKept, FaultKept, AnswerTold, RefusedUnopened,
         ReadsLeaveNothing, SqlToldTrue, HasTransaction, Lost
  <1>3. CASE SqlOpenFails
    <2>1. sqlAt' = "done" /\ fault' \in Faults /\ told' \in Faults /\ link' = link
      BY <1>1, <1>3, CodesOfFaults DEF SqlOpenFails, Goes, Tell, Faults, SqlInv, AnswerTold
    <2> QED BY <1>1, <2>1 DEF database, SqlInv, SqlTypeOK, SentKept, TransactionKept, FaultKept, AnswerTold, RefusedUnopened,
         ReadsLeaveNothing, SqlToldTrue, HasTransaction, Lost, Faults, Refusals
  <1> QED BY <1>2, <1>3

LEMMA SqlIsAsked ==
  ASSUME SqlInv, SqlRequest \/ SqlRollback
  PROVE  SqlInv'
  <1>1. sent = "none" /\ UNCHANGED <<sqlDoc, statement, told, link, deadline, database>> BY DEF SqlRequest, SqlRollback
  <1>2. CASE SqlRequest
    <2>1. sqlAt \in {"begin", "statement", "commit"} BY <1>2 DEF SqlRequest
    <2>2. \/ link = "dropped" /\ fault' = "connection_failed" /\ sqlAt' = "rollback" /\ sent' = sent
          \/ sqlAt = "statement" /\ fault' = "timeout" /\ sqlAt' = "rollback" /\ sent' = sent
          \/ link # "dropped" /\ sent' = sqlAt /\ UNCHANGED <<fault, sqlAt>>
      BY <1>2, CodesOfFaults DEF SqlRequest, Goes, SendStatement
    <2> QED BY <1>1, <2>1, <2>2 DEF database, SqlInv, SqlTypeOK, SentKept, TransactionKept, FaultKept, AnswerTold, RefusedUnopened,
         ReadsLeaveNothing, SqlToldTrue, HasTransaction, Lost, Faults
  <1>3. CASE SqlRollback
    <2>1. sqlAt = "rollback" /\ fault' = fault BY <1>3 DEF SqlRollback
    <2>2. \/ transaction = "open" /\ sent' = "rollback" /\ sqlAt' = sqlAt
          \/ sqlAt' = "closing" /\ sent' = sent
      BY <1>3 DEF SqlRollback, Goes, SendStatement
    <2> QED BY <1>1, <2>1, <2>2 DEF database, SqlInv, SqlTypeOK, SentKept, TransactionKept, FaultKept, AnswerTold, RefusedUnopened,
         ReadsLeaveNothing, SqlToldTrue, HasTransaction, Lost, Faults
  <1> QED BY <1>2, <1>3

LEMMA SqlIsDone ==
  ASSUME SqlInv, DatabaseDoes \/ DatabaseRollsBack
  PROVE  SqlInv'
  <1>1. UNCHANGED <<sqlDoc, statement, sqlAt, told, link, deadline, fault>> BY DEF DatabaseDoes, DatabaseRollsBack
  <1>2. statement.writes \in BOOLEAN BY StatementAssumption DEF SqlInv
  <1>3. CASE DatabaseDoes
    <2>1. CASE sent = "statement" /\ ~SqlRefuses /\ sent' = "ran" /\ wrote' = statement.writes
               /\ transaction' = IF HasTransaction(sqlDoc, statement) THEN transaction
                                 ELSE IF statement.writes THEN "committed" ELSE "none"
      <3>1. sqlAt = "statement" BY <2>1 DEF SqlInv, SqlTypeOK, SentKept
      <3>2. ReadsLeaveNothing' BY <1>1, <1>2, <2>1 DEF ReadsLeaveNothing, SqlRefuses, ReadOnly, Mode
      <3>3. TransactionKept' BY <1>1, <2>1, <3>1 DEF SqlInv, SqlTypeOK, SentKept, TransactionKept, HasTransaction, Lost
      <3> QED BY <1>1, <2>1, <3>1, <3>2, <3>3 DEF SqlInv, SqlTypeOK, SentKept, TransactionKept, FaultKept, AnswerTold, RefusedUnopened,
         SqlToldTrue, Lost, HasTransaction
    <2>2. CASE sent = "statement" /\ sent' = "refused" /\ UNCHANGED database
      <3>1. sqlAt = "statement" BY <2>2 DEF SqlInv, SqlTypeOK, SentKept
      <3> QED BY <1>1, <2>2, <3>1 DEF database, SqlInv, SqlTypeOK, SentKept, TransactionKept, FaultKept, AnswerTold, RefusedUnopened,
         ReadsLeaveNothing, SqlToldTrue, Lost, HasTransaction
    <2>3. CASE sent = "begin" /\ transaction' = "open" /\ sent' = "began" /\ UNCHANGED wrote
      <3>1. sqlAt = "begin" BY <2>3 DEF SqlInv, SqlTypeOK, SentKept
      <3> QED BY <1>1, <2>3, <3>1 DEF SqlInv, SqlTypeOK, SentKept, TransactionKept, FaultKept, AnswerTold, RefusedUnopened,
         ReadsLeaveNothing, SqlToldTrue, Lost, HasTransaction, Refusals
    <2>4. CASE sent = "commit" /\ transaction' = "committed" /\ sent' = "committed" /\ UNCHANGED wrote
      <3>1. sqlAt = "commit" BY <2>4 DEF SqlInv, SqlTypeOK, SentKept
      <3> QED BY <1>1, <2>4, <3>1 DEF SqlInv, SqlTypeOK, SentKept, TransactionKept, FaultKept, AnswerTold, RefusedUnopened,
         ReadsLeaveNothing, SqlToldTrue, Lost, HasTransaction, Refusals
    <2>5. CASE sent = "rollback" /\ transaction' = "rolled_back" /\ wrote' = FALSE /\ sent' = "rolled"
      <3>1. sqlAt = "rollback" BY <2>5 DEF SqlInv, SqlTypeOK, SentKept
      <3> QED BY <1>1, <2>5, <3>1 DEF SqlInv, SqlTypeOK, SentKept, TransactionKept, FaultKept, AnswerTold, RefusedUnopened,
         ReadsLeaveNothing, SqlToldTrue, Lost, HasTransaction, Refusals
    <2> QED BY <1>3, <2>1, <2>2, <2>3, <2>4, <2>5 DEF DatabaseDoes
  <1>4. CASE DatabaseRollsBack
    <2>1. link = "dropped" /\ transaction = "open" /\ transaction' = "rolled_back" /\ wrote' = FALSE
          /\ sent' = IF sent \in {"none", "rolled"} THEN sent ELSE "refused"
      BY <1>4 DEF DatabaseRollsBack
    <2> QED BY <1>1, <2>1 DEF SqlInv, SqlTypeOK, SentKept, TransactionKept, FaultKept, AnswerTold, RefusedUnopened,
         ReadsLeaveNothing, SqlToldTrue, Lost, HasTransaction, Refusals, Mode
  <1> QED BY <1>3, <1>4

LEMMA SqlIsHeard ==
  ASSUME SqlInv, SqlAnswer \/ SqlRows
  PROVE  SqlInv'
  <1>1. UNCHANGED <<sqlDoc, statement, told, link, deadline, database>> /\ sent' = "none"
    BY DEF SqlAnswer, SqlRows, SqlInv, SentKept
  <1>2. CASE SqlAnswer
    <2>1. sent \in {"began", "ran", "refused", "committed", "rolled"} BY <1>2 DEF SqlAnswer
    <2>2. \/ sqlAt = "rollback" /\ sqlAt' = "closing" /\ fault' = fault
          \/ sqlAt # "rollback" /\ link = "dropped" /\ sqlAt' = "rollback" /\ fault' = "connection_failed"
          \/ link # "dropped" /\ sent = "began" /\ sqlAt' = "statement" /\ fault' = fault
          \/ link # "dropped" /\ sent = "ran" /\ sqlAt' = AfterStatement /\ fault' = fault
          \/ link # "dropped" /\ sent = "committed" /\ sqlAt' = "rows" /\ fault' = fault
          \/ sqlAt # "rollback" /\ link # "dropped" /\ sent \in {"refused", "rolled"} /\ sqlAt' = "rollback" /\ fault' = "upstream_error"
      BY <1>2, <2>1, CodesOfFaults DEF SqlAnswer, Goes
    <2>3. sqlAt \in {"begin", "statement", "commit", "rollback"} BY <2>1 DEF SqlInv, SqlTypeOK, SentKept
    <2> QED BY <1>1, <2>1, <2>2, <2>3 DEF database, SqlInv, SqlTypeOK, SentKept, TransactionKept, FaultKept, AnswerTold, RefusedUnopened,
         ReadsLeaveNothing, SqlToldTrue, Lost, HasTransaction, AfterStatement, Faults
  <1>3. CASE SqlRows
    <2>1. sqlAt = "rows" /\ sqlAt' = "closing" /\ (fault' = "none" \/ (fault' = "connector_fault" /\ sqlDoc.engine # "postgres"))
      BY <1>3 DEF SqlRows, Goes, Exact
    <2>2. sqlDoc.engine \in {"postgres", "mssql"} BY SqlDocumentAssumption DEF SqlInv
    <2> QED BY <1>1, <2>1, <2>2 DEF database, SqlInv, SqlTypeOK, SentKept, TransactionKept, FaultKept, AnswerTold, RefusedUnopened,
         ReadsLeaveNothing, SqlToldTrue, Lost, HasTransaction, Faults
  <1> QED BY <1>2, <1>3
\* The first outcome is the answer: the connector's at the end, or the deadline's.
LEMMA SqlIsAnswered ==
  ASSUME SqlInv, SqlClose \/ SqlDeadline \/ LinkBreaks
  PROVE  SqlInv'
  <1>1. UNCHANGED <<sqlDoc, statement, sent, database, fault>> /\ link' \in {link, "dropped"} /\ sqlAt # "idle"
    BY DEF SqlClose, SqlDeadline, LinkBreaks, SqlInv, TransactionKept
  <1>2. CASE SqlClose
    <2>1. sqlAt = "closing" /\ sqlAt' = "done" /\ link' = "dropped" /\ deadline' = deadline
          /\ told' = IF told = "nothing" THEN Outcome ELSE told
      BY <1>2 DEF SqlClose, Goes, Closed, Tell
    <2>2. told \in {"nothing", "timeout"} BY <2>1 DEF SqlInv, AnswerTold
    <2> QED BY <1>1, <2>1, <2>2 DEF Outcome, database, SqlInv, SqlTypeOK, SentKept, TransactionKept, FaultKept, AnswerTold, RefusedUnopened,
         ReadsLeaveNothing, SqlToldTrue, Lost, HasTransaction, Mode, Faults, Refusals
  <1>3. CASE SqlDeadline
    <2>1. sqlAt # "done" /\ sqlAt' = sqlAt /\ deadline' = TRUE /\ (link' = "dropped" => link \in {"open", "dropped"})
          /\ told' = IF told = "nothing" THEN "timeout" ELSE told
      BY <1>3 DEF SqlDeadline, Tell
    <2>2. told' = "timeout" BY <2>1 DEF SqlInv, AnswerTold
    <2> QED BY <1>1, <2>1, <2>2 DEF database, SqlInv, SqlTypeOK, SentKept, TransactionKept, FaultKept, AnswerTold, RefusedUnopened,
         ReadsLeaveNothing, SqlToldTrue, Lost, HasTransaction
  <1>4. CASE LinkBreaks
    <2>1. link = "open" /\ link' = "dropped" /\ UNCHANGED <<sqlAt, told, deadline>> BY <1>4 DEF LinkBreaks
    <2> QED BY <1>1, <2>1 DEF database, SqlInv, SqlTypeOK, SentKept, TransactionKept, FaultKept, AnswerTold, RefusedUnopened,
         ReadsLeaveNothing, SqlToldTrue, Lost, HasTransaction
  <1> QED BY <1>2, <1>3, <1>4

LEMMA SqlHolds == SqlSpec => []SqlInv
  <1>1. SqlInv /\ [SqlNext]_sqlVars => SqlInv'
    <2> SUFFICES ASSUME SqlInv, [SqlNext]_sqlVars PROVE SqlInv' OBVIOUS
    <2>1. CASE UNCHANGED sqlVars
      BY <2>1 DEF sqlVars, SqlInv, SqlTypeOK, SentKept, TransactionKept, FaultKept, AnswerTold, RefusedUnopened,
         ReadsLeaveNothing, SqlToldTrue, Lost, HasTransaction
    <2> QED BY <2>1, SqlIsPrepared, SqlIsOpened, SqlIsAsked, SqlIsDone, SqlIsHeard, SqlIsAnswered DEF SqlNext, SqlStep, SqlWorks
  <1> QED BY SqlBegins, <1>1, PTL DEF SqlSpec

\* SqlSafe (src/actions/connectors/sql): a refused call reached no database, a
\* read leaves nothing in a PostgreSQL one, an answer of success is a commit, and
\* a commit behind a failure is one of three the code cannot take back.
THEOREM SqlIsSafe == SqlSpec => []SqlSafe
  BY SqlHolds, PTL DEF SqlInv, SqlSafe

\* session.ts, remember: SQL Server never starts a statement after the deadline.
THEOREM LateStatementsCancelled == SqlSpec => LateStatementCancelled
  <1>1. SqlInv /\ [SqlNext]_sqlVars => [sqlDoc.engine = "mssql" /\ deadline /\ sqlAt = "statement" /\ sent = "none" => sent' # "statement"]_sqlVars
    <2> SUFFICES ASSUME SqlInv, SqlNext, sqlDoc.engine = "mssql", deadline, sqlAt = "statement", sent = "none" PROVE sent' # "statement"
      OBVIOUS
    <2>1. CASE SqlRequest
      <3>1. Remember BY DEF Remember
      <3> QED BY <2>1, <3>1 DEF SqlRequest
    <2>2. CASE ~SqlRequest
      <3>1. sent' = sent
        BY <2>2 DEF SqlNext, SqlStep, SqlWorks, SqlArrive, SqlConnect, SqlOpenFails, DatabaseDoes, DatabaseRollsBack, SqlAnswer, SqlRows,
           SqlRollback, SqlClose, SqlDeadline, LinkBreaks
      <3> QED BY <3>1
    <2> QED BY <2>1, <2>2
  <1> QED BY SqlHolds, <1>1, PTL DEF SqlSpec, LateStatementCancelled
-----------------------------------------------------------------------------
(* Calls of one http target and the tokens they take.                      *)

\* A call has the fields of an idle one.
Stages == {"idle", "token", "resolve", "exchange", "writing", "send", "hop", "done"}
HasFields(call) ==
  /\ DOMAIN call = DOMAIN IdleHttpCall
  /\ call.at \in Stages /\ call.revision \in Nat /\ call.held \in Nat /\ call.hops \in 0..MaxHops
Active(call) == call.at \notin {"idle", "done"}

\* A token that is cached or held was obtained under the revision it is used for.
ObtainedUnder(token, rev) == token \in DOMAIN issued /\ issued[token] = rev
CacheKept == cache # NoToken => ObtainedUnder(cache.token, cache.revision)

\* A call has put what it will send in its table; what it is about to write is a token
\* that the endpoint takes and that no other call and no vault item holds.
CallHolds(call) ==
  /\ HasFields(call)
  /\ call.held <= Newest
  /\ call.token # NoToken \/ call.at = "writing" => ObtainedUnder(call.token, call.revision)
  /\ Active(call) => Savable(call.doc) /\ call.path = "allowed" /\ <<"refresh", call.held>> \in call.table
  /\ call.at \in {"writing", "send", "hop"} /\ TokenMode(call.doc) => <<"access", call.token>> \in call.table
  /\ call.at = "writing" => call.held \in accepted /\ call.held # refresh /\ call.held > 0
CallsHold ==
  /\ hcalls = [c \in HttpCall |-> hcalls[c]] /\ \A c \in HttpCall : CallHolds(hcalls[c])
  /\ \A c, d \in HttpCall : c # d /\ hcalls[c].at = "writing" => hcalls[d].held # hcalls[c].held
DocumentHolds ==
  /\ document \in Document /\ Savable(document) /\ documentRevision \in 1..RevisionMax
EndpointHolds ==
  /\ issued \in Seq(Nat) /\ Len(issued) <= IssuedMax /\ refresh \in 1..Newest

HttpInv == DocumentHolds /\ EndpointHolds /\ CacheKept /\ CallsHold /\ CredentialAlive /\ CredentialStays

LEMMA HttpBegins == HttpInit => HttpInv
  <1> SUFFICES ASSUME HttpInit PROVE HttpInv OBVIOUS
  <1>1. DocumentHolds BY HttpBounds DEF HttpInit, DocumentHolds
  <1>2. EndpointHolds
    <2>1. issued = <<>> /\ refresh = 1 BY DEF HttpInit
    <2>2. issued \in Seq(Nat) /\ Len(issued) = 0 BY <2>1
    <2> QED BY <2>1, <2>2, HttpBounds DEF EndpointHolds, Newest
  <1>3. CallsHold BY DEF HttpInit, CallsHold, CallHolds, HasFields, Stages, IdleHttpCall, Active, Newest, MaxHops
  <1> QED BY <1>1, <1>2, <1>3 DEF HttpInit, HttpInv, CacheKept, CredentialAlive, CredentialStays

\* One call moves and the endpoint, the vault and the cache stay as they are.
LEMMA CallMoves ==
  ASSUME HttpInv, NEW c \in HttpCall, NEW y, hcalls' = [hcalls EXCEPT ![c] = y], CallHolds(y),
         y.at # "writing", hcalls[c].at # "writing", \A d \in HttpCall : hcalls[d].at = "writing" => y.held # hcalls[d].held,
         UNCHANGED <<document, documentRevision, refresh, issued, accepted, mislaid>>, CacheKept', CredentialStays'
  PROVE  HttpInv'
  <1>1. CallsHold'
    BY DEF HttpInv, CallsHold, CallHolds, ObtainedUnder, Newest
  <1>2. CredentialAlive'
    BY DEF HttpInv, CallsHold, CredentialAlive
  <1> QED BY <1>1, <1>2 DEF HttpInv, DocumentHolds, EndpointHolds, Newest

\* A call that ends holds nothing.
LEMMA EndedCall ==
  ASSUME NEW how, HttpInv
  PROVE  LET y == [IdleHttpCall EXCEPT !.at = "done", !.end = how]
         IN y.at = "done" /\ y.held = 0 /\ y.token = NoToken /\ CallHolds(y)
  <1> DEFINE y == [IdleHttpCall EXCEPT !.at = "done", !.end = how]
  <1>1. HasFields(y) BY DEF IdleHttpCall, HasFields, Stages, MaxHops
  <1>2. y.at = "done" /\ y.held = 0 /\ y.token = NoToken BY DEF IdleHttpCall
  <1>3. 0 <= Newest BY DEF HttpInv, EndpointHolds, Newest
  <1> HIDE DEF y
  <1>4. CallHolds(y) BY <1>1, <1>2, <1>3 DEF CallHolds, Active
  <1> QED BY <1>1, <1>2, <1>4 DEF y

LEMMA CallEnds ==
  ASSUME HttpInv, NEW c \in HttpCall, NEW how, Finish(c, how), hcalls[c].at # "writing",
         UNCHANGED <<document, documentRevision, refresh, issued, accepted, mislaid>>, CacheKept', CredentialStays'
  PROVE  HttpInv'
  <1> DEFINE y == [IdleHttpCall EXCEPT !.at = "done", !.end = how]
  <1>1. y.at = "done" /\ y.held = 0 /\ CallHolds(y) BY EndedCall
  <1>2. hcalls' = [hcalls EXCEPT ![c] = y] BY DEF Finish
  <1> HIDE DEF y
  <1>3. ASSUME NEW d \in HttpCall, hcalls[d].at = "writing" PROVE y.held # hcalls[d].held
    <2>1. CallHolds(hcalls[d]) BY DEF HttpInv, CallsHold
    <2>2. hcalls[d].held > 0 BY <1>3, <2>1 DEF CallHolds
    <2> QED BY <1>1, <2>2
  <1> QED BY <1>1, <1>2, <1>3, CallMoves

\* What the call has and what it holds, of a call that keeps its token, its document and its table.
LEMMA CallFacts ==
  ASSUME HttpInv, NEW c \in HttpCall
  PROVE  CallHolds(hcalls[c]) /\ Newest \in Nat \ {0}
         /\ \A d \in HttpCall : d # c /\ hcalls[d].at = "writing" => hcalls[c].held # hcalls[d].held
  BY DEF HttpInv, CallsHold, EndpointHolds, Newest

LEMMA HttpArrives ==
  ASSUME HttpInv, NEW c \in HttpCall, HttpArrive(c)
  PROVE  HttpInv'
  <1>1. hcalls[c].at = "idle" /\ UNCHANGED <<document, documentRevision, refresh, issued, accepted, mislaid>> /\ CacheKept' /\ CredentialStays'
    BY DEF HttpArrive, endpointVars, HttpInv, CacheKept, CredentialStays, ObtainedUnder
  <1>2. PICK op \in HttpOperation, answer \in Answers :
          \/ Finish(c, "policy_denied")
          \/ Finish(c, Resolve(answer, document.internal))
          \/ /\ HttpAuthorize(document, op) = "allowed"
             /\ hcalls' = [hcalls EXCEPT ![c] =
                 [IdleHttpCall EXCEPT !.at = IF TokenMode(document) THEN "token" ELSE "send", !.method = op.method,
                                      !.body = op.body, !.path = op.path, !.doc = document, !.revision = documentRevision,
                                      !.held = refresh, !.table = {<<"refresh", refresh>>}]]
    BY DEF HttpArrive
  <1>3. CASE Finish(c, "policy_denied") BY <1>1, <1>3, CallEnds
  <1>4. CASE Finish(c, Resolve(answer, document.internal))
    BY <1>1, <1>4, CallEnds
  <1>5. CASE HttpAuthorize(document, op) = "allowed"
             /\ hcalls' = [hcalls EXCEPT ![c] =
                 [IdleHttpCall EXCEPT !.at = IF TokenMode(document) THEN "token" ELSE "send", !.method = op.method,
                                      !.body = op.body, !.path = op.path, !.doc = document, !.revision = documentRevision,
                                      !.held = refresh, !.table = {<<"refresh", refresh>>}]]
    <2> DEFINE y == [IdleHttpCall EXCEPT !.at = IF TokenMode(document) THEN "token" ELSE "send", !.method = op.method,
                                      !.body = op.body, !.path = op.path, !.doc = document, !.revision = documentRevision,
                                      !.held = refresh, !.table = {<<"refresh", refresh>>}]
    <2>1. op.path = "allowed" BY <1>5 DEF HttpAuthorize
    <2>3. document \in Document /\ Savable(document) /\ documentRevision \in Nat /\ refresh \in Nat /\ refresh <= Newest
      BY DEF HttpInv, DocumentHolds, EndpointHolds, Newest
    <2>5. /\ y.at = IF TokenMode(document) THEN "token" ELSE "send"
          /\ y.path = "allowed" /\ y.doc = document /\ y.held = refresh /\ y.table = {<<"refresh", refresh>>} /\ y.token = NoToken
          /\ y.revision = documentRevision /\ y.hops = 0
      BY <2>1 DEF IdleHttpCall
    <2>2. DOMAIN y = DOMAIN IdleHttpCall OBVIOUS
    <2>6. hcalls' = [hcalls EXCEPT ![c] = y] BY <1>5
    <2> HIDE DEF y
    <2>4. HasFields(y) BY <2>3, <2>5, <2>2 DEF HasFields, Stages, MaxHops
    <2>7. CallHolds(y) BY <2>3, <2>4, <2>5 DEF CallHolds, Active
    <2>8. \A d \in HttpCall : hcalls[d].at = "writing" => y.held # hcalls[d].held
      BY <2>5 DEF HttpInv, CallsHold, CallHolds
    <2> QED BY <1>1, <2>4, <2>5, <2>6, <2>7, <2>8, CallMoves
  <1> QED BY <1>2, <1>3, <1>4, <1>5

\* What a call that goes on keeps.
LEMMA FieldsKept ==
  ASSUME HttpInv, NEW c \in HttpCall
  PROVE  LET call == hcalls[c] IN
         /\ \A at \in Stages : LET y == [call EXCEPT !.at = at] IN
              /\ HasFields(y) /\ y.at = at /\ y.doc = call.doc /\ y.path = call.path /\ y.revision = call.revision /\ y.held = call.held
              /\ y.table = call.table /\ y.token = call.token /\ y.retry = call.retry
  BY CallFacts DEF CallHolds, HasFields, IdleHttpCall

LEMMA TokenAccessed ==
  ASSUME HttpInv, NEW c \in HttpCall, AccessToken(c)
  PROVE  HttpInv'
  <1> DEFINE call == hcalls[c]
             entry == Invalidated(cache, call.retry)
             token == CacheGet(entry, call.revision)
  <1>1. /\ call.at = "token" /\ cache' = IF token = NoToken THEN NoToken ELSE entry
        /\ IF token # NoToken THEN hcalls' = [hcalls EXCEPT ![c].at = "send", ![c].token = token, ![c].table = Captures(c, <<"access", token>>)]
           ELSE hcalls' = [hcalls EXCEPT ![c].at = "resolve"]
        /\ UNCHANGED <<document, documentRevision, refresh, issued, accepted, delivered, mislaid>>
    BY DEF AccessToken, endpointVars
  <1>2. token # NoToken => entry = cache /\ cache # NoToken /\ token = cache.token /\ cache.revision = call.revision
    BY DEF CacheGet, Invalidated
  <1>3. CallHolds(call) /\ \A d \in HttpCall : d # c /\ hcalls[d].at = "writing" => call.held # hcalls[d].held
    BY CallFacts
  <1>4. CacheKept' /\ CredentialStays'
    BY <1>1, <1>2 DEF HttpInv, CacheKept, CredentialStays, ObtainedUnder
  <1>5. CASE token # NoToken
    <2> DEFINE y == [call EXCEPT !.at = "send", !.token = token, !.table = Captures(c, <<"access", token>>)]
    <2>1. hcalls' = [hcalls EXCEPT ![c] = y] BY <1>1, <1>5
    <2>2. DOMAIN y = DOMAIN IdleHttpCall BY <1>3 DEF CallHolds, HasFields
    <2>3. /\ y.at = "send" /\ y.token = token /\ y.table = call.table \cup {<<"access", token>>} /\ y.doc = call.doc
          /\ y.path = call.path /\ y.held = call.held /\ y.revision = call.revision /\ y.hops = call.hops
      BY <1>3 DEF CallHolds, HasFields, IdleHttpCall, Captures
    <2>4. ObtainedUnder(token, call.revision)
      BY <1>2, <1>5 DEF HttpInv, CacheKept
    <2> HIDE DEF y, token, entry, call
    <2>5. CallHolds(y) BY <1>1, <1>3, <2>2, <2>3, <2>4 DEF CallHolds, HasFields, Stages, Active
    <2>6. \A d \in HttpCall : hcalls[d].at = "writing" => y.held # hcalls[d].held
      BY <1>1, <1>3, <2>3 DEF call
    <2> QED BY <1>1, <1>4, <2>1, <2>3, <2>5, <2>6, CallMoves DEF call
  <1>6. CASE token = NoToken
    <2> DEFINE y == [call EXCEPT !.at = "resolve"]
    <2>1. hcalls' = [hcalls EXCEPT ![c] = y] BY <1>1, <1>6
    <2>2. /\ HasFields(y) /\ y.at = "resolve" /\ y.doc = call.doc /\ y.path = call.path /\ y.held = call.held
          /\ y.table = call.table /\ y.token = call.token /\ y.revision = call.revision
      BY FieldsKept DEF Stages
    <2> HIDE DEF y, token, entry, call
    <2>3. CallHolds(y) BY <1>1, <1>3, <2>2 DEF CallHolds, Active
    <2>4. \A d \in HttpCall : hcalls[d].at = "writing" => y.held # hcalls[d].held
      BY <1>1, <1>3, <2>2 DEF call
    <2> QED BY <1>1, <1>4, <2>1, <2>2, <2>3, <2>4, CallMoves DEF call
  <1> QED BY <1>5, <1>6

LEMMA NameResolved ==
  ASSUME HttpInv, NEW c \in HttpCall, Obtain(c)
  PROVE  HttpInv'
  <1>1. /\ hcalls[c].at = "resolve" /\ UNCHANGED <<document, documentRevision, refresh, issued, accepted, mislaid>>
        /\ CacheKept' /\ CredentialStays'
    BY DEF Obtain, endpointVars, HttpInv, CacheKept, CredentialStays, ObtainedUnder
  <1>2. PICK answer \in Answers : Finish(c, Resolve(answer, Doc(c).internal)) \/ hcalls' = [hcalls EXCEPT ![c].at = "exchange"]
    BY DEF Obtain
  <1>3. CASE Finish(c, Resolve(answer, Doc(c).internal)) BY <1>1, <1>3, CallEnds
  <1>4. CASE hcalls' = [hcalls EXCEPT ![c].at = "exchange"]
    <2> DEFINE call == hcalls[c]
               y == [call EXCEPT !.at = "exchange"]
    <2>1. hcalls' = [hcalls EXCEPT ![c] = y] BY <1>4
    <2>2. /\ HasFields(y) /\ y.at = "exchange" /\ y.doc = call.doc /\ y.path = call.path /\ y.held = call.held
          /\ y.table = call.table /\ y.token = call.token /\ y.revision = call.revision
      BY FieldsKept DEF Stages
    <2> HIDE DEF y
    <2>3. CallHolds(y) BY <1>1, <2>2, CallFacts DEF CallHolds, Active
    <2>4. \A d \in HttpCall : hcalls[d].at = "writing" => y.held # hcalls[d].held
      BY <1>1, <2>2, CallFacts
    <2> QED BY <1>1, <2>1, <2>2, <2>3, <2>4, CallMoves
  <1> QED BY <1>2, <1>3, <1>4

LEMMA SignalHeard ==
  ASSUME HttpInv, NEW c \in HttpCall, HttpTimeout(c)
  PROVE  HttpInv'
  <1>1. /\ hcalls[c].at # "writing" /\ UNCHANGED <<document, documentRevision, refresh, issued, accepted, mislaid>>
        /\ CacheKept' /\ CredentialStays' /\ Finish(c, TransportFailure("aborted"))
    BY DEF HttpTimeout, endpointVars, HttpInv, CacheKept, CredentialStays, ObtainedUnder
  <1> QED BY <1>1, CallEnds


\* The credential goes to the base, over a connection the document's trust proved.
LEMMA Sent ==
  ASSUME HttpInv, NEW c \in HttpCall, Send(c)
  PROVE  HttpInv'
  <1> DEFINE call == hcalls[c]
  <1>1. call.at \in {"send", "hop"} /\ UNCHANGED <<document, documentRevision, refresh, issued, accepted, cache, mislaid>>
    BY DEF Send, endpointVars
  <1>2. CacheKept' BY <1>1 DEF HttpInv, CacheKept, ObtainedUnder
  <1>3. /\ CallHolds(call) /\ HasFields(call) /\ Active(call)
        /\ \A d \in HttpCall : hcalls[d].at = "writing" => call.held # hcalls[d].held
    BY <1>1, CallFacts DEF CallHolds, Active
  <1>4. PICK certificate \in Certificates :
     \/ Finish(c, TransportFailure("certificate")) /\ UNCHANGED delivered
     \/ /\ PeerAccepted(c, certificate)
        /\ delivered' = Delivery(c, certificate, IF call.path = "outside" THEN "outside" ELSE "base")
        /\ \E response \in Response :
             \/ /\ NextHop(response) /\ Room(call.hops)
                /\ hcalls' = [hcalls EXCEPT ![c].at = "hop", ![c].path = IF response.location = "under" THEN "allowed" ELSE "outside",
                                ![c].method = HopMethod(response.status, call.method),
                                ![c].body = HopBody(call, HopMethod(response.status, call.method)), ![c].hops = @ + 1]
             \/ hcalls' = [hcalls EXCEPT ![c].at = "token", ![c].retry = TRUE, ![c].hops = 0]
             \/ Finish(c, response.status)
    BY DEF Send
  <1>5. CASE Finish(c, TransportFailure("certificate")) /\ UNCHANGED delivered
    <2>1. CredentialStays' BY <1>5 DEF HttpInv, CredentialStays
    <2> QED BY <1>1, <1>2, <1>5, <2>1, CallEnds
  <1>6. ASSUME PeerAccepted(c, certificate),
               delivered' = Delivery(c, certificate, IF call.path = "outside" THEN "outside" ELSE "base")
        PROVE  CredentialStays'
    <2>1. delivered'.to = "base" /\ delivered'.trust = call.doc.trust /\ delivered'.certificate = certificate
          /\ delivered'.covered = (Secret(c) \in call.table)
      BY <1>3, <1>6 DEF Delivery, CallHolds, Covered, DestinationTrust, Doc
    <2>2. Savable(call.doc) BY <1>3 DEF CallHolds
    <2>3. Secret(c) \in call.table BY <1>1, <1>3 DEF Secret, CallHolds, Doc
    <2>4. call.doc.trust = "pin" => certificate = "pinned"
      BY <1>6, <2>2 DEF PeerAccepted, Verified, DestinationTrust, Doc, Judge, Savable
    <2> QED BY <2>1, <2>3, <2>4 DEF CredentialStays
  <1>7. ASSUME CredentialStays', NEW response \in Response, Finish(c, response.status) PROVE HttpInv'
    BY <1>1, <1>2, <1>7, CallEnds
  <1>8. ASSUME CredentialStays', NEW response \in Response, NextHop(response), Room(call.hops),
               hcalls' = [hcalls EXCEPT ![c].at = "hop", ![c].path = IF response.location = "under" THEN "allowed" ELSE "outside",
                                ![c].method = HopMethod(response.status, call.method),
                                ![c].body = HopBody(call, HopMethod(response.status, call.method)), ![c].hops = @ + 1]
        PROVE  HttpInv'
    <2> DEFINE y == [call EXCEPT !.at = "hop", !.path = IF response.location = "under" THEN "allowed" ELSE "outside",
                                 !.method = HopMethod(response.status, call.method),
                                 !.body = HopBody(call, HopMethod(response.status, call.method)), !.hops = @ + 1]
    <2>1. hcalls' = [hcalls EXCEPT ![c] = y] BY <1>8
    <2>2. DOMAIN y = DOMAIN IdleHttpCall BY <1>3 DEF HasFields
    <2>3. /\ y.at = "hop" /\ y.path = (IF response.location = "under" THEN "allowed" ELSE "outside") /\ y.hops = call.hops + 1
          /\ y.doc = call.doc /\ y.held = call.held /\ y.table = call.table /\ y.token = call.token /\ y.revision = call.revision
      BY <1>3 DEF HasFields, IdleHttpCall
    <2>4. response.location = "under" BY <1>8 DEF NextHop, IsUnderBase
    <2>5. call.hops < MaxHops /\ call.hops \in Nat BY <1>3, <1>8 DEF Room, HasFields, MaxHops
    <2> HIDE DEF y, call
    <2>6. HasFields(y) BY <1>3, <2>2, <2>3, <2>5 DEF HasFields, Stages, MaxHops
    <2>7. CallHolds(y) BY <1>1, <1>3, <2>3, <2>4, <2>6 DEF CallHolds, Active
    <2>8. \A d \in HttpCall : hcalls[d].at = "writing" => y.held # hcalls[d].held BY <1>3, <2>3
    <2> QED BY <1>1, <1>2, <1>8, <2>1, <2>3, <2>7, <2>8, CallMoves DEF call
  <1>9. ASSUME CredentialStays', hcalls' = [hcalls EXCEPT ![c].at = "token", ![c].retry = TRUE, ![c].hops = 0]
        PROVE  HttpInv'
    <2> DEFINE y == [call EXCEPT !.at = "token", !.retry = TRUE, !.hops = 0]
    <2>1. hcalls' = [hcalls EXCEPT ![c] = y] BY <1>9
    <2>2. DOMAIN y = DOMAIN IdleHttpCall BY <1>3 DEF HasFields
    <2>3. /\ y.at = "token" /\ y.path = call.path /\ y.hops = 0
          /\ y.doc = call.doc /\ y.held = call.held /\ y.table = call.table /\ y.token = call.token /\ y.revision = call.revision
      BY <1>3 DEF HasFields, IdleHttpCall
    <2> HIDE DEF y, call
    <2>6. HasFields(y) BY <1>3, <2>2, <2>3 DEF HasFields, Stages, MaxHops
    <2>7. CallHolds(y) BY <1>1, <1>3, <2>3, <2>6 DEF CallHolds, Active
    <2>8. \A d \in HttpCall : hcalls[d].at = "writing" => y.held # hcalls[d].held BY <1>3, <2>3
    <2> QED BY <1>1, <1>2, <1>9, <2>1, <2>3, <2>7, <2>8, CallMoves DEF call
  <1> QED BY <1>4, <1>5, <1>6, <1>7, <1>8, <1>9


\* What a grant adds: a token of the call's revision, and a successor to a refresh token that is given up.
LEMMA GrantFacts ==
  ASSUME HttpInv, NEW c \in HttpCall, Granted(c), EndpointGrants(c)
  PROVE  /\ issued' \in Seq(Nat) /\ Len(issued') <= IssuedMax /\ Newest' = Newest + 1
         /\ \A n, rev : ObtainedUnder(n, rev) => ObtainedUnder(n, rev)'
         /\ Newest \in DOMAIN issued' /\ issued'[Newest] = hcalls[c].revision
         /\ accepted \ {hcalls[c].held} \subseteq accepted'
         /\ Successor(c) = hcalls[c].held => accepted \subseteq accepted'
         /\ Successor(c) # hcalls[c].held => Successor(c) = Newest + 1 /\ Successor(c) \in accepted'
  <1>1. hcalls[c].revision \in Nat /\ issued \in Seq(Nat) /\ Newest \in Nat BY CallFacts DEF CallHolds, HasFields, HttpInv, EndpointHolds
  <1>2. issued' = Append(issued, hcalls[c].revision) /\ Newest <= IssuedMax BY DEF EndpointGrants
  <1>3. issued' \in Seq(Nat) /\ Len(issued') = Len(issued) + 1 BY <1>1, <1>2
  <1>4. \A n \in DOMAIN issued : n \in DOMAIN issued' /\ issued'[n] = issued[n] BY <1>1, <1>2
  <1>5. Newest \in DOMAIN issued' /\ issued'[Newest] = hcalls[c].revision BY <1>1, <1>2 DEF Newest
  <1>6. accepted' = IF Doc(c).grant = "client_credentials" THEN accepted
                    ELSE (IF habit = "revokes" THEN accepted \ {hcalls[c].held} ELSE accepted) \cup {Successor(c)}
    BY DEF EndpointGrants
  <1>7. Len(issued') <= IssuedMax /\ Newest' = Newest + 1 BY <1>1, <1>2, <1>3, HttpBounds DEF Newest
  <1>8. \A n, rev : ObtainedUnder(n, rev) => ObtainedUnder(n, rev)' BY <1>4 DEF ObtainedUnder
  <1>9. accepted \ {hcalls[c].held} \subseteq accepted' BY <1>6
  <1>10. Successor(c) = hcalls[c].held => accepted \subseteq accepted' BY <1>6
  <1>11. Successor(c) # hcalls[c].held => Successor(c) = Newest + 1 /\ Successor(c) \in accepted' BY <1>6 DEF Successor
  <1> QED BY <1>3, <1>5, <1>7, <1>8, <1>9, <1>10, <1>11

\* A call gets its grant: it writes the successor, has nothing to write, or ends without it.
LEMMA GrantMoves ==
  ASSUME HttpInv, NEW c \in HttpCall, hcalls[c].at = "exchange", Granted(c), EndpointGrants(c),
         hcalls' = [d \in HttpCall |-> IF d = c THEN hcalls'[c] ELSE hcalls[d]], CallHolds(hcalls[c])',
         hcalls'[c].at = "writing" => hcalls'[c].held = Newest + 1,
         hcalls'[c].at # "writing" => hcalls'[c].held \in {0, hcalls[c].held},
         hcalls'[c].at = "writing" \/ mislaid' \/ Successor(c) = hcalls[c].held, mislaid => mislaid',
         UNCHANGED <<document, documentRevision, refresh>>, CacheKept', CredentialStays'
  PROVE  HttpInv'
  <1>1. DocumentHolds' BY DEF HttpInv, DocumentHolds
  <1>2. EndpointHolds' BY GrantFacts DEF HttpInv, EndpointHolds, Newest
  <1>3. ASSUME NEW d \in HttpCall, d # c PROVE hcalls'[d] = hcalls[d] /\ CallHolds(hcalls[d])' /\ hcalls[d].held <= Newest
    <2>1. CallHolds(hcalls[d]) /\ hcalls'[d] = hcalls[d] BY <1>3, CallFacts
    <2>2. hcalls[d].at = "writing" => hcalls[c].held # hcalls[d].held BY <1>3, CallFacts
    <2>3. Newest \in Nat /\ Newest' = Newest + 1 /\ hcalls[d].held \in Nat BY <2>1, CallFacts, GrantFacts DEF CallHolds, HasFields
    <2>4. hcalls[d].at = "writing" => hcalls[d].held \in accepted' BY <2>1, <2>2, GrantFacts DEF CallHolds
    <2>5. \A n, rev : ObtainedUnder(n, rev) => ObtainedUnder(n, rev)' BY GrantFacts
    <2>6. CallHolds(hcalls[d])' BY <2>1, <2>3, <2>4, <2>5 DEF CallHolds, HasFields, Active
    <2> QED BY <2>1, <2>6 DEF CallHolds
  <1>4. \A a, b \in HttpCall : a # b /\ hcalls'[a].at = "writing" => hcalls'[b].held # hcalls'[a].held
    <2> SUFFICES ASSUME NEW a \in HttpCall, NEW b \in HttpCall, a # b, hcalls'[a].at = "writing" PROVE hcalls'[b].held # hcalls'[a].held
      OBVIOUS
    <2>1. CASE a = c
      <3>1. hcalls'[b] = hcalls[b] /\ hcalls[b].held <= Newest /\ hcalls[b].held \in Nat BY <1>3, <2>1, CallFacts DEF CallHolds, HasFields
      <3>2. hcalls'[a].held = Newest + 1 /\ Newest \in Nat BY <2>1, CallFacts
      <3> QED BY <3>1, <3>2
    <2>2. CASE b = c
      <3>1. hcalls'[a] = hcalls[a] /\ hcalls[a].held <= Newest /\ hcalls[a].held > 0 /\ hcalls[a].held # hcalls[c].held
        BY <1>3, <2>2, CallFacts DEF CallHolds
      <3>2. Newest \in Nat BY CallFacts
      <3> QED BY <2>2, <3>1, <3>2
    <2>3. CASE a # c /\ b # c BY <1>3, <2>3, CallFacts
    <2> QED BY <2>1, <2>2, <2>3
  <1>5. CallsHold' BY <1>3, <1>4 DEF CallsHold
  <1>6. CredentialAlive'
    <2>1. CASE hcalls'[c].at = "writing" \/ mislaid' BY <2>1 DEF CredentialAlive
    <2>2. CASE hcalls'[c].at # "writing" /\ Successor(c) = hcalls[c].held /\ ~mislaid'
      <3>1. refresh \in accepted \/ \E d \in HttpCall : hcalls[d].at = "writing" BY <2>2 DEF HttpInv, CredentialAlive
      <3>2. accepted \subseteq accepted' BY <2>2, GrantFacts
      <3>3. \A d \in HttpCall : hcalls[d].at = "writing" => hcalls'[d] = hcalls[d] BY <1>3
      <3> QED BY <3>1, <3>2, <3>3 DEF CredentialAlive
    <2> QED BY <2>1, <2>2
  <1> QED BY <1>1, <1>2, <1>5, <1>6 DEF HttpInv


LEMMA TokenRequested ==
  ASSUME HttpInv, NEW c \in HttpCall, RequestToken(c)
  PROVE  HttpInv'
  <1> DEFINE call == hcalls[c]
  <1>1. call.at = "exchange" /\ UNCHANGED <<document, documentRevision, refresh, mislaid>> BY DEF RequestToken
  <1>2. /\ CallHolds(call) /\ HasFields(call) /\ Active(call) /\ call.held \in Nat /\ call.held <= Newest /\ Newest \in Nat \ {0}
        /\ \A d \in HttpCall : d # c /\ hcalls[d].at = "writing" => call.held # hcalls[d].held
    BY <1>1, CallFacts DEF CallHolds, HasFields, Active
  <1>3. PICK certificate \in {"store", "none"}, answer \in TokenAnswers :
     \/ Finish(c, TransportFailure("certificate")) /\ UNCHANGED <<issued, accepted, cache, delivered>>
     \/ /\ Verified(TRUE, "store", certificate)
        /\ delivered' = [to |-> "endpoint", certificate |-> certificate, trust |-> "store",
                          covered |-> Covered(c, <<"refresh", call.held>>)]
        /\ \/ /\ Granted(c) /\ EndpointGrants(c)
              /\ \/ /\ Unwritten(c) /\ cache' = Cached(c, Newest)
                    /\ hcalls' = [hcalls EXCEPT ![c].at = "send", ![c].token = Newest, ![c].table = Captures(c, <<"access", Newest>>)]
                 \/ /\ ~Unwritten(c) /\ UNCHANGED cache
                    /\ hcalls' = [hcalls EXCEPT ![c].at = "writing", ![c].token = Newest, ![c].held = Successor(c),
                                    ![c].table = Captures(c, <<"access", Newest>>) \cup {<<"refresh", Successor(c)>>}]
           \/ Finish(c, TokenOutcome(answer)) /\ UNCHANGED <<issued, accepted, cache>>
    BY DEF RequestToken, endpointVars
  <1>4. CASE Finish(c, TransportFailure("certificate")) /\ UNCHANGED <<issued, accepted, cache, delivered>>
    <2>1. CacheKept' /\ CredentialStays' BY <1>4 DEF HttpInv, CacheKept, CredentialStays, ObtainedUnder
    <2> QED BY <1>1, <1>4, <2>1, CallEnds
  <1>5. ASSUME Verified(TRUE, "store", certificate),
               delivered' = [to |-> "endpoint", certificate |-> certificate, trust |-> "store",
                             covered |-> Covered(c, <<"refresh", call.held>>)]
        PROVE  CredentialStays'
    <2>1. certificate = "store" BY <1>5 DEF Verified
    <2>2. Covered(c, <<"refresh", call.held>>) BY <1>2 DEF CallHolds, Covered
    <2> QED BY <1>5, <2>1, <2>2 DEF CredentialStays
  <1>6. ASSUME CredentialStays', Finish(c, TokenOutcome(answer)), UNCHANGED <<issued, accepted, cache>> PROVE HttpInv'
    <2>1. CacheKept' BY <1>6 DEF HttpInv, CacheKept, ObtainedUnder
    <2> QED BY <1>1, <1>6, <2>1, CallEnds
  <1>7. ASSUME CredentialStays', Granted(c), EndpointGrants(c), Unwritten(c), cache' = Cached(c, Newest),
               hcalls' = [hcalls EXCEPT ![c].at = "send", ![c].token = Newest, ![c].table = Captures(c, <<"access", Newest>>)]
        PROVE  HttpInv'
    <2> DEFINE y == hcalls'[c]
    <2>1. DOMAIN y = DOMAIN IdleHttpCall BY <1>2, <1>7 DEF HasFields, HttpInv, CallsHold
    <2>2. hcalls' = [d \in HttpCall |-> IF d = c THEN hcalls'[c] ELSE hcalls[d]] BY <1>7 DEF HttpInv, CallsHold
    <2>3. /\ y.at = "send" /\ y.token = Newest /\ y.table = call.table \cup {<<"access", Newest>>} /\ y.doc = call.doc
          /\ y.path = call.path /\ y.held = call.held /\ y.revision = call.revision /\ y.hops = call.hops
      BY <1>2, <1>7 DEF HasFields, IdleHttpCall, Captures, HttpInv, CallsHold
    <2>4. Successor(c) = call.held BY <1>7 DEF Unwritten, WritesNothing
    <2>5. CallHolds(hcalls[c])'
      BY <1>2, <2>1, <2>3, GrantFacts, <1>7 DEF CallHolds, HasFields, Stages, Active, ObtainedUnder, IdleHttpCall
    <2>6. CacheKept'
      BY <1>7, GrantFacts DEF CacheKept, ObtainedUnder, Cached
    <2> QED BY <1>1, <1>7, <2>2, <2>3, <2>4, <2>5, <2>6, GrantMoves
  <1>8. ASSUME CredentialStays', Granted(c), EndpointGrants(c), ~Unwritten(c), UNCHANGED cache,
               hcalls' = [hcalls EXCEPT ![c].at = "writing", ![c].token = Newest, ![c].held = Successor(c),
                            ![c].table = Captures(c, <<"access", Newest>>) \cup {<<"refresh", Successor(c)>>}]
        PROVE  HttpInv'
    <2> DEFINE y == hcalls'[c]
    <2>1. DOMAIN y = DOMAIN IdleHttpCall BY <1>2, <1>8 DEF HasFields, HttpInv, CallsHold
    <2>2. hcalls' = [d \in HttpCall |-> IF d = c THEN hcalls'[c] ELSE hcalls[d]] BY <1>8 DEF HttpInv, CallsHold
    <2>3. /\ y.at = "writing" /\ y.token = Newest /\ {<<"refresh", Successor(c)>>, <<"access", Newest>>} \subseteq y.table /\ y.doc = call.doc
          /\ y.path = call.path /\ y.held = Successor(c) /\ y.revision = call.revision /\ y.hops = call.hops
      BY <1>2, <1>8 DEF HasFields, IdleHttpCall, HttpInv, CallsHold, Captures
    <2>4. Successor(c) = Newest + 1 /\ Successor(c) \in accepted' /\ Newest' = Newest + 1 /\ refresh < Newest + 1
      BY <1>8, GrantFacts DEF Unwritten, WritesNothing, HttpInv, EndpointHolds, Newest
    <2>5. CallHolds(hcalls[c])'
      BY <1>1, <1>2, <2>1, <2>3, <2>4, GrantFacts, <1>8 DEF CallHolds, HasFields, Stages, Active, ObtainedUnder, IdleHttpCall
    <2>6. CacheKept'
      BY <1>8, GrantFacts DEF HttpInv, CacheKept
    <2> QED BY <1>1, <1>8, <2>2, <2>3, <2>4, <2>5, <2>6, GrantMoves
  <1> QED BY <1>3, <1>4, <1>5, <1>6, <1>7, <1>8

LEMMA AnswerIsLost ==
  ASSUME HttpInv, NEW c \in HttpCall, AnswerLost(c)
  PROVE  HttpInv'
  <1>1. PICK why : Finish(c, TransportFailure(why)) BY DEF AnswerLost
  <1>2. /\ hcalls[c].at = "exchange" /\ Granted(c) /\ EndpointGrants(c) /\ mislaid' = (mislaid \/ Successor(c) # hcalls[c].held)
        /\ UNCHANGED <<document, documentRevision, refresh, cache, delivered>>
    BY DEF AnswerLost
  <1> DEFINE y == hcalls'[c]
  <1>3. y = [IdleHttpCall EXCEPT !.at = "done", !.end = TransportFailure(why)] BY <1>1 DEF Finish, HttpInv, CallsHold
  <1>4. HasFields(y) /\ y.at = "done" /\ y.held = 0 /\ y.token = NoToken BY <1>3 DEF HasFields, IdleHttpCall, Stages, MaxHops
  <1>5. hcalls' = [d \in HttpCall |-> IF d = c THEN hcalls'[c] ELSE hcalls[d]] BY <1>1 DEF Finish, HttpInv, CallsHold
  <1>6. CallHolds(hcalls[c])' BY <1>2, <1>4, GrantFacts, CallFacts DEF CallHolds, HasFields, IdleHttpCall, Active
  <1>7. CacheKept' /\ CredentialStays' BY <1>2, GrantFacts DEF HttpInv, CacheKept, CredentialStays
  <1> QED BY <1>2, <1>4, <1>5, <1>6, <1>7, GrantMoves


\* The vault takes the successor, which the endpoint still takes because nobody else has it.
LEMMA WrittenBack ==
  ASSUME HttpInv, NEW c \in HttpCall, WriteBack(c)
  PROVE  HttpInv'
  <1> DEFINE call == hcalls[c]
  <1>1. call.at = "writing" /\ UNCHANGED <<document, documentRevision, issued, accepted, delivered>> BY DEF WriteBack, endpointVars
  <1>2. /\ CallHolds(call) /\ HasFields(call) /\ Newest \in Nat
        /\ call.held \in Nat /\ call.held > 0 /\ call.held <= Newest /\ call.held \in accepted /\ ObtainedUnder(call.token, call.revision)
    BY <1>1, CallFacts DEF CallHolds, HasFields
  <1>3. DocumentHolds' /\ CredentialStays' BY <1>1 DEF HttpInv, DocumentHolds, CredentialStays
  <1>4. CASE refresh' = call.held /\ cache' = Cached(c, call.token) /\ hcalls' = [hcalls EXCEPT ![c].at = "send"]
    <2> DEFINE y == hcalls'[c]
    <2>1. EndpointHolds' BY <1>1, <1>2, <1>4 DEF HttpInv, EndpointHolds, Newest
    <2>2. CacheKept' BY <1>1, <1>2, <1>4 DEF CacheKept, Cached, ObtainedUnder
    <2>3. CredentialAlive' BY <1>1, <1>2, <1>4 DEF CredentialAlive
    <2>4. HasFields(y) /\ y = [call EXCEPT !.at = "send"] BY <1>2, <1>4 DEF HasFields, Stages, IdleHttpCall, HttpInv, CallsHold
    <2>5. y.at = "send" /\ y.doc = call.doc /\ y.path = call.path /\ y.held = call.held /\ y.table = call.table
          /\ y.token = call.token /\ y.revision = call.revision
      BY <1>2, <2>4 DEF HasFields, IdleHttpCall
    <2>6. TokenMode(call.doc) => <<"access", call.token>> \in call.table BY <1>1, <1>2 DEF CallHolds
    <2>7. CallHolds(hcalls[c])' BY <1>1, <1>2, <2>4, <2>5, <2>6 DEF CallHolds, Active, Newest, ObtainedUnder
    <2>8. ASSUME NEW d \in HttpCall, d # c PROVE hcalls'[d] = hcalls[d] /\ CallHolds(hcalls[d])'
      <3>1. hcalls'[d] = hcalls[d] /\ CallHolds(hcalls[d]) BY <1>4, <2>8, CallFacts DEF HttpInv, CallsHold
      <3>2. hcalls[d].at = "writing" => hcalls[d].held # call.held BY <2>8, CallFacts
      <3> QED BY <1>1, <1>4, <3>1, <3>2 DEF CallHolds, HasFields, Active, Newest, ObtainedUnder
    <2>9. \A a, b \in HttpCall : a # b /\ hcalls'[a].at = "writing" => hcalls'[b].held # hcalls'[a].held
      BY <2>5, <2>8 DEF HttpInv, CallsHold
    <2>10. hcalls' = [d \in HttpCall |-> hcalls'[d]] BY <1>4 DEF HttpInv, CallsHold
    <2> QED BY <1>3, <2>1, <2>2, <2>3, <2>7, <2>8, <2>9, <2>10 DEF HttpInv, CallsHold
  <1>5. CASE Finish(c, "credential_rotation_failed") /\ mislaid' = TRUE /\ UNCHANGED <<refresh, cache>>
    <2> DEFINE y == hcalls'[c]
    <2>1. EndpointHolds' /\ CacheKept' /\ CredentialAlive'
      BY <1>1, <1>5 DEF HttpInv, EndpointHolds, CacheKept, CredentialAlive, Newest, ObtainedUnder
    <2>2. y = [IdleHttpCall EXCEPT !.at = "done", !.end = "credential_rotation_failed"] BY <1>5 DEF Finish, HttpInv, CallsHold
    <2>3. HasFields(y) /\ y.at = "done" /\ y.held = 0 /\ y.token = NoToken BY <2>2 DEF HasFields, IdleHttpCall, Stages, MaxHops
    <2>4. CallHolds(hcalls[c])' BY <1>1, <2>3, CallFacts DEF CallHolds, HasFields, IdleHttpCall, Active, Newest
    <2>5. ASSUME NEW d \in HttpCall, d # c PROVE hcalls'[d] = hcalls[d] /\ CallHolds(hcalls[d])'
      <3>1. hcalls'[d] = hcalls[d] /\ CallHolds(hcalls[d]) BY <1>5, <2>5, CallFacts DEF Finish, HttpInv, CallsHold
      <3> QED BY <1>1, <1>5, <3>1 DEF CallHolds, HasFields, Active, Newest, ObtainedUnder
    <2>6. \A a, b \in HttpCall : a # b /\ hcalls'[a].at = "writing" => hcalls'[b].held # hcalls'[a].held
      <3> SUFFICES ASSUME NEW a \in HttpCall, NEW b \in HttpCall, a # b, hcalls'[a].at = "writing" PROVE hcalls'[b].held # hcalls'[a].held
        OBVIOUS
      <3>1. a # c /\ hcalls'[a] = hcalls[a] /\ hcalls[a].held > 0 BY <2>3, <2>5, CallFacts DEF CallHolds
      <3> QED BY <2>3, <2>5, <3>1 DEF HttpInv, CallsHold
    <2>7. hcalls' = [d \in HttpCall |-> hcalls'[d]] BY <1>5 DEF Finish, HttpInv, CallsHold
    <2> QED BY <1>3, <2>1, <2>4, <2>5, <2>6, <2>7 DEF HttpInv, CallsHold
  <1> QED BY <1>4, <1>5 DEF WriteBack

LEMMA OperatorSaves ==
  ASSUME HttpInv, TokenAges \/ HttpSave
  PROVE  HttpInv'
  <1>1. UNCHANGED <<refresh, issued, accepted, hcalls, delivered, mislaid>> BY DEF TokenAges, HttpSave, endpointVars
  <1>2. CallsHold' /\ EndpointHolds' /\ CredentialAlive' /\ CredentialStays'
    BY <1>1 DEF HttpInv, CallsHold, CallHolds, HasFields, Active, ObtainedUnder, EndpointHolds, Newest, CredentialAlive, CredentialStays
  <1>3. DocumentHolds' BY HttpBounds DEF HttpInv, DocumentHolds, TokenAges, HttpSave
  <1>4. CacheKept'
    <2>1. CASE TokenAges BY <1>1, <2>1 DEF HttpInv, CacheKept, ObtainedUnder, TokenAges
    <2>2. CASE HttpSave BY <1>1, <2>2 DEF HttpInv, CacheKept, ObtainedUnder, HttpSave
    <2> QED BY <2>1, <2>2
  <1> QED BY <1>2, <1>3, <1>4 DEF HttpInv

LEMMA HttpKeeps ==
  ASSUME HttpInv, [HttpNext]_httpVars
  PROVE  HttpInv'
  <1>1. CASE UNCHANGED httpVars
    BY <1>1 DEF httpVars, HttpInv, DocumentHolds, EndpointHolds, CacheKept, CallsHold, CallHolds, HasFields, Active, ObtainedUnder, Newest,
                CredentialAlive, CredentialStays
  <1>2. ASSUME NEW c \in HttpCall, HttpArrive(c) \/ HttpStep(c) PROVE HttpInv'
    BY <1>2, HttpArrives, TokenAccessed, NameResolved, TokenRequested, WrittenBack, Sent, SignalHeard, AnswerIsLost DEF HttpStep
  <1> QED BY <1>1, <1>2, OperatorSaves DEF HttpNext

LEMMA HttpHolds == HttpSpec => []HttpInv
  BY HttpBegins, HttpKeeps, PTL DEF HttpSpec

\* connectors/http, connectors/graph and run-support.ts, ACT-22, ACT-82, ACT-83: for any number of calls,
\* documents and exchanges, every token is used under the revision it was obtained for, the vault's refresh
\* token is one the endpoint takes unless an answer or a write was lost, and a credential reaches only the
\* base or the endpoint, over a connection that proved itself, with its value in the scrub table.
THEOREM HttpIsSafe == HttpSpec => []HttpSafe
  <1>1. HttpInv => HttpSafe
    <2> SUFFICES ASSUME HttpInv PROVE HttpSafe OBVIOUS
    <2>1. HttpTypeOK
      <3>1. refresh \in 1..IssuedMax + 1 BY HttpBounds DEF HttpInv, EndpointHolds, Newest
      <3>2. ASSUME NEW c \in HttpCall PROVE hcalls[c].hops <= MaxHops /\ hcalls[c].at \in Stages
        <4>1. HasFields(hcalls[c]) BY CallFacts DEF CallHolds
        <4> QED BY <4>1 DEF HasFields, MaxHops
      <3> QED BY <3>1, <3>2 DEF HttpTypeOK, HttpInv, DocumentHolds, Stages
    <2>2. TokenOfItsRevision BY CallFacts DEF TokenOfItsRevision, CallHolds, ObtainedUnder
    <2> QED BY <2>1, <2>2 DEF HttpSafe, HttpInv
  <1> QED BY <1>1, HttpHolds, PTL

\* adapter.ts of graph: a call that was answered 401 goes back to the token endpoint before it sends again.
THEOREM RetriesAreFresh == HttpSpec => RetriesAfresh
  <1>1. HttpInv /\ [HttpNext]_httpVars
          => [\A c \in HttpCall : hcalls[c].retry /\ hcalls[c].at = "token" /\ hcalls'[c].at = "send"
                => hcalls'[c].token # hcalls[c].token]_httpVars
    <2> SUFFICES ASSUME HttpInv, HttpNext, NEW c \in HttpCall, hcalls[c].retry, hcalls[c].at = "token", hcalls'[c].at = "send" PROVE FALSE
      OBVIOUS
    <2>1. ~TokenAges /\ ~HttpSave BY DEF TokenAges, HttpSave
    <2>2. PICK d \in HttpCall : HttpArrive(d) \/ HttpStep(d) BY <2>1 DEF HttpNext
    <2>3. ASSUME d # c PROVE hcalls'[c] = hcalls[c]
      <3>1. \A how : Finish(d, how) => hcalls'[c] = hcalls[c] BY <2>3 DEF Finish, HttpInv, CallsHold
      <3>2. CASE HttpArrive(d) BY <2>3, <3>1, <3>2 DEF HttpArrive, HttpInv, CallsHold
      <3>3. CASE AccessToken(d) BY <2>3, <3>3 DEF AccessToken, HttpInv, CallsHold
      <3>4. CASE Obtain(d) BY <2>3, <3>1, <3>4 DEF Obtain, HttpInv, CallsHold
      <3>5. CASE RequestToken(d) BY <2>3, <3>1, <3>5 DEF RequestToken, HttpInv, CallsHold
      <3>6. CASE WriteBack(d) BY <2>3, <3>1, <3>6 DEF WriteBack, HttpInv, CallsHold
      <3>7. CASE Send(d) BY <2>3, <3>1, <3>7 DEF Send, HttpInv, CallsHold
      <3>8. CASE HttpTimeout(d) \/ AnswerLost(d) BY <3>1, <3>8 DEF HttpTimeout, AnswerLost
      <3> QED BY <2>2, <3>2, <3>3, <3>4, <3>5, <3>6, <3>7, <3>8 DEF HttpStep
    <2>4. d = c BY <2>3
    <2>5. AccessToken(c)
      BY <2>2, <2>4 DEF HttpArrive, HttpStep, Obtain, RequestToken, WriteBack, Send, HttpTimeout, AnswerLost
    <2>6. hcalls' = [hcalls EXCEPT ![c].at = "resolve"] BY <2>5 DEF AccessToken, Invalidated, CacheGet
    <2> QED BY <2>6, CallFacts DEF CallHolds, HasFields, IdleHttpCall, HttpInv, CallsHold
  <1> QED BY <1>1, HttpHolds, PTL DEF HttpSpec, RetriesAfresh

-----------------------------------------------------------------------------
(* A command at a host.                                                    *)

SshStages == {"keys", "auth", "exec", "collect", "close"}
Over == {"ended", "killed"}

\* Where the connector is says which kind it is, and that the policy took the command.
Placed ==
  /\ runAt \in SshStages => shellDoc.kind = "ssh"
  /\ runAt \in Exchanges => shellDoc.kind = "winrm"
  /\ runAt \notin {"idle", "done"} \/ remote # "none" => Refusal(shellDoc, ask) = "none"
  /\ runAt \notin Exchanges => exchange = "ready"
  /\ replied = "ok" => runAt = "done"
  /\ problem # "ok"

\* Over SSH nothing is offered before the key, and a command that is not heard to
\* its end is killed or on a connection that failed.
SshRuns ==
  shellDoc.kind = "ssh" =>
    /\ runAt \in {"idle", "keys"} => offered = {}
    /\ runAt \in {"idle", "keys", "auth", "exec"} => remote = "none"
    /\ runAt = "collect" => remote # "none"
    /\ runAt \in {"close", "done"} => (remote = "running" => broken)
    /\ runAt = "close" => (problem = "none" => remote # "none")
    /\ problem = "host_key_mismatch" => runAt = "done"
    /\ "secret" \in offered => problem # "host_key_mismatch" /\ shellDoc.hostKey = "pinned"

\* Over WinRM a shell is deleted without a failure only after the end of its command was read.
WinrmRuns ==
  shellDoc.kind = "winrm" =>
    /\ runAt \in {"stdin", "receive"} => remote # "none"
    /\ exchange = "done" /\ runAt = "command" => remote # "none"
    /\ exchange = "done" /\ runAt = "receive" => remote \in Over
    /\ runAt = "terminate" => problem # "none"
    /\ runAt = "delete" /\ problem = "none" => remote \in Over
    /\ "secret" \in offered => shellDoc.tls

ShellInv ==
  /\ shellDoc \in ShellDocument /\ ShellTypeOK
  /\ Placed /\ SshRuns /\ WinrmRuns /\ "clear" \notin offered /\ OkIsOver

LEMMA ShellBegins == ShellInit => ShellInv
  BY DEF ShellInit, ShellInv, ShellTypeOK, Exchanges, Cleanup, SshStages, Placed, SshRuns, WinrmRuns, OkIsOver

\* What the documents are, and the stages the connector passes.
LEMMA ShellShapes ==
  ASSUME ShellInv
  PROVE  /\ shellDoc.kind \in {"ssh", "winrm"} /\ shellDoc.hostKey \in {"pinned", "unparsed"}
         /\ shellDoc.kind = "winrm" => shellDoc.auth \in {"basic", "negotiate"} /\ (shellDoc.auth = "basic" => shellDoc.tls)
         /\ shellDoc.kind = "ssh" => shellDoc.hostKey = "pinned"
  BY ShellDocumentAssumption DEF ShellInv, ShellTypeOK, ShellSavable, AuthHolds

LEMMA ShellArrives ==
  ASSUME ShellInv, ShellArrive
  PROVE  ShellInv'
  BY ShellShapes DEF ShellArrive, ShellInv, ShellTypeOK, Exchanges, Cleanup, SshStages, Over, Placed, SshRuns, WinrmRuns, OkIsOver,
     At, Reply, shellAsked, session, host, ShellSavable, CommandPolicyHolds, PinNeedsTls, AuthHolds

LEMMA SshKeeps ==
  ASSUME ShellInv, SshKeys \/ SshConnects \/ SshExec \/ SshHeard \/ SshCollects \/ SshClose \/ SshBreaks
  PROVE  ShellInv'
  <1> USE ShellShapes DEF ShellInv, ShellTypeOK, Exchanges, Cleanup, SshStages, Over, Placed, SshRuns, WinrmRuns, OkIsOver,
     At, Reply, shellAsked, session, host, SshFails
  <1>1. CASE SshKeys
    <2>1. /\ UNCHANGED <<shellDoc, ask, exchange, remote, shell, broken>> /\ runAt = "keys"
          /\ \/ runAt' = "auth" /\ socket' = "open" /\ offered' = offered \cup {"secret"} /\ UNCHANGED <<problem, replied>>
             \/ /\ runAt' = "done" /\ socket' = "none" /\ offered' = offered /\ problem' = "host_key_mismatch"
                /\ replied' \in {"host_key_mismatch", replied}
      BY <1>1 DEF SshKeys
    <2>2. shellDoc.kind = "ssh" /\ offered = {} /\ remote = "none" /\ problem # "host_key_mismatch" /\ problem # "ok" /\ replied # "ok"
      BY <2>1
    <2> QED BY <2>1, <2>2 DEF ShellSavable, CommandPolicyHolds, PinNeedsTls, AuthHolds
  <1>2. CASE SshConnects BY <1>2 DEF SshConnects, ConnectFailure, ShellSavable, CommandPolicyHolds, PinNeedsTls, AuthHolds
  <1>3. CASE SshExec BY <1>3 DEF SshExec, Aborted, Kill, ShellSavable, CommandPolicyHolds, PinNeedsTls, AuthHolds
  <1>4. CASE SshHeard BY <1>4 DEF SshHeard, ShellSavable, CommandPolicyHolds, PinNeedsTls, AuthHolds
  <1>5. CASE SshCollects BY <1>5 DEF SshCollects, ShellSavable, CommandPolicyHolds, PinNeedsTls, AuthHolds
  <1>6. CASE SshClose BY <1>6 DEF SshClose, ShellSavable, CommandPolicyHolds, PinNeedsTls, AuthHolds
  <1>7. CASE SshBreaks BY <1>7 DEF SshBreaks, ShellSavable, CommandPolicyHolds, PinNeedsTls, AuthHolds
  <1> QED BY <1>1, <1>2, <1>3, <1>4, <1>5, <1>6, <1>7

\* An exchange that is given up goes on to the cleaning up with a failure on record,
\* or, from the cleaning up, to the end.
LEMMA GivenUp ==
  ASSUME ShellInv, runAt \in Exchanges, NEW outcome, outcome # "ok", outcome # "none" \/ runAt \in Cleanup, GivesUp(runAt, outcome),
         socket' \in {"none", "open", "authenticated"}, UNCHANGED <<shellDoc, ask, offered, remote, shell>>, broken => broken'
  PROVE  ShellInv'
  <1> USE DEF Exchanges, Cleanup
  <1>1. /\ runAt' = AfterFailure(runAt) /\ exchange' = "ready"
        /\ problem' = IF runAt \in Cleanup \/ problem # "none" THEN problem ELSE outcome
    BY DEF GivesUp, At
  <1>2. shellDoc.kind = "winrm" /\ runAt \notin SshStages /\ Refusal(shellDoc, ask) = "none" /\ replied # "ok"
    BY DEF ShellInv, Placed, SshStages
  <1>3. CASE runAt \in {"create", "delete"}
    <2>1. runAt' = "done" BY <1>1, <1>3 DEF AfterFailure
    <2>2. replied' = IF replied = "nothing" THEN IF problem' = "none" THEN "ok" ELSE problem' ELSE replied
      BY <1>3 DEF GivesUp, AfterFailure, Reply
    <2>3. replied' = "ok" => remote \in Over
      BY <1>1, <1>2, <1>3, <2>2 DEF ShellInv, WinrmRuns, Placed
    <2> QED BY <1>1, <1>2, <2>1, <2>3 DEF ShellInv, ShellTypeOK, ShellSavable, CommandPolicyHolds, PinNeedsTls, AuthHolds, Placed, SshRuns, WinrmRuns, OkIsOver, Over, SshStages
  <1>4. CASE runAt \in {"command", "stdin", "receive", "terminate"}
    <2>1. runAt' \in Cleanup /\ (runAt # "receive" => runAt' = "delete") BY <1>1, <1>4 DEF AfterFailure
    <2>2. replied' = replied BY <1>4 DEF GivesUp, AfterFailure
    <2>3. problem' # "none" BY <1>1, <1>2, <1>4 DEF ShellInv, WinrmRuns
    <2> QED BY <1>1, <1>2, <2>1, <2>2, <2>3 DEF ShellInv, ShellTypeOK, ShellSavable, CommandPolicyHolds, PinNeedsTls, AuthHolds, Placed, SshRuns, WinrmRuns, OkIsOver, Over, SshStages
  <1> QED BY <1>3, <1>4

LEMMA WinrmKeeps ==
  ASSUME ShellInv, Handshake \/ WinrmPost \/ WinrmAnswer \/ WinrmAborted \/ CleanupOverdue \/ WinrmLost
  PROVE  ShellInv'
  <1> DEFINE Sockets == {"none", "open", "authenticated"}
  <1>1. socket \in Sockets BY DEF ShellInv, ShellTypeOK
  <1>2. CASE Handshake
    <2>1. runAt \in Exchanges /\ UNCHANGED <<shellDoc, ask, late, offered, remote, shell, broken>>
      BY <1>2 DEF Handshake, shellAsked, host
    <2>2. CASE NtlmAccepted /\ UNCHANGED <<problem, exchange, replied, runAt>>
      BY <2>1, <2>2 DEF NtlmAccepted, ShellInv, ShellTypeOK, ShellSavable, CommandPolicyHolds, PinNeedsTls, AuthHolds, Placed, SshRuns, WinrmRuns, OkIsOver
    <2>3. ASSUME NEW outcome \in {"authentication_failed", "connection_failed", "tls_error", "upstream_error"}, GivesUp(runAt, outcome),
                 socket' \in {"none", "open"}
          PROVE  ShellInv'
      BY <2>1, <2>3, GivenUp
    <2> QED BY <1>2, <2>2, <2>3 DEF Handshake
  <1>3. CASE WinrmPost
    <2>1. /\ runAt \in Exchanges /\ exchange' = "posted" /\ socket' = SocketOf /\ offered' = offered \cup Carried(shellDoc)
          /\ UNCHANGED <<shellDoc, ask, runAt, replied, late, problem, remote, shell, broken>>
      BY <1>3 DEF WinrmPost, shellAsked, host
    <2>2. socket' \in Sockets BY <1>1, <2>1 DEF SocketOf, Replaced
    <2>3. shellDoc.kind = "winrm" BY <2>1 DEF ShellInv, Placed
    <2>4. Carried(shellDoc) \subseteq {"secret", "sealed"} /\ ("secret" \in Carried(shellDoc) => shellDoc.tls)
      BY <2>3, ShellShapes DEF Carried, Sealed
    <2>5. ShellTypeOK'
      BY <2>1, <2>2, <2>4 DEF ShellInv, ShellTypeOK, ShellSavable, CommandPolicyHolds, PinNeedsTls, AuthHolds
    <2>6. Placed' /\ OkIsOver'
      BY <2>1 DEF ShellInv, Placed, OkIsOver
    <2>7. SshRuns' /\ WinrmRuns' /\ "clear" \notin offered'
      BY <2>1, <2>3, <2>4 DEF ShellInv, SshRuns, WinrmRuns
    <2> QED BY <2>1, <2>5, <2>6, <2>7 DEF ShellInv
  <1>4. CASE WinrmAnswer
    <2>1. exchange \in AnswerRead /\ UNCHANGED <<shellDoc, ask, late, offered, remote, shell, broken>>
      BY <1>4 DEF WinrmAnswer, shellAsked, host
    <2>2. runAt \in Exchanges BY <2>1 DEF AnswerRead, ShellInv, Placed
    <2>3. CASE exchange \in {"output", "TimedOut"}
      <3>1. exchange' = "ready" /\ UNCHANGED <<runAt, problem, replied, socket>> BY <1>4, <2>3 DEF WinrmAnswer
      <3> QED
        BY <2>1, <3>1 DEF ShellInv, ShellTypeOK, ShellSavable, CommandPolicyHolds, PinNeedsTls, AuthHolds, Placed, SshRuns, WinrmRuns, OkIsOver
    <2>4. CASE exchange = "done" /\ runAt # "delete"
      <3>1. exchange' = "ready" /\ runAt' = AfterSuccess(runAt) /\ UNCHANGED <<problem, replied, socket>>
        BY <1>4, <2>4 DEF WinrmAnswer, At
      <3>2. /\ runAt' \in {"command", "stdin", "receive", "delete"}
            /\ runAt' \in {"stdin", "receive"} => runAt \in {"command", "stdin"}
            /\ runAt' = "delete" => runAt \in {"receive", "terminate"}
        BY <2>2, <2>4, <3>1 DEF AfterSuccess, AfterCommand, Exchanges, Cleanup
      <3>3. shellDoc.kind = "winrm" /\ Refusal(shellDoc, ask) = "none" /\ replied # "ok"
        BY <2>2 DEF ShellInv, Placed, Exchanges, Cleanup
      <3>4. /\ runAt' \in {"stdin", "receive"} => remote # "none"
            /\ runAt' = "delete" /\ problem = "none" => remote \in Over
        BY <2>4, <3>2, <3>3 DEF ShellInv, WinrmRuns
      <3> QED
        BY <2>1, <3>1, <3>2, <3>3, <3>4 DEF ShellInv, ShellTypeOK, ShellSavable, CommandPolicyHolds, PinNeedsTls, AuthHolds, Placed, SshRuns, WinrmRuns,
           OkIsOver, SshStages, Exchanges, Cleanup
    <2>5. CASE exchange \notin {"output", "TimedOut"} /\ ~(exchange = "done" /\ runAt # "delete")
      <3>1. GivesUp(runAt, AnswerFailure(exchange)) /\ (runAt \notin {"create", "delete"} => socket' = socket)
        BY <1>4, <2>5 DEF WinrmAnswer
      <3>2. runAt \in {"create", "delete"} => socket' = "none"
        BY <3>1 DEF GivesUp, AfterFailure
      <3>3. AnswerFailure(exchange) \notin {"none", "ok"} BY DEF AnswerFailure
      <3> QED BY <1>1, <2>1, <2>2, <3>1, <3>2, <3>3, GivenUp
    <2> QED BY <2>3, <2>4, <2>5
  <1>5. CASE WinrmAborted
    BY <1>5, GivenUp DEF WinrmAborted, WinrmCut, shellAsked, host
  <1>6. CASE CleanupOverdue
    BY <1>6, GivenUp DEF CleanupOverdue, WinrmCut, Exchanges, shellAsked, host
  <1>7. CASE WinrmLost
    BY <1>7, GivenUp DEF WinrmLost, WinrmCut, shellAsked, host
  <1> QED BY <1>2, <1>3, <1>4, <1>5, <1>6, <1>7

\* The host answers a request that was posted, and only the request for the command starts one.
LEMMA HostKeeps ==
  ASSUME ShellInv, HostAnswers
  PROVE  ShellInv'
  <1>1. exchange = "posted" /\ UNCHANGED <<shellDoc, ask, runAt, replied, late, problem, socket, offered, broken>>
    BY DEF HostAnswers, shellAsked
  <1>2. runAt \in Exchanges /\ shellDoc.kind = "winrm" /\ Refusal(shellDoc, ask) = "none" /\ replied # "ok"
    BY <1>1 DEF ShellInv, Placed, Exchanges, Cleanup
  <1>3. ASSUME HostDoes(runAt)
        PROVE  /\ remote' \in {remote, "running", "killed"} /\ (remote # "none" => remote' # "none")
               /\ runAt = "command" => remote' = "running"
               /\ runAt # "command" => (remote \in Over => remote' \in Over) /\ (remote' = "running" => remote = "running")
               /\ runAt = "receive" => remote' = remote
               /\ shell' \in {shell, "live", "deleted"}
    BY <1>2, <1>3 DEF HostDoes, Kill, Over, Exchanges, Cleanup
  <1>4. /\ remote' \in {remote, "running", "killed"} /\ (remote # "none" => remote' # "none")
        /\ runAt # "command" => (remote \in Over => remote' \in Over)
        /\ shell' \in {shell, "live", "deleted"}
    BY <1>3 DEF HostAnswers, host
  <1>5. exchange' = "done" => (runAt = "command" => remote' = "running") /\ (runAt = "receive" => remote # "running" /\ remote' = remote)
    BY <1>3 DEF HostAnswers
  <1> QED
    BY <1>1, <1>2, <1>4, <1>5 DEF ShellInv, ShellTypeOK, ShellSavable, CommandPolicyHolds, PinNeedsTls, AuthHolds, Placed, SshRuns, WinrmRuns,
       OkIsOver, Over

LEMMA ElseKeeps ==
  ASSUME ShellInv, ShellDeadline \/ CommandEnds \/ UNCHANGED shellVars
  PROVE  ShellInv'
  <1>1. CASE ShellDeadline
    <2>1. /\ UNCHANGED <<shellDoc, ask, socket, exchange, offered, shell, broken>> /\ runAt \notin {"idle", "done"}
          /\ replied' \in {"timeout", replied}
          /\ \/ runAt = "collect" /\ ~broken /\ remote' = Kill(remote) /\ problem' = "timeout" /\ runAt' = "close"
             \/ UNCHANGED <<remote, problem, runAt>>
      BY <1>1 DEF ShellDeadline, HearsDeadline, Reply, At, shellAsked, session
    <2>2. shellDoc.kind \in {"ssh", "winrm"} BY ShellShapes
    <2> QED
      BY <2>1, <2>2 DEF ShellInv, ShellTypeOK, ShellSavable, CommandPolicyHolds, PinNeedsTls, AuthHolds, Placed, SshRuns, WinrmRuns,
         OkIsOver, Over, Kill, SshStages, Exchanges, Cleanup
  <1>2. CASE CommandEnds
    <2>1. /\ UNCHANGED <<shellDoc, ask, runAt, replied, problem, socket, exchange, offered, shell, broken>>
          /\ remote = "running" /\ remote' = "ended"
      BY <1>2 DEF CommandEnds, shellAsked, session
    <2> QED
      BY <2>1 DEF ShellInv, ShellTypeOK, ShellSavable, CommandPolicyHolds, PinNeedsTls, AuthHolds, Placed, SshRuns, WinrmRuns, OkIsOver, Over
  <1>3. CASE UNCHANGED shellVars
    BY <1>3 DEF shellVars, ShellInv, ShellTypeOK, ShellSavable, CommandPolicyHolds, PinNeedsTls, AuthHolds, Placed, SshRuns, WinrmRuns, OkIsOver
  <1> QED BY <1>1, <1>2, <1>3

LEMMA ShellHolds == ShellSpec => []ShellInv
  <1>1. ShellInv /\ [ShellNext]_shellVars => ShellInv'
    BY ShellArrives, SshKeeps, WinrmKeeps, HostKeeps, ElseKeeps DEF ShellNext, ShellWorks, SshWorks, WinrmWorks
  <1> QED BY ShellBegins, <1>1, PTL DEF ShellSpec

\* ShellSafe (src/actions/connectors/ssh, winrm): only a command the policy takes
\* reaches a host, a secret crosses the network to the pinned key or inside TLS
\* only and nothing in the clear, no command is left running over a connection
\* that works, and an answer of success is a command that ended.
THEOREM ShellIsSafe == ShellSpec => []ShellSafe
  <1>1. ShellInv => ShellSafe
    <2> SUFFICES ASSUME ShellInv PROVE ShellSafe OBVIOUS
    <2>1. OnlyAllowedRuns BY DEF ShellInv, Placed, OnlyAllowedRuns, Refusal
    <2>2. NothingInTheClear BY DEF ShellInv, SshRuns, WinrmRuns, NothingInTheClear
    <2>3. SshCommandEnded BY DEF ShellInv, SshRuns, SshCommandEnded
    <2> QED BY <2>1, <2>2, <2>3 DEF ShellInv, ShellSafe
  <1> QED BY <1>1, ShellHolds, PTL

\* session.ts of winrm, ACT-90: a running command is given up through Signal only,
\* whatever the host, the deadline or the network did.
THEOREM SignalComesFirst == ShellSpec => SignalFirst
  <1>1. ShellInv /\ [ShellNext]_shellVars
          => [runAt = "receive" /\ runAt' # "receive" /\ remote = "running" => runAt' = "terminate"]_shellVars
    <2> SUFFICES ASSUME ShellInv, ShellNext, runAt = "receive", runAt' # "receive", remote = "running" PROVE runAt' = "terminate"
      OBVIOUS
    <2>1. shellDoc.kind = "winrm" /\ runAt \notin SshStages /\ exchange # "done"
      BY DEF ShellInv, Placed, WinrmRuns, Exchanges, Cleanup, SshStages, Over
    <2>2. \A outcome : GivesUp(runAt, outcome) => runAt' = "terminate"
      BY DEF GivesUp, At, AfterFailure
    <2>3. ~ShellArrive /\ ~SshWorks /\ ~SshBreaks
      BY <2>1 DEF ShellArrive, SshWorks, SshKeys, SshConnects, SshExec, SshHeard, SshCollects, SshClose, SshBreaks, SshStages
    <2>4. ~HostAnswers /\ ~CommandEnds /\ ~ShellDeadline /\ ~WinrmPost
      BY DEF HostAnswers, CommandEnds, ShellDeadline, HearsDeadline, WinrmPost
    <2>5. WinrmAnswer => runAt' = "terminate"
      BY <2>1, <2>2 DEF WinrmAnswer
    <2> QED
      BY <2>2, <2>3, <2>4, <2>5 DEF ShellNext, ShellWorks, WinrmWorks, Handshake, WinrmAborted, CleanupOverdue, WinrmLost, WinrmCut
  <1> QED BY <1>1, ShellHolds, PTL DEF ShellSpec, SignalFirst

\* None of the connectors, side by side, takes a step it may not: HTTP does not retry with the token a 401 refused, a
\* statement does not start after the deadline, and a WinRM command is given up through Signal only.
THEOREM ConnectorsKeepStep == HttpSpec /\ SqlSpec /\ ShellSpec => ConnectorSteps
  BY RetriesAreFresh, LateStatementsCancelled, SignalComesFirst DEF ConnectorSteps

-----------------------------------------------------------------------------
(* The authorization endpoint and the consent page.                        *)

SessionKey == [session : 1..SessionMax] \cup {Nobody}
CookieKey == [cookie : ClientIds] \cup {Nobody}
Resolving ==
  [at : {"resolve", "limit", "lookup", "connect"}, browser : Browser, session : SessionKey, cookie : CookieKey, client : AnyClient,
   uri : Uri, scopes : SUBSET AnyScope, rest : {"ok", "invalid"}, forced : BOOLEAN, hops : 0..2, address : {"none", "public"}]
Deciding ==
  [at : {"body"}, browser : Browser, session : SessionKey, cookie : CookieKey, id : ClientIds, held : PendingRows,
   csrf : SessionKey, approve : BOOLEAN, ticked : SUBSET AnyScope]

\* Only a metadata document is fetched, and only from an address that is public.
VisitsTyped ==
  /\ visits \in [Visit -> {IdleVisit} \cup Resolving \cup Deciding]
  /\ \A v \in Visit : visits[v].at \in {"limit", "lookup", "connect"} => visits[v].client \in DocumentClient
  /\ \A v \in Visit : visits[v].at = "connect" => visits[v].address = "public"
RowsTyped ==
  /\ pending \in [ClientIds -> {Nobody} \cup PendingRows]
  /\ browsers \in [Browser -> [session : SessionKey, cookie : CookieKey]]
  /\ sessions \in 0..SessionMax
StoreTyped ==
  /\ hosted \in [DocumentClient -> Metadata] /\ listed \in [AnyClient -> SUBSET Uri]
  /\ cached \in [DocumentClient -> {Nobody} \cup [doc : Metadata, fresh : BOOLEAN]]
  /\ clientRows \in [AnyClient -> {Nobody} \cup ClientRecords]
  /\ configured \subseteq ConfiguredClient /\ fetches \in 0..FetchBudget

\* The keys a browser has or had: its own, those its requests carried and those
\* its pending requests are bound to.  Each was made once, for one browser.
Holds(b, x) ==
  \/ x \in {browsers[b].session, browsers[b].cookie}
  \/ \E v \in Visit : visits[v].at # "idle" /\ visits[v].browser = b /\ x \in {visits[v].session, visits[v].cookie}
  \/ \E i \in ClientIds : pending[i] # Nobody /\ pending[i].by = b /\ pending[i].binding = x
Made == [session : 1..sessions] \cup [cookie : {i \in ClientIds : pending[i] # Nobody}]
KeysHeld ==
  \A x : x # Nobody =>
    /\ \A a, b \in Browser : Holds(a, x) /\ Holds(b, x) => a = b
    /\ \A a \in Browser : Holds(a, x) => x \in Made

\* What is stored of a client came from what it listed, and so did what waits.
StoreListed ==
  /\ \A c \in ConfiguredClient : ConfiguredUris \subseteq listed[c]
  /\ \A c \in DocumentClient :
       /\ hosted[c].owner = c => hosted[c].redirects \subseteq listed[c]
       /\ cached[c] # Nobody => cached[c].doc.redirects \subseteq listed[c]
  /\ \A c \in DynamicClient : IF clientRows[c] = Nobody THEN listed[c] = {} ELSE clientRows[c].redirects \subseteq listed[c]
PendingListed == \A i \in ClientIds : pending[i] # Nobody => IsRegisteredRedirect(pending[i].uri, listed[pending[i].client])

\* A code is one of a request that was decided, and there is one for each.
CodesDecided ==
  \A c \in issuedCodes :
    /\ c.id \in ClientIds /\ pending[c.id] # Nobody /\ pending[c.id].state = "decided"
    /\ pending[c.id].by = c.by /\ pending[c.id].client = c.client /\ pending[c.id].uri = c.uri
    /\ \A d \in issuedCodes : c.id = d.id => c = d

StoreInv == StoreTyped /\ StoreListed /\ ModesKept
ConsentInv == VisitsTyped /\ RowsTyped /\ StoreInv /\ KeysHeld /\ PendingListed /\ CodesDecided /\ LeavesForListed

\* An id is of one kind, so each kind's first list is its own.
LEMMA ConsentBegins == ConsentInit => ConsentInv
  <1> SUFFICES ASSUME ConsentInit PROVE ConsentInv OBVIOUS
  <1>1. VisitsTyped BY DEF ConsentInit, VisitsTyped, IdleVisit
  <1>2. RowsTyped BY ConsentBounds DEF ConsentInit, RowsTyped, SessionKey, CookieKey
  <1>3. \A c \in AnyClient : clientRows[c] = IF c \in configured THEN ClientRecord("preregistered", ConfiguredUris) ELSE Nobody
    BY DEF ConsentInit, Preregistered
  <1>4. configured \subseteq ConfiguredClient BY DEF ConsentInit
  <1>5. \A c \in AnyClient :
          /\ c \in DocumentClient => listed[c] = IF hosted[c].owner = c THEN hosted[c].redirects ELSE {}
          /\ c \in ConfiguredClient => listed[c] = ConfiguredUris
          /\ c \in DynamicClient => listed[c] = {}
    BY ClientAssumption DEF ConsentInit, AnyClient
  <1>6. StoreTyped
    <2>1. hosted \in [DocumentClient -> Metadata] BY DEF ConsentInit
    <2>2. listed \in [AnyClient -> SUBSET Uri]
      <3>1. \A c \in AnyClient : listed[c] \subseteq Uri BY <1>5, <2>1, MetadataAssumption DEF AnyClient
      <3>2. listed = [c \in AnyClient |-> listed[c]] BY DEF ConsentInit
      <3> QED BY <3>1, <3>2
    <2>3. clientRows \in [AnyClient -> {Nobody} \cup ClientRecords]
      BY MetadataAssumption DEF ConsentInit, Preregistered, ClientRecord, ClientRecords
    <2> QED BY <2>1, <2>2, <2>3, ConsentBounds DEF ConsentInit, StoreTyped
  <1>7. StoreListed BY <1>3, <1>4, <1>5, ClientAssumption DEF StoreListed, AnyClient, ConsentInit
  <1>8. ModesKept BY <1>3, <1>4, ClientAssumption DEF ModesKept, AnyClient, ClientRecord
  <1>9. KeysHeld BY DEF ConsentInit, KeysHeld, Holds, IdleVisit
  <1>10. PendingListed /\ CodesDecided /\ LeavesForListed BY DEF ConsentInit, PendingListed, CodesDecided, LeavesForListed
  <1> QED BY <1>1, <1>2, <1>6, <1>7, <1>8, <1>9, <1>10 DEF ConsentInv, StoreInv
\* What is registered stays registered as lists grow.
LEMMA RegisteredGrows ==
  ASSUME NEW u, NEW few, NEW many, few \subseteq many, IsRegisteredRedirect(u, few)
  PROVE  IsRegisteredRedirect(u, many)
  BY DEF IsRegisteredRedirect

\* The two kinds of keys are told apart, and so are their numbers.
LEMMA KeysApart ==
  ASSUME NEW i, NEW n
  PROVE  /\ [cookie |-> i] # [session |-> n]
         /\ [cookie |-> i] = [cookie |-> n] => i = n
         /\ [session |-> i] = [session |-> n] => i = n
  <1>1. [cookie |-> i] # [session |-> n]
    <2>1. DOMAIN [cookie |-> i] = {"cookie"} /\ DOMAIN [session |-> n] = {"session"} OBVIOUS
    <2> QED BY <2>1
  <1>2. [cookie |-> i].cookie = i /\ [cookie |-> n].cookie = n /\ [session |-> i].session = i /\ [session |-> n].session = n OBVIOUS
  <1> QED BY <1>1, <1>2

\* Keys that only travel within a browser, and at most one that is new.
LEMMA KeysTravel ==
  ASSUME KeysHeld, Made \subseteq Made', \A b \in Browser : \A x : x # Nobody /\ Holds(b, x)' => Holds(b, x)
  PROVE  KeysHeld'
  BY DEF KeysHeld

LEMMA KeyIsMade ==
  ASSUME KeysHeld, Made \subseteq Made', NEW b \in Browser, NEW new, new \notin Made, new \in Made',
         \A a \in Browser : \A x : x # Nobody /\ Holds(a, x)' => Holds(a, x) \/ (a = b /\ x = new)
  PROVE  KeysHeld'
  BY DEF KeysHeld

\* A request that came, waits or went, and rows that are bound to what they were.
LEMMA KeysPass ==
  ASSUME KeysHeld, NEW v \in Visit, UNCHANGED sessions, VisitsTyped, RowsTyped,
         \E k : /\ visits' = [visits EXCEPT ![v] = k]
                /\ \/ k.at = "idle"
                   \/ k.browser \in Browser /\ k.session = browsers[k.browser].session /\ k.cookie = browsers[k.browser].cookie
                   \/ visits[v].at # "idle" /\ k.browser = visits[v].browser /\ k.session = visits[v].session /\ k.cookie = visits[v].cookie,
         \A b \in Browser : browsers'[b].session \in {browsers[b].session, Nobody} /\ browsers'[b].cookie = browsers[b].cookie,
         \A i \in ClientIds :
           /\ pending'[i] # Nobody <=> pending[i] # Nobody
           /\ pending[i] # Nobody => pending'[i].by = pending[i].by /\ pending'[i].binding = pending[i].binding
  PROVE  KeysHeld'
  <1>1. Made' = Made BY DEF Made
  <1>2. ASSUME NEW b \in Browser, NEW x, x # Nobody, Holds(b, x)' PROVE Holds(b, x)
    <2>1. CASE x \in {browsers'[b].session, browsers'[b].cookie} BY <2>1, <1>2 DEF Holds
    <2>2. CASE \E w \in Visit : visits'[w].at # "idle" /\ visits'[w].browser = b /\ x \in {visits'[w].session, visits'[w].cookie}
      <3>1. PICK w \in Visit : visits'[w].at # "idle" /\ visits'[w].browser = b /\ x \in {visits'[w].session, visits'[w].cookie}
        BY <2>2
      <3>2. CASE w = v BY <3>1, <3>2 DEF Holds, VisitsTyped
      <3>3. CASE w # v
        <4>1. visits'[w] = visits[w] BY <3>3 DEF VisitsTyped
        <4> QED BY <3>1, <4>1 DEF Holds
      <3> QED BY <3>2, <3>3
    <2>3. CASE \E i \in ClientIds : pending'[i] # Nobody /\ pending'[i].by = b /\ pending'[i].binding = x BY <2>3 DEF Holds
    <2> QED BY <1>2, <2>1, <2>2, <2>3 DEF Holds
  <1> QED BY <1>1, <1>2, KeysTravel

\* What leaves and what waits stays listed as the lists grow.
LEMMA ListsGrow ==
  ASSUME ConsentInv, \A c \in AnyClient : listed[c] \subseteq listed'[c], UNCHANGED <<pending, issuedCodes>>, gone' = Nobody
  PROVE  PendingListed' /\ LeavesForListed'
  <1>1. \A i \in ClientIds : pending[i] # Nobody => pending[i].client \in AnyClient BY DEF ConsentInv, RowsTyped, PendingRows
  <1>2. \A c \in issuedCodes : c.client \in AnyClient BY <1>1 DEF ConsentInv, CodesDecided
  <1>3. PendingListed' BY <1>1, RegisteredGrows DEF ConsentInv, PendingListed
  <1>4. LeavesForListed' BY <1>2, RegisteredGrows DEF ConsentInv, LeavesForListed
  <1> QED BY <1>3, <1>4
\* How a request is resolved: it ends with a page or an answer, or goes on.
SameVisitor(k, r) == k.browser = r.browser /\ k.session = r.session /\ k.cookie = r.cookie
GoesOn(v) ==
  /\ \E k \in Resolving :
       /\ visits' = [visits EXCEPT ![v] = k] /\ SameVisitor(k, visits[v])
       /\ k.at \in {"limit", "lookup", "connect"} => k.client \in DocumentClient
       /\ k.at = "connect" => k.address = "public"
  /\ gone' = Nobody /\ UNCHANGED <<pending, browsers>>
ResolveMoves(v) ==
  \/ PageShown(v) \/ GoesOn(v)
  \/ \E uris : uris \subseteq listed[visits[v].client] /\ Answered(v, uris)

\* What it stores on the way is a document of the client's own.
Stores(c) ==
  /\ fetches' \in 0..FetchBudget
  /\ \/ UNCHANGED clientRows
     \/ \E uris \in SUBSET Uri : c \in DocumentClient /\ clientRows' = UpsertCache(c, "cimd", uris)
  /\ \/ UNCHANGED cached
     \/ \E doc \in Metadata : c \in DocumentClient /\ doc.redirects \subseteq listed[c] /\ cached' = PutCache(c, doc)
Resolves(v) ==
  /\ visits[v] \in Resolving /\ ResolveMoves(v) /\ Stores(visits[v].client) /\ UNCHANGED <<aroundVars, listed, issuedCodes>>

LEMMA StoreLearns ==
  ASSUME StoreInv, NEW c \in AnyClient, Stores(c), UNCHANGED <<aroundVars, listed>>
  PROVE  StoreInv'
  <1>1. UNCHANGED <<hosted, configured, listed>> BY DEF aroundVars
  <1>4. cached' \in [DocumentClient -> {Nobody} \cup [doc : Metadata, fresh : BOOLEAN]]
        /\ \A d \in DocumentClient : cached'[d] # Nobody => cached'[d].doc.redirects \subseteq listed[d]
    <2>1. CASE UNCHANGED cached BY <2>1 DEF StoreInv, StoreTyped, StoreListed
    <2>2. CASE \E doc \in Metadata : c \in DocumentClient /\ doc.redirects \subseteq listed[c] /\ cached' = PutCache(c, doc)
      <3>1. PICK doc \in Metadata : c \in DocumentClient /\ doc.redirects \subseteq listed[c] /\ cached' = PutCache(c, doc) BY <2>2
      <3> DEFINE row == [doc |-> doc, fresh |-> TRUE]
      <3>2. row \in [doc : Metadata, fresh : BOOLEAN] /\ row.doc = doc OBVIOUS
      <3>3. cached' = [cached EXCEPT ![c] = row] BY <3>1 DEF PutCache
      <3> HIDE DEF row
      <3>4. cached'[c] = row /\ \A d \in DocumentClient : d # c => cached'[d] = cached[d] BY <3>1, <3>3 DEF StoreInv, StoreTyped
      <3>5. cached' \in [DocumentClient -> {Nobody} \cup [doc : Metadata, fresh : BOOLEAN]] BY <3>2, <3>3 DEF StoreInv, StoreTyped
      <3> QED BY <3>1, <3>2, <3>4, <3>5 DEF StoreInv, StoreListed
    <2> QED BY <2>1, <2>2 DEF Stores
  <1>2. CASE UNCHANGED clientRows
    <2>1. clientRows' = clientRows BY <1>2
    <2> QED BY <1>1, <2>1, <1>4 DEF Stores, StoreInv, StoreTyped, StoreListed, ModesKept
  <1>3. CASE \E uris \in SUBSET Uri : c \in DocumentClient /\ clientRows' = UpsertCache(c, "cimd", uris)
    <2>1. PICK uris \in SUBSET Uri : c \in DocumentClient /\ clientRows' = UpsertCache(c, "cimd", uris) BY <1>3
    <2>2. clientRows[c] # Nobody => clientRows[c] \in ClientRecords /\ clientRows[c].mode = "cimd"
      BY <2>1, ClientAssumption DEF StoreInv, StoreTyped, ModesKept, AnyClient
    <2> DEFINE row == ClientRecord(IF clientRows[c] = Nobody THEN "cimd" ELSE clientRows[c].mode, uris)
    <2>3. row = [mode |-> "cimd", redirects |-> uris] BY <2>2 DEF ClientRecord
    <2>4. row \in ClientRecords /\ row.mode = "cimd" BY <2>3 DEF ClientRecords
    <2>5. clientRows' = [clientRows EXCEPT ![c] = row] BY <2>1 DEF UpsertCache
    <2> HIDE DEF row
    <2>6. clientRows' \in [AnyClient -> {Nobody} \cup ClientRecords] BY <2>4, <2>5 DEF StoreInv, StoreTyped
    <2>7. \A d \in AnyClient : d # c => clientRows'[d] = clientRows[d] BY <2>5 DEF StoreInv, StoreTyped
    <2>8. clientRows'[c] = row BY <2>5 DEF StoreInv, StoreTyped
    <2>9. ModesKept'
      <3> SUFFICES ASSUME NEW d \in AnyClient, clientRows'[d] # Nobody
                   PROVE  clientRows'[d].mode = CASE d \in DocumentClient -> "cimd" [] d \in DynamicClient -> "dcr" [] OTHER -> "preregistered"
        BY DEF ModesKept
      <3>1. CASE d = c BY <3>1, <2>1, <2>4, <2>8, ClientAssumption
      <3>2. CASE d # c BY <3>2, <2>7 DEF StoreInv, ModesKept
      <3> QED BY <3>1, <3>2
    <2>10. \A d \in DynamicClient : clientRows'[d] = clientRows[d] BY <2>1, <2>7, ClientAssumption DEF AnyClient
    <2> QED BY <1>1, <1>4, <2>6, <2>9, <2>10 DEF Stores, StoreInv, StoreTyped, StoreListed
  <1> QED BY <1>2, <1>3 DEF Stores

\* A row that is parked is the visitor's, bound to a key of that browser or to a new one.
LEMMA RowIsParked ==
  ASSUME ConsentInv, NEW v \in Visit, visits[v] \in Resolving, NEW i \in FreeIds, Parked(v, i), End(v),
         IsRegisteredRedirect(visits[v].uri, listed[visits[v].client]), UNCHANGED <<sessions, issuedCodes, listed>>
  PROVE  RowsTyped' /\ KeysHeld' /\ PendingListed' /\ CodesDecided'
  <1> DEFINE r == visits[v]  new == [cookie |-> i]
             binding == IF r.session = Nobody THEN BindingCookie(v, i) ELSE r.session
             row == PendingRow(r, binding)
  <1>1. r.browser \in Browser /\ r.client \in AnyClient /\ r.uri \in Uri /\ r.scopes \in SUBSET AnyScope
        /\ r.session \in SessionKey /\ r.cookie \in CookieKey
    BY DEF Resolving
  <1>2. i \in ClientIds /\ pending[i] = Nobody BY DEF FreeIds
  <1>3. BindingCookie(v, i) \in CookieKey /\ BindingCookie(v, i) \in {r.cookie, new}
    BY <1>1, <1>2 DEF BindingCookie, CookieKey
  <1>4. binding \in BindingKey /\ binding \in {r.session, r.cookie, new}
    BY <1>1, <1>3 DEF BindingKey, SessionKey, CookieKey
  <1>5. row \in PendingRows /\ row.by = r.browser /\ row.binding = binding /\ row.uri = r.uri /\ row.client = r.client
    BY <1>1, <1>4 DEF PendingRow, PendingRows
  <1>6. row # Nobody BY <1>5, NobodyAssumption
  <1>7. pending' = [pending EXCEPT ![i] = row] BY DEF Parked
  <1>8. \/ browsers' = browsers
        \/ browsers' = [browsers EXCEPT ![r.browser].cookie = BindingCookie(v, i)]
    BY DEF Parked
  <1> HIDE DEF row, binding
  <1>9. pending' \in [ClientIds -> {Nobody} \cup PendingRows] /\ pending'[i] = row /\ \A j \in ClientIds : j # i => pending'[j] = pending[j]
    BY <1>2, <1>5, <1>7 DEF ConsentInv, RowsTyped
  <1>10. browsers' \in [Browser -> [session : SessionKey, cookie : CookieKey]]
         /\ (\A b \in Browser : browsers'[b].session = browsers[b].session)
         /\ \A b \in Browser : browsers'[b].cookie = browsers[b].cookie \/ (b = r.browser /\ browsers'[b].cookie \in {r.cookie, new})
    BY <1>1, <1>3, <1>8 DEF ConsentInv, RowsTyped
  <1>11. RowsTyped' BY <1>9, <1>10 DEF ConsentInv, RowsTyped
  <1>12. KeysHeld'
    <2>1. new \notin Made
      <3>1. new \notin [session : 1..sessions]
        <4> SUFFICES ASSUME NEW x \in [session : 1..sessions] PROVE x # new OBVIOUS
        <4>1. x = [session |-> x.session] OBVIOUS
        <4> QED BY <4>1, KeysApart
      <3>2. new \notin [cookie : {j \in ClientIds : pending[j] # Nobody}]
        <4> SUFFICES ASSUME NEW x \in [cookie : {j \in ClientIds : pending[j] # Nobody}] PROVE x # new OBVIOUS
        <4>1. pending[x.cookie] # Nobody OBVIOUS
        <4>2. new.cookie = i OBVIOUS
        <4> QED BY <4>1, <4>2, <1>2
      <3> QED BY <3>1, <3>2 DEF Made
    <2>2. Made \subseteq Made' /\ new \in Made' BY <1>2, <1>6, <1>9 DEF Made
    <2>3. r.at # "idle" BY DEF Resolving
    <2>4. ASSUME NEW a \in Browser, NEW x, x # Nobody, Holds(a, x)' PROVE Holds(a, x) \/ (a = r.browser /\ x = new)
      <3> HIDE DEF new
      <3>1. x \in {r.session, r.cookie} => Holds(r.browser, x) BY <2>3 DEF Holds
      <3>2. CASE x \in {browsers'[a].session, browsers'[a].cookie}
        <4>1. CASE x = browsers'[a].session BY <4>1, <1>10 DEF Holds
        <4>2. CASE x = browsers'[a].cookie BY <4>2, <1>10, <3>1 DEF Holds
        <4> QED BY <3>2, <4>1, <4>2
      <3>3. CASE \E w \in Visit : visits'[w].at # "idle" /\ visits'[w].browser = a /\ x \in {visits'[w].session, visits'[w].cookie}
        <4>1. \A w \in Visit : visits'[w].at # "idle" => visits'[w] = visits[w] BY DEF End, IdleVisit, ConsentInv, VisitsTyped
        <4> QED BY <3>3, <4>1 DEF Holds
      <3>4. CASE \E j \in ClientIds : pending'[j] # Nobody /\ pending'[j].by = a /\ pending'[j].binding = x
        <4>1. PICK j \in ClientIds : pending'[j] # Nobody /\ pending'[j].by = a /\ pending'[j].binding = x BY <3>4
        <4>2. CASE j = i BY <4>1, <4>2, <1>4, <1>5, <1>9, <3>1
        <4>3. CASE j # i BY <4>1, <4>3, <1>9 DEF Holds
        <4> QED BY <4>2, <4>3
      <3> QED BY <2>4, <3>2, <3>3, <3>4 DEF Holds
    <2> HIDE DEF new
    <2>5. KeysHeld BY DEF ConsentInv
    <2> QED BY <2>1, <2>2, <2>4, <2>5, <1>1, KeyIsMade
  <1>13. PendingListed' BY <1>5, <1>9 DEF ConsentInv, PendingListed
  <1>14. CodesDecided' BY <1>2, <1>9 DEF ConsentInv, CodesDecided
  <1> QED BY <1>11, <1>12, <1>13, <1>14
LEMMA ResolutionHolds ==
  ASSUME ConsentInv, NEW v \in Visit, Resolves(v)
  PROVE  ConsentInv'
  <1> DEFINE r == visits[v]
  <1>1. r \in Resolving /\ r.client \in AnyClient BY DEF Resolves, Resolving
  <1>2. UNCHANGED <<hosted, configured, sessions, listed, issuedCodes>> BY DEF Resolves, aroundVars
  <1>3. StoreInv' BY <1>1, StoreLearns DEF Resolves, ConsentInv
  <1>4. CASE PageShown(v) \/ GoesOn(v)
    <2>1. gone' = Nobody /\ UNCHANGED <<pending, browsers>> BY <1>4 DEF PageShown, GoesOn
    <2>2. VisitsTyped' BY <1>4 DEF PageShown, End, IdleVisit, GoesOn, ConsentInv, VisitsTyped, Resolving, Deciding
    <2>3. \E k : /\ visits' = [visits EXCEPT ![v] = k]
                 /\ k.at = "idle" \/ (r.at # "idle" /\ SameVisitor(k, r))
      <3>1. r.at # "idle" BY <1>1 DEF Resolving
      <3>2. PageShown(v) => visits' = [visits EXCEPT ![v] = IdleVisit] /\ IdleVisit.at = "idle" BY DEF PageShown, End, IdleVisit
      <3>3. GoesOn(v) => \E k : visits' = [visits EXCEPT ![v] = k] /\ SameVisitor(k, r) BY DEF GoesOn
      <3> QED BY <1>4, <3>1, <3>2, <3>3
    <2>4. KeysHeld' BY <2>1, <2>3, <1>2, KeysPass DEF SameVisitor, ConsentInv
    <2>5. PendingListed' /\ LeavesForListed' BY <2>1, <1>2, ListsGrow
    <2>6. RowsTyped' /\ CodesDecided' BY <2>1, <1>2 DEF ConsentInv, RowsTyped, CodesDecided
    <2> QED BY <1>3, <2>2, <2>4, <2>5, <2>6 DEF ConsentInv
  <1>5. CASE \E uris : uris \subseteq listed[r.client] /\ Answered(v, uris)
    <2>1. PICK uris : uris \subseteq listed[r.client] /\ Answered(v, uris) BY <1>5
    <2>2. End(v) BY <2>1 DEF Answered
    <2>3. VisitsTyped' BY <2>2 DEF End, IdleVisit, ConsentInv, VisitsTyped, Resolving, Deciding
    <2>4. Trusted(r.uri, uris) => IsRegisteredRedirect(r.uri, listed[r.client]) BY <2>1, RegisteredGrows DEF Trusted
    <2>5. LeavesForListed'
      <3>1. gone' = Nobody \/ (gone' = RedirectToClient(r.client, r.uri) /\ Trusted(r.uri, uris)) BY <2>1 DEF Answered
      <3> QED BY <3>1, <2>4, <1>2 DEF LeavesForListed, RedirectToClient, ConsentInv
    <2>6. \/ Trusted(r.uri, uris) /\ \E i \in FreeIds : Parked(v, i)
          \/ UNCHANGED <<pending, browsers>>
      BY <2>1 DEF Answered
    <2>7. CASE Trusted(r.uri, uris) /\ \E i \in FreeIds : Parked(v, i)
      <3>1. RowsTyped' /\ KeysHeld' /\ PendingListed' /\ CodesDecided'
        BY <2>2, <2>4, <2>7, <1>1, <1>2, RowIsParked
      <3> QED BY <3>1, <2>3, <2>5, <1>3 DEF ConsentInv
    <2>8. CASE UNCHANGED <<pending, browsers>>
      <3>1. KeysHeld'
        <4>1. visits' = [visits EXCEPT ![v] = IdleVisit] /\ IdleVisit.at = "idle" BY <2>2 DEF End, IdleVisit
        <4> QED BY <4>1, <2>8, <1>2, KeysPass DEF ConsentInv
      <3>2. RowsTyped' /\ PendingListed' /\ CodesDecided' BY <2>8, <1>2 DEF ConsentInv, RowsTyped, PendingListed, CodesDecided
      <3> QED BY <3>1, <3>2, <2>3, <2>5, <1>3 DEF ConsentInv
    <2> QED BY <2>6, <2>7, <2>8
  <1> QED BY <1>4, <1>5 DEF Resolves, ResolveMoves

\* A request that is on its way to a place of its resolution.
LEMMA PlaceIsReached ==
  ASSUME NEW v \in Visit, VisitsTyped, visits[v] \in Resolving, visits[v].client \in DocumentClient,
         NEW place \in {"limit", "lookup"}, NEW forced \in BOOLEAN, ResolveAt(v, place, forced), gone' = Nobody, UNCHANGED <<pending, browsers>>
  PROVE  GoesOn(v)
  <1> DEFINE k == [visits[v] EXCEPT !.at = place, !.forced = forced, !.hops = 0]
  <1>1. visits' = [visits EXCEPT ![v] = k] BY DEF ResolveAt, VisitsTyped
  <1>2. k.browser = visits[v].browser /\ k.session = visits[v].session /\ k.cookie = visits[v].cookie
        /\ k.client = visits[v].client /\ k.at = place
    BY DEF Resolving
  <1>3. k \in Resolving
    <2> DEFINE first == [visits[v] EXCEPT !.at = place]  second == [first EXCEPT !.forced = forced]
    <2>1. first \in Resolving BY DEF Resolving
    <2>2. second \in Resolving
      <3> HIDE DEF first
      <3> QED BY <2>1 DEF Resolving
    <2>3. [second EXCEPT !.hops = 0] \in Resolving
      <3> HIDE DEF second
      <3> QED BY <2>2 DEF Resolving
    <2> QED BY <2>3
  <1> HIDE DEF k
  <1> QED BY <1>1, <1>2, <1>3 DEF GoesOn, SameVisitor

\* A document of the client's own ends the resolution or is fetched again.
LEMMA DocumentIsFound ==
  ASSUME ConsentInv, NEW v \in Visit, visits[v] \in Resolving, NEW doc \in Metadata, NEW cacheNow, NEW left \in 0..FetchBudget,
         visits[v].client \in DocumentClient, doc.redirects \subseteq listed[visits[v].client],
         RowFound(v, doc, cacheNow, left), cacheNow \in {cached, PutCache(visits[v].client, doc)},
         UNCHANGED <<aroundVars, listed, issuedCodes>>
  PROVE  Resolves(v)
  <1> DEFINE c == visits[v].client
  <1>1. cached' = cacheNow /\ fetches' = left BY DEF RowFound
  <1>2. doc.redirects \in SUBSET Uri BY MetadataAssumption
  <1>3. CASE NoRefetch(v, doc.redirects)
    <2>1. clientRows' = UpsertCache(c, "cimd", doc.redirects) /\ Answered(v, doc.redirects) BY <1>3 DEF RowFound
    <2> QED BY <1>1, <1>2, <2>1 DEF Resolves, ResolveMoves, Stores
  <1>4. CASE ~NoRefetch(v, doc.redirects)
    <2>1. ResolveAt(v, "limit", TRUE) /\ gone' = Nobody /\ UNCHANGED <<clientRows, pending, browsers>> BY <1>4 DEF RowFound
    <2>2. GoesOn(v) BY <2>1, PlaceIsReached DEF ConsentInv
    <2> QED BY <1>1, <2>1, <2>2 DEF Resolves, ResolveMoves, Stores
  <1> QED BY <1>3, <1>4

LEMMA FallsBack ==
  ASSUME ConsentInv, NEW v \in Visit, visits[v] \in Resolving, visits[v].client \in DocumentClient, NEW left \in 0..FetchBudget,
         FallBack(v, left), UNCHANGED <<aroundVars, listed, issuedCodes>>
  PROVE  Resolves(v)
  <1> DEFINE doc == CachedDocument(visits[v].client)
  <1>1. CASE doc = Nobody
    <2>1. PageShown(v) /\ fetches' = left /\ UNCHANGED <<cached, clientRows>> BY <1>1 DEF FallBack
    <2> QED BY <2>1 DEF Resolves, ResolveMoves, Stores
  <1>2. CASE doc # Nobody
    <2>1. doc \in Metadata /\ doc.redirects \subseteq listed[visits[v].client]
      BY <1>2 DEF CachedDocument, ConsentInv, StoreInv, StoreTyped, StoreListed
    <2>2. RowFound(v, doc, cached, left) BY <1>2 DEF FallBack
    <2> QED BY <2>1, <2>2, DocumentIsFound
  <1> QED BY <1>1, <1>2
\* The steps of a resolution are of that shape.
LEMMA ResolutionSteps ==
  ASSUME ConsentInv, NEW v \in Visit,
         ResolveKnown(v) \/ ResolveDocument(v) \/ FetchStarts(v) \/ LookupAnswers(v) \/ HostRedirects(v) \/ MetadataFails(v) \/ Refetched(v)
  PROVE  Resolves(v)
  <1> DEFINE r == visits[v]
  <1>1. r \in Resolving
    <2>1. r.at \in {"resolve", "limit", "lookup", "connect"}
      BY DEF ResolveKnown, ResolveDocument, FetchStarts, LookupAnswers, HostRedirects, MetadataFails, Refetched
    <2> QED BY <2>1 DEF ConsentInv, VisitsTyped, IdleVisit, Deciding
  <1>2. r.client \in AnyClient /\ r.hops \in 0..2 BY <1>1 DEF Resolving
  <1>3. fetches \in 0..FetchBudget /\ VisitsTyped BY DEF ConsentInv, StoreInv, StoreTyped
  <1>4. UNCHANGED <<aroundVars, listed, issuedCodes>>
    BY DEF ResolveKnown, ResolveDocument, FetchStarts, LookupAnswers, HostRedirects, MetadataFails, Refetched
  <1>5. r.at \in {"limit", "lookup", "connect"} => r.client \in DocumentClient BY <1>3 DEF VisitsTyped
  <1>6. CASE ResolveKnown(v)
    <2>1. r.client \notin DocumentClient /\ UNCHANGED resolverVars BY <1>6 DEF ResolveKnown
    <2>2. \/ PageShown(v)
          \/ r.client \in configured /\ Answered(v, ConfiguredUris)
          \/ clientRows[r.client] # Nobody /\ clientRows[r.client].mode = "dcr" /\ Answered(v, clientRows[r.client].redirects)
      BY <1>6 DEF ResolveKnown
    <2>3. r.client \in configured => ConfiguredUris \subseteq listed[r.client] BY DEF ConsentInv, StoreInv, StoreTyped, StoreListed
    <2>4. clientRows[r.client] # Nobody /\ clientRows[r.client].mode = "dcr" => clientRows[r.client].redirects \subseteq listed[r.client]
      <3>1. clientRows[r.client] # Nobody /\ clientRows[r.client].mode = "dcr" => r.client \in DynamicClient
        BY <1>2, <2>1 DEF ConsentInv, StoreInv, ModesKept
      <3> QED BY <3>1 DEF ConsentInv, StoreInv, StoreListed
    <2>5. ResolveMoves(v) BY <2>2, <2>3, <2>4 DEF ResolveMoves
    <2> QED BY <2>1, <2>5, <1>1, <1>3, <1>4 DEF resolverVars, Resolves, Stores
  <1>7. CASE ResolveDocument(v)
    <2>1. r.client \in DocumentClient BY <1>7 DEF ResolveDocument
    <2>2. \/ PageShown(v) /\ UNCHANGED resolverVars
          \/ FreshDocument(r.client) # Nobody /\ RowFound(v, FreshDocument(r.client), cached, fetches)
          \/ ResolveAt(v, "limit", FALSE) /\ gone' = Nobody /\ UNCHANGED <<resolverVars, pending, browsers>>
      BY <1>7 DEF ResolveDocument
    <2>3. CASE PageShown(v) /\ UNCHANGED resolverVars BY <2>3, <1>1, <1>3, <1>4 DEF resolverVars, Resolves, ResolveMoves, Stores
    <2>4. CASE FreshDocument(r.client) # Nobody /\ RowFound(v, FreshDocument(r.client), cached, fetches)
      <3>1. FreshDocument(r.client) \in Metadata /\ FreshDocument(r.client).redirects \subseteq listed[r.client]
        BY <2>1, <2>4 DEF FreshDocument, ConsentInv, StoreInv, StoreTyped, StoreListed
      <3> QED BY <3>1, <2>1, <2>4, <1>1, <1>3, <1>4, DocumentIsFound
    <2>5. CASE ResolveAt(v, "limit", FALSE) /\ gone' = Nobody /\ UNCHANGED <<resolverVars, pending, browsers>>
      <3>1. GoesOn(v) BY <2>1, <2>5, <1>1, <1>3, PlaceIsReached
      <3> QED BY <3>1, <2>5, <1>1, <1>3, <1>4 DEF resolverVars, Resolves, ResolveMoves, Stores
    <2> QED BY <2>2, <2>3, <2>4, <2>5
  <1>8. CASE FetchStarts(v)
    <2>1. r.client \in DocumentClient /\ r.forced \in BOOLEAN BY <1>1, <1>5, <1>8 DEF FetchStarts, Resolving
    <2>2. CASE FetchesSpent BY <2>1, <2>2, <1>1, <1>3, <1>4, <1>8, FallsBack, ConsentBounds DEF FetchStarts, FetchesSpent
    <2>3. CASE ~FetchesSpent
      <3>1. fetches' = fetches - 1 /\ ResolveAt(v, "lookup", r.forced) /\ gone' = Nobody /\ UNCHANGED <<cached, clientRows, pending, browsers>>
        BY <2>3, <1>8 DEF FetchStarts
      <3>2. fetches' \in 0..FetchBudget BY <2>3, <3>1, <1>3, ConsentBounds DEF FetchesSpent
      <3>3. GoesOn(v) BY <2>1, <3>1, <1>1, <1>3, PlaceIsReached
      <3> QED BY <3>1, <3>2, <3>3, <1>1, <1>4 DEF Resolves, ResolveMoves, Stores
    <2> QED BY <2>2, <2>3
  <1>9. CASE LookupAnswers(v)
    <2>1. r.client \in DocumentClient BY <1>5, <1>9 DEF LookupAnswers
    <2>2. \/ FallBack(v, fetches)
          \/ /\ visits' = [visits EXCEPT ![v].at = "connect", ![v].address = "public"]
             /\ gone' = Nobody /\ UNCHANGED <<resolverVars, pending, browsers>>
      BY <1>9 DEF LookupAnswers, PinnedAddress
    <2>3. CASE FallBack(v, fetches) BY <2>1, <2>3, <1>1, <1>3, <1>4, FallsBack
    <2>4. CASE visits' = [visits EXCEPT ![v].at = "connect", ![v].address = "public"]
               /\ gone' = Nobody /\ UNCHANGED <<resolverVars, pending, browsers>>
      <3> DEFINE k == [r EXCEPT !.at = "connect", !.address = "public"]
      <3>1. visits' = [visits EXCEPT ![v] = k] BY <2>4, <1>3 DEF VisitsTyped
      <3>2. k.browser = r.browser /\ k.session = r.session /\ k.cookie = r.cookie /\ k.client = r.client /\ k.address = "public"
        BY <1>1 DEF Resolving
      <3>3. k \in Resolving
        <4> DEFINE first == [r EXCEPT !.at = "connect"]
        <4>1. first \in Resolving BY <1>1 DEF Resolving
        <4>2. [first EXCEPT !.address = "public"] \in Resolving
          <5> HIDE DEF first
          <5> QED BY <4>1 DEF Resolving
        <4> QED BY <4>2
      <3> HIDE DEF k
      <3>4. GoesOn(v) BY <2>1, <2>4, <3>1, <3>2, <3>3 DEF GoesOn, SameVisitor
      <3> QED BY <3>4, <2>4, <1>1, <1>3, <1>4 DEF resolverVars, Resolves, ResolveMoves, Stores
    <2> QED BY <2>2, <2>3, <2>4
  <1>10. CASE HostRedirects(v)
    <2>1. r.client \in DocumentClient BY <1>5, <1>10 DEF HostRedirects
    <2>2. \/ FallBack(v, fetches)
          \/ /\ r.hops < 2 /\ visits' = [visits EXCEPT ![v].at = "lookup", ![v].hops = @ + 1, ![v].address = "none"]
             /\ gone' = Nobody /\ UNCHANGED <<resolverVars, pending, browsers>>
      BY <1>10 DEF HostRedirects
    <2>3. CASE FallBack(v, fetches) BY <2>1, <2>3, <1>1, <1>3, <1>4, FallsBack
    <2>4. CASE r.hops < 2 /\ visits' = [visits EXCEPT ![v].at = "lookup", ![v].hops = @ + 1, ![v].address = "none"]
               /\ gone' = Nobody /\ UNCHANGED <<resolverVars, pending, browsers>>
      <3> DEFINE k == [r EXCEPT !.at = "lookup", !.hops = @ + 1, !.address = "none"]
      <3>1. visits' = [visits EXCEPT ![v] = k] BY <2>4, <1>3 DEF VisitsTyped
      <3>2. k.browser = r.browser /\ k.session = r.session /\ k.cookie = r.cookie /\ k.client = r.client /\ k.at = "lookup"
        BY <1>1 DEF Resolving
      <3>3. k \in Resolving
        <4> DEFINE first == [r EXCEPT !.at = "lookup"]  second == [first EXCEPT !.hops = @ + 1]
        <4>1. first \in Resolving /\ first.hops = r.hops BY <1>1 DEF Resolving
        <4>2. second \in Resolving
          <5> HIDE DEF first
          <5>1. first.hops + 1 \in 0..2 BY <4>1, <2>4, <1>2
          <5> QED BY <4>1, <5>1 DEF Resolving
        <4>3. [second EXCEPT !.address = "none"] \in Resolving
          <5> HIDE DEF second
          <5> QED BY <4>2 DEF Resolving
        <4> QED BY <4>3
      <3> HIDE DEF k
      <3>4. GoesOn(v) BY <2>1, <2>4, <3>1, <3>2, <3>3 DEF GoesOn, SameVisitor
      <3> QED BY <3>4, <2>4, <1>1, <1>3, <1>4 DEF resolverVars, Resolves, ResolveMoves, Stores
    <2> QED BY <2>2, <2>3, <2>4
  <1>11. CASE MetadataFails(v) BY <1>11, <1>1, <1>3, <1>4, <1>5, FallsBack DEF MetadataFails
  <1>12. CASE Refetched(v)
    <2> DEFINE doc == hosted[r.client]
    <2>1. r.client \in DocumentClient BY <1>5, <1>12 DEF Refetched
    <2>2. doc \in Metadata BY <2>1 DEF ConsentInv, StoreInv, StoreTyped
    <2>3. CASE ParseCimdDocument(r.client, doc)
      <3>1. doc.redirects \subseteq listed[r.client] BY <2>1, <2>3 DEF ParseCimdDocument, ConsentInv, StoreInv, StoreListed
      <3>2. RowFound(v, doc, PutCache(r.client, doc), fetches) BY <2>3, <1>12 DEF Refetched
      <3> QED BY <3>1, <3>2, <2>1, <2>2, <1>1, <1>3, <1>4, DocumentIsFound
    <2>4. CASE ~ParseCimdDocument(r.client, doc)
      <3>1. PageShown(v) /\ UNCHANGED resolverVars BY <2>4, <1>12 DEF Refetched
      <3> QED BY <3>1, <1>1, <1>3, <1>4 DEF resolverVars, Resolves, ResolveMoves, Stores
    <2> QED BY <2>3, <2>4
  <1> QED BY <1>6, <1>7, <1>8, <1>9, <1>10, <1>11, <1>12
\* A request comes, from a browser with the keys it has.
LEMMA VisitBegins ==
  ASSUME ConsentInv, NEW v \in Visit, Authorize(v) \/ Submit(v)
  PROVE  ConsentInv'
  <1>1. UNCHANGED <<resolverVars, aroundVars, listed, pending, issuedCodes, browsers>> /\ gone' = Nobody BY DEF Authorize, Submit
  <1>2. UNCHANGED <<hosted, configured, sessions, cached, clientRows, fetches>> BY <1>1 DEF aroundVars, resolverVars
  <1>3. \E k \in Resolving \cup Deciding :
          /\ visits' = [visits EXCEPT ![v] = k] /\ k.at \in {"resolve", "body"}
          /\ k.browser \in Browser /\ k.session = browsers[k.browser].session /\ k.cookie = browsers[k.browser].cookie
    <2>1. CASE Authorize(v)
      <3>1. PICK b \in Browser, c \in AnyClient, u \in Uri, scopes \in {AnyScope} \cup {{s} : s \in AnyScope}, rest \in {"ok", "invalid"} :
              visits' = [visits EXCEPT ![v] = [at |-> "resolve", browser |-> b, session |-> browsers[b].session, cookie |-> browsers[b].cookie,
                           client |-> c, uri |-> u, scopes |-> scopes, rest |-> rest, forced |-> FALSE, hops |-> 0, address |-> "none"]]
        BY <2>1 DEF Authorize
      <3>2. browsers[b].session \in SessionKey /\ browsers[b].cookie \in CookieKey /\ scopes \in SUBSET AnyScope
        BY DEF ConsentInv, RowsTyped
      <3> DEFINE k == [at |-> "resolve", browser |-> b, session |-> browsers[b].session, cookie |-> browsers[b].cookie,
                       client |-> c, uri |-> u, scopes |-> scopes, rest |-> rest, forced |-> FALSE, hops |-> 0, address |-> "none"]
      <3>3. k \in Resolving BY <3>2 DEF Resolving
      <3>4. k.at = "resolve" /\ k.browser = b /\ k.session = browsers[b].session /\ k.cookie = browsers[b].cookie OBVIOUS
      <3>5. visits' = [visits EXCEPT ![v] = k] BY <3>1
      <3> HIDE DEF k
      <3> QED BY <3>3, <3>4, <3>5
    <2>2. CASE Submit(v)
      <3>1. PICK b \in Browser, i \in ClientIds, approve \in BOOLEAN, ticked \in SUBSET AnyScope : \E token \in {Nobody, browsers[b].session} :
              /\ pending[i] # Nobody
              /\ visits' = [visits EXCEPT ![v] = [at |-> "body", browser |-> b, session |-> browsers[b].session, cookie |-> browsers[b].cookie,
                              id |-> i, held |-> pending[i], csrf |-> token, approve |-> approve, ticked |-> ticked]]
        BY <2>2 DEF Submit
      <3>2. PICK token \in {Nobody, browsers[b].session} :
              visits' = [visits EXCEPT ![v] = [at |-> "body", browser |-> b, session |-> browsers[b].session, cookie |-> browsers[b].cookie,
                           id |-> i, held |-> pending[i], csrf |-> token, approve |-> approve, ticked |-> ticked]]
        BY <3>1
      <3>3. browsers[b].session \in SessionKey /\ browsers[b].cookie \in CookieKey /\ token \in SessionKey /\ pending[i] \in PendingRows
        BY <3>1 DEF ConsentInv, RowsTyped, SessionKey
      <3> DEFINE k == [at |-> "body", browser |-> b, session |-> browsers[b].session, cookie |-> browsers[b].cookie,
                       id |-> i, held |-> pending[i], csrf |-> token, approve |-> approve, ticked |-> ticked]
      <3>4. k \in Deciding BY <3>3 DEF Deciding
      <3>5. k.at = "body" /\ k.browser = b /\ k.session = browsers[b].session /\ k.cookie = browsers[b].cookie OBVIOUS
      <3>6. visits' = [visits EXCEPT ![v] = k] BY <3>2
      <3> HIDE DEF k
      <3> QED BY <3>4, <3>5, <3>6
    <2> QED BY <2>1, <2>2
  <1>4. VisitsTyped' BY <1>3 DEF ConsentInv, VisitsTyped
  <1>5. KeysHeld' BY <1>1, <1>2, <1>3, KeysPass DEF ConsentInv
  <1>6. RowsTyped' /\ StoreInv' /\ CodesDecided'
    BY <1>1, <1>2 DEF ConsentInv, RowsTyped, StoreInv, StoreTyped, StoreListed, ModesKept, CodesDecided
  <1>7. PendingListed' /\ LeavesForListed' BY <1>1, ListsGrow
  <1> QED BY <1>4, <1>5, <1>6, <1>7 DEF ConsentInv

\* The decision: on a live row, by a browser that proves its key.
LEMMA DecisionHolds ==
  ASSUME ConsentInv, NEW v \in Visit, Decide(v)
  PROVE  ConsentInv'
  <1> DEFINE r == visits[v]  p == pending[r.id]
  <1>1. r \in Deciding
    <2>1. r.at = "body" BY DEF Decide
    <2> QED BY <2>1 DEF ConsentInv, VisitsTyped, IdleVisit, Resolving
  <1>2. r.id \in ClientIds /\ r.browser \in Browser BY <1>1 DEF Deciding
  <1>3. End(v) /\ UNCHANGED <<resolverVars, aroundVars, listed, browsers>> BY DEF Decide
  <1>4. UNCHANGED <<hosted, configured, sessions, cached, clientRows, fetches>> BY <1>3 DEF aroundVars, resolverVars
  <1>5. VisitsTyped' BY <1>3 DEF End, IdleVisit, ConsentInv, VisitsTyped, Resolving, Deciding
  <1>6. StoreInv' BY <1>3, <1>4 DEF ConsentInv, StoreInv, StoreTyped, StoreListed, ModesKept
  <1>7. visits' = [visits EXCEPT ![v] = IdleVisit] /\ IdleVisit.at = "idle" BY <1>3 DEF End, IdleVisit
  <1>8. CASE gone' = Nobody /\ UNCHANGED <<pending, issuedCodes>>
    <2>1. KeysHeld' BY <1>3, <1>4, <1>7, <1>8, KeysPass DEF ConsentInv
    <2>2. PendingListed' /\ LeavesForListed' BY <1>3, <1>8, ListsGrow
    <2>3. RowsTyped' /\ CodesDecided' BY <1>3, <1>4, <1>8 DEF ConsentInv, RowsTyped, CodesDecided
    <2> QED BY <1>5, <1>6, <2>1, <2>2, <2>3 DEF ConsentInv
  <1>9. CASE /\ FindLive(v) /\ IsBoundToBrowser(v, p)
             /\ pending' = [pending EXCEPT ![r.id].state = "decided"]
             /\ gone' = RedirectToClient(p.client, p.uri)
             /\ \/ UNCHANGED issuedCodes
                \/ \E scopes : Issue(v, p, scopes)
    <2> DEFINE row == [p EXCEPT !.state = "decided"]
    <2>1. p # Nobody /\ p.state = "live" /\ p \in PendingRows
      BY <1>2, <1>9 DEF FindLive, LivePending, ConsentInv, RowsTyped
    <2>2. row \in PendingRows BY <2>1 DEF PendingRows
    <2>3. row.state = "decided" /\ row.by = p.by /\ row.binding = p.binding /\ row.client = p.client /\ row.uri = p.uri
      BY <2>1 DEF PendingRows
    <2>4. row # Nobody BY <2>2, NobodyAssumption
    <2>5. pending' = [pending EXCEPT ![r.id] = row] BY <1>2, <1>9 DEF ConsentInv, RowsTyped
    <2> HIDE DEF row
    <2>6. pending' \in [ClientIds -> {Nobody} \cup PendingRows] /\ pending'[r.id] = row
          /\ \A i \in ClientIds : i # r.id => pending'[i] = pending[i]
      BY <1>2, <2>2, <2>5 DEF ConsentInv, RowsTyped
    <2>7. RowsTyped' BY <1>3, <1>4, <2>6 DEF ConsentInv, RowsTyped
    <2>8. KeysHeld'
      <3>1. \A i \in ClientIds :
              /\ pending'[i] # Nobody <=> pending[i] # Nobody
              /\ pending[i] # Nobody => pending'[i].by = pending[i].by /\ pending'[i].binding = pending[i].binding
        BY <1>2, <2>1, <2>3, <2>4, <2>6
      <3> QED BY <3>1, <1>3, <1>4, <1>7, KeysPass DEF ConsentInv
    <2>9. PendingListed' BY <1>3, <2>1, <2>3, <2>6 DEF ConsentInv, PendingListed
    <2>10. IsRegisteredRedirect(p.uri, listed[p.client]) BY <1>2, <2>1 DEF ConsentInv, PendingListed
    <2>11. p.by = r.browser
      <3>1. p.binding \in {r.session, r.cookie} /\ p.binding # Nobody BY <1>9 DEF IsBoundToBrowser, BindingHashes
      <3>2. r.at # "idle" BY <1>1 DEF Deciding
      <3>3. Holds(r.browser, p.binding) BY <3>1, <3>2 DEF Holds
      <3>4. Holds(p.by, p.binding) /\ p.by \in Browser BY <1>2, <2>1 DEF Holds, PendingRows
      <3> QED BY <3>1, <3>3, <3>4, <1>2 DEF ConsentInv, KeysHeld
    <2>12. \A c \in issuedCodes : c.id # r.id BY <2>1 DEF ConsentInv, CodesDecided
    <2>13. \/ issuedCodes' = issuedCodes
           \/ \E code : /\ issuedCodes' = issuedCodes \cup {code}
                        /\ code.id = r.id /\ code.client = p.client /\ code.uri = p.uri /\ code.by = r.browser
      <3>1. CASE UNCHANGED issuedCodes BY <3>1
      <3>2. CASE \E scopes : Issue(v, p, scopes)
        <4>1. PICK scopes : Issue(v, p, scopes) BY <3>2
        <4> DEFINE code == [id |-> r.id, nth |-> Cardinality({c \in issuedCodes : c.id = r.id}), client |-> p.client, uri |-> p.uri,
                            scopes |-> scopes, by |-> r.browser, enabled |-> switchedOn]
        <4>2. issuedCodes' = issuedCodes \cup {code} BY <4>1 DEF Issue
        <4>3. code.id = r.id /\ code.client = p.client /\ code.uri = p.uri /\ code.by = r.browser OBVIOUS
        <4> HIDE DEF code
        <4> QED BY <4>2, <4>3
      <3> QED BY <1>9, <3>1, <3>2
    <2>14. CodesDecided'
      BY <1>2, <2>3, <2>4, <2>6, <2>11, <2>12, <2>13 DEF ConsentInv, CodesDecided
    <2>15. LeavesForListed'
      <3>1. gone' = [client |-> p.client, uri |-> p.uri] BY <1>9 DEF RedirectToClient
      <3> QED BY <3>1, <1>3, <2>10, <2>13 DEF ConsentInv, LeavesForListed
    <2> QED BY <1>5, <1>6, <2>7, <2>8, <2>9, <2>14, <2>15 DEF ConsentInv
  <1> QED BY <1>8, <1>9 DEF Decide

\* A client registers: its first list.
LEMMA RegistrationHolds ==
  ASSUME ConsentInv, Register
  PROVE  ConsentInv'
  <1>1. PICK c \in DynamicClient, uris \in SUBSET Uri :
          clientRows[c] = Nobody /\ clientRows' = UpsertCache(c, "dcr", uris) /\ listed' = [listed EXCEPT ![c] = uris]
    BY DEF Register
  <1>2. gone' = Nobody /\ UNCHANGED <<cached, fetches, hosted, configured, sessions, pending, issuedCodes, browsers, visits>>
    BY DEF Register, aroundVars
  <1> DEFINE row == ClientRecord("dcr", uris)
  <1>3. row \in ClientRecords /\ row.mode = "dcr" /\ row.redirects = uris BY DEF ClientRecord, ClientRecords
  <1>4. clientRows' = [clientRows EXCEPT ![c] = row] BY <1>1 DEF UpsertCache
  <1> HIDE DEF row
  <1>5. c \in AnyClient /\ c \notin DocumentClient /\ c \notin ConfiguredClient BY <1>1, ClientAssumption DEF AnyClient
  <1>6. clientRows' \in [AnyClient -> {Nobody} \cup ClientRecords] /\ clientRows'[c] = row
        /\ \A d \in AnyClient : d # c => clientRows'[d] = clientRows[d]
    BY <1>3, <1>4, <1>5 DEF ConsentInv, StoreInv, StoreTyped
  <1>7. listed' \in [AnyClient -> SUBSET Uri] /\ listed'[c] = uris /\ \A d \in AnyClient : d # c => listed'[d] = listed[d]
    BY <1>1, <1>5 DEF ConsentInv, StoreInv, StoreTyped
  <1>8. listed[c] = {} BY <1>1 DEF ConsentInv, StoreInv, StoreListed
  <1>9. PendingListed' /\ LeavesForListed'
    <2>1. \A d \in AnyClient : listed[d] \subseteq listed'[d] BY <1>7, <1>8
    <2> QED BY <2>1, <1>2, ListsGrow
  <1>10. StoreListed'
    <2>1. \A d \in DocumentClient \cup ConfiguredClient : listed'[d] = listed[d] BY <1>5, <1>7 DEF AnyClient
    <2>2. \A d \in DynamicClient : d # c => listed'[d] = listed[d] /\ clientRows'[d] = clientRows[d] BY <1>6, <1>7 DEF AnyClient
    <2>3. clientRows'[c] # Nobody /\ clientRows'[c].redirects \subseteq listed'[c] BY <1>3, <1>6, <1>7, NobodyAssumption
    <2> QED BY <2>1, <2>2, <2>3, <1>2 DEF ConsentInv, StoreInv, StoreListed
  <1>11. ModesKept'
    <2> SUFFICES ASSUME NEW d \in AnyClient, clientRows'[d] # Nobody
                 PROVE  clientRows'[d].mode = CASE d \in DocumentClient -> "cimd" [] d \in DynamicClient -> "dcr" [] OTHER -> "preregistered"
      BY DEF ModesKept
    <2>1. CASE d = c BY <2>1, <1>1, <1>3, <1>5, <1>6
    <2>2. CASE d # c BY <2>2, <1>6 DEF ConsentInv, StoreInv, ModesKept
    <2> QED BY <2>1, <2>2
  <1>12. StoreInv' BY <1>2, <1>6, <1>7, <1>10, <1>11 DEF ConsentInv, StoreInv, StoreTyped
  <1>13. VisitsTyped' /\ RowsTyped' /\ CodesDecided' BY <1>2 DEF ConsentInv, VisitsTyped, RowsTyped, CodesDecided
  <1>14. KeysHeld' BY <1>2 DEF ConsentInv, KeysHeld, Holds, Made
  <1> QED BY <1>9, <1>12, <1>13, <1>14 DEF ConsentInv
\* Around the requests: time, hosts, the browsers' sessions, a restart.
LEMMA AroundHolds ==
  ASSUME ConsentInv, PendingEnds \/ CacheEnds \/ HostChanges
  PROVE  ConsentInv'
  <1>1. gone' = Nobody /\ UNCHANGED <<clientRows, fetches, configured, sessions, issuedCodes, browsers, visits>>
    BY DEF PendingEnds, CacheEnds, HostChanges, aroundVars, resolverVars
  <1>2. VisitsTyped' BY <1>1 DEF ConsentInv, VisitsTyped
  <1>3. CASE PendingEnds
    <2>1. UNCHANGED <<cached, hosted, listed>> BY <1>3 DEF PendingEnds, aroundVars, resolverVars
    <2>2. PICK i \in ClientIds : LivePending(i) /\ pending' = [pending EXCEPT ![i].state = "expired"] BY <1>3 DEF PendingEnds
    <2> DEFINE row == [pending[i] EXCEPT !.state = "expired"]
    <2>3. pending[i] # Nobody /\ pending[i] \in PendingRows /\ pending[i].state = "live"
      BY <2>2 DEF LivePending, ConsentInv, RowsTyped
    <2>4. row \in PendingRows /\ row.by = pending[i].by /\ row.binding = pending[i].binding /\ row.client = pending[i].client
          /\ row.uri = pending[i].uri
      BY <2>3 DEF PendingRows
    <2>5. row # Nobody BY <2>4, NobodyAssumption
    <2>6. pending' = [pending EXCEPT ![i] = row] BY <2>2 DEF ConsentInv, RowsTyped
    <2> HIDE DEF row
    <2>7. pending' \in [ClientIds -> {Nobody} \cup PendingRows] /\ pending'[i] = row
          /\ \A j \in ClientIds : j # i => pending'[j] = pending[j]
      BY <2>4, <2>6 DEF ConsentInv, RowsTyped
    <2>8. RowsTyped' BY <1>1, <2>7 DEF ConsentInv, RowsTyped
    <2>9. Made' = Made BY <1>1, <2>3, <2>5, <2>7 DEF Made
    <2>10. \A b, x : Holds(b, x)' => Holds(b, x) BY <1>1, <2>3, <2>4, <2>7 DEF Holds
    <2>11. KeysHeld' BY <2>9, <2>10, KeysTravel DEF ConsentInv
    <2>12. PendingListed' BY <2>1, <2>3, <2>4, <2>7 DEF ConsentInv, PendingListed
    <2>13. LeavesForListed' BY <1>1, <2>1 DEF ConsentInv, LeavesForListed
    <2>14. \A c \in issuedCodes : c.id # i BY <2>3 DEF ConsentInv, CodesDecided
    <2>15. CodesDecided' BY <1>1, <2>7, <2>14 DEF ConsentInv, CodesDecided
    <2>16. StoreInv' BY <1>1, <2>1 DEF ConsentInv, StoreInv, StoreTyped, StoreListed, ModesKept
    <2> QED BY <1>2, <2>8, <2>11, <2>12, <2>13, <2>15, <2>16 DEF ConsentInv
  <1>4. CASE CacheEnds \/ HostChanges
    <2>1. UNCHANGED pending BY <1>4 DEF CacheEnds, HostChanges
    <2>2. RowsTyped' /\ CodesDecided' BY <1>1, <2>1 DEF ConsentInv, RowsTyped, CodesDecided
    <2>3. KeysHeld' BY <1>1, <2>1 DEF ConsentInv, KeysHeld, Holds, Made
    <2>4. CASE CacheEnds
      <3>1. UNCHANGED <<hosted, listed>> BY <2>4 DEF CacheEnds, aroundVars
      <3>2. PICK c \in DocumentClient : cached[c] # Nobody /\ cached' \in {[cached EXCEPT ![c] = Nobody], [cached EXCEPT ![c] = [@ EXCEPT !.fresh = FALSE]]}
        BY <2>4 DEF CacheEnds
      <3> DEFINE row == [cached[c] EXCEPT !.fresh = FALSE]
      <3>3. row \in [doc : Metadata, fresh : BOOLEAN] /\ row.doc = cached[c].doc BY <3>2 DEF ConsentInv, StoreInv, StoreTyped
      <3>4. cached' = [cached EXCEPT ![c] = Nobody] \/ cached' = [cached EXCEPT ![c] = row] BY <3>2 DEF ConsentInv, StoreInv, StoreTyped
      <3> HIDE DEF row
      <3>5. cached' \in [DocumentClient -> {Nobody} \cup [doc : Metadata, fresh : BOOLEAN]]
        BY <3>3, <3>4 DEF ConsentInv, StoreInv, StoreTyped
      <3>6. \A d \in DocumentClient : cached'[d] # Nobody => cached'[d].doc.redirects \subseteq listed[d]
        BY <3>2, <3>3, <3>4 DEF ConsentInv, StoreInv, StoreTyped, StoreListed
      <3>7. StoreInv' BY <1>1, <3>1, <3>5, <3>6 DEF ConsentInv, StoreInv, StoreTyped, StoreListed, ModesKept
      <3>8. PendingListed' /\ LeavesForListed' BY <1>1, <2>1, <3>1 DEF ConsentInv, PendingListed, LeavesForListed
      <3> QED BY <1>2, <2>2, <2>3, <3>7, <3>8 DEF ConsentInv
    <2>5. CASE HostChanges
      <3>1. PICK c \in DocumentClient, d \in Metadata :
              /\ hosted' = [hosted EXCEPT ![c] = d]
              /\ listed' = [listed EXCEPT ![c] = @ \cup IF d.owner = c THEN d.redirects ELSE {}]
        BY <2>5 DEF HostChanges
      <3>2. cached' = cached BY <2>5 DEF HostChanges, resolverVars
      <3>3. c \in AnyClient /\ c \notin DynamicClient /\ d.redirects \subseteq Uri BY ClientAssumption, MetadataAssumption DEF AnyClient
      <3>4. listed' \in [AnyClient -> SUBSET Uri] /\ \A x \in AnyClient : listed[x] \subseteq listed'[x] /\ (x # c => listed'[x] = listed[x])
        BY <3>1, <3>3 DEF ConsentInv, StoreInv, StoreTyped
      <3>5. d.owner = c => d.redirects \subseteq listed'[c] BY <3>1, <3>3 DEF ConsentInv, StoreInv, StoreTyped
      <3>6. hosted' \in [DocumentClient -> Metadata] /\ hosted'[c] = d /\ \A x \in DocumentClient : x # c => hosted'[x] = hosted[x]
        BY <3>1 DEF ConsentInv, StoreInv, StoreTyped
      <3>7. StoreListed'
        <4>1. \A x \in DocumentClient : /\ hosted'[x].owner = x => hosted'[x].redirects \subseteq listed'[x]
                                        /\ cached'[x] # Nobody => cached'[x].doc.redirects \subseteq listed'[x]
          BY <3>2, <3>4, <3>5, <3>6 DEF ConsentInv, StoreInv, StoreListed, AnyClient
        <4>2. \A x \in ConfiguredClient : ConfiguredUris \subseteq listed'[x] BY <3>4 DEF ConsentInv, StoreInv, StoreListed, AnyClient
        <4>3. \A x \in DynamicClient : listed'[x] = listed[x] /\ clientRows'[x] = clientRows[x] BY <3>3, <3>4, <1>1 DEF AnyClient
        <4> QED BY <4>1, <4>2, <4>3 DEF ConsentInv, StoreInv, StoreListed
      <3>8. StoreInv' BY <1>1, <3>2, <3>4, <3>6, <3>7 DEF ConsentInv, StoreInv, StoreTyped, ModesKept
      <3>9. PendingListed' /\ LeavesForListed' BY <1>1, <2>1, <3>4, ListsGrow
      <3> QED BY <1>2, <2>2, <2>3, <3>8, <3>9 DEF ConsentInv
    <2> QED BY <1>4, <2>4, <2>5
  <1> QED BY <1>3, <1>4

LEMMA BrowserHolds ==
  ASSUME ConsentInv, NEW b \in Browser, LogIn(b) \/ LogOut(b)
  PROVE  ConsentInv'
  <1>1. gone' = Nobody /\ UNCHANGED <<cached, clientRows, fetches, hosted, configured, listed, pending, issuedCodes, visits>>
    BY DEF LogIn, LogOut, aroundVars, resolverVars
  <1>2. VisitsTyped' /\ StoreInv' /\ CodesDecided'
    BY <1>1 DEF ConsentInv, VisitsTyped, StoreInv, StoreTyped, StoreListed, ModesKept, CodesDecided
  <1>3. PendingListed' /\ LeavesForListed' BY <1>1, ListsGrow
  <1>4. CASE LogIn(b)
    <2> DEFINE new == [session |-> sessions + 1]
    <2>1. sessions < SessionMax /\ sessions' = sessions + 1 /\ browsers' = [browsers EXCEPT ![b].session = new] BY <1>4 DEF LogIn
    <2>2. sessions \in Nat /\ sessions' \in 1..SessionMax /\ sessions' \in 0..SessionMax /\ sessions' = sessions + 1
      BY <2>1, ConsentBounds DEF ConsentInv, RowsTyped
    <2>3. new \in SessionKey BY <2>1, <2>2 DEF SessionKey
    <2>4. new \notin Made
      <3>1. new \notin [cookie : {i \in ClientIds : pending[i] # Nobody}]
        <4> SUFFICES ASSUME NEW x \in [cookie : {i \in ClientIds : pending[i] # Nobody}] PROVE x # new OBVIOUS
        <4>1. x = [cookie |-> x.cookie] OBVIOUS
        <4> QED BY <4>1, KeysApart
      <3>2. new \notin [session : 1..sessions]
        <4> SUFFICES ASSUME NEW x \in [session : 1..sessions] PROVE x # new OBVIOUS
        <4>1. x.session \in 1..sessions /\ new.session = sessions + 1 OBVIOUS
        <4>2. x.session # sessions + 1 BY <4>1, <2>2
        <4> QED BY <4>1, <4>2
      <3> QED BY <3>1, <3>2 DEF Made
    <2>5. Made \subseteq Made' /\ new \in Made'
      <3>1. 1..sessions \subseteq 1..sessions' /\ sessions + 1 \in 1..sessions' BY <2>2
      <3> QED BY <3>1, <1>1 DEF Made
    <2> HIDE DEF new
    <2>6. browsers' \in [Browser -> [session : SessionKey, cookie : CookieKey]]
          /\ (\A a \in Browser : browsers'[a].session = browsers[a].session \/ (a = b /\ browsers'[a].session = new))
          /\ \A a \in Browser : browsers'[a].cookie = browsers[a].cookie
      BY <2>1, <2>3 DEF ConsentInv, RowsTyped
    <2>7. ASSUME NEW a \in Browser, NEW x, x # Nobody, Holds(a, x)' PROVE Holds(a, x) \/ (a = b /\ x = new)
      <3>1. CASE x \in {browsers'[a].session, browsers'[a].cookie}
        <4>1. x = browsers[a].session \/ x = browsers[a].cookie \/ (a = b /\ x = new) BY <2>6, <3>1
        <4> QED BY <4>1 DEF Holds
      <3>2. CASE x \notin {browsers'[a].session, browsers'[a].cookie} BY <2>7, <3>2, <1>1 DEF Holds
      <3> QED BY <3>1, <3>2
    <2>8. KeysHeld' BY <2>4, <2>5, <2>7, KeyIsMade DEF ConsentInv
    <2>9. RowsTyped' BY <1>1, <2>2, <2>6 DEF ConsentInv, RowsTyped
    <2> QED BY <1>2, <1>3, <2>8, <2>9 DEF ConsentInv
  <1>5. CASE LogOut(b)
    <2>1. browsers' = [browsers EXCEPT ![b].session = Nobody] /\ sessions' = sessions BY <1>5 DEF LogOut, aroundVars
    <2>2. browsers' \in [Browser -> [session : SessionKey, cookie : CookieKey]]
          /\ \A a \in Browser : browsers'[a].session \in {browsers[a].session, Nobody} /\ browsers'[a].cookie = browsers[a].cookie
      BY <2>1 DEF ConsentInv, RowsTyped, SessionKey
    <2>3. \A a \in Browser : \A x : x # Nobody /\ Holds(a, x)' => Holds(a, x) BY <1>1, <2>2 DEF Holds
    <2>4. Made' = Made BY <1>1, <2>1 DEF Made
    <2>5. KeysHeld' BY <2>3, <2>4, KeysTravel DEF ConsentInv
    <2>6. RowsTyped' BY <1>1, <2>1, <2>2 DEF ConsentInv, RowsTyped
    <2> QED BY <1>2, <1>3, <2>5, <2>6 DEF ConsentInv
  <1> QED BY <1>4, <1>5

\* A restart: what was configured is written over what is stored.
LEMMA RestartHolds ==
  ASSUME ConsentInv, Restart
  PROVE  ConsentInv'
  <1>1. gone' = Nobody /\ UNCHANGED <<cached, hosted, sessions, listed, pending, issuedCodes, browsers>>
        /\ configured' \subseteq ConfiguredClient /\ fetches' = FetchBudget /\ visits' = [v \in Visit |-> IdleVisit]
    BY DEF Restart
  <1>2. clientRows' = [c \in AnyClient |-> IF c \in configured' THEN ClientRecord("preregistered", ConfiguredUris) ELSE clientRows[c]]
    BY DEF Restart, Preregistered
  <1> DEFINE row == ClientRecord("preregistered", ConfiguredUris)
  <1>3. row \in ClientRecords /\ row.mode = "preregistered" BY MetadataAssumption DEF ClientRecord, ClientRecords
  <1> HIDE DEF row
  <1>4. clientRows' \in [AnyClient -> {Nobody} \cup ClientRecords]
        /\ \A c \in AnyClient : clientRows'[c] = clientRows[c] \/ (c \in ConfiguredClient /\ clientRows'[c] = row)
    BY <1>1, <1>2, <1>3 DEF ConsentInv, StoreInv, StoreTyped, row
  <1>5. \A c \in DynamicClient : clientRows'[c] = clientRows[c] BY <1>4, ClientAssumption DEF AnyClient
  <1>6. ModesKept'
    <2> SUFFICES ASSUME NEW d \in AnyClient, clientRows'[d] # Nobody
                 PROVE  clientRows'[d].mode = CASE d \in DocumentClient -> "cimd" [] d \in DynamicClient -> "dcr" [] OTHER -> "preregistered"
      BY DEF ModesKept
    <2>1. CASE clientRows'[d] = clientRows[d] BY <2>1 DEF ConsentInv, StoreInv, ModesKept
    <2>2. CASE d \in ConfiguredClient /\ clientRows'[d] = row BY <2>2, <1>3, ClientAssumption
    <2> QED BY <2>1, <2>2, <1>4
  <1>7. StoreInv' BY <1>1, <1>4, <1>5, <1>6, ConsentBounds DEF ConsentInv, StoreInv, StoreTyped, StoreListed
  <1>8. VisitsTyped' BY <1>1 DEF VisitsTyped, IdleVisit
  <1>9. RowsTyped' /\ CodesDecided' BY <1>1 DEF ConsentInv, RowsTyped, CodesDecided
  <1>10. \A a \in Browser : \A x : Holds(a, x)' => Holds(a, x) BY <1>1 DEF Holds, IdleVisit
  <1>11. KeysHeld' BY <1>1, <1>10, KeysTravel DEF ConsentInv, Made
  <1>12. PendingListed' /\ LeavesForListed' BY <1>1, ListsGrow
  <1> QED BY <1>7, <1>8, <1>9, <1>11, <1>12 DEF ConsentInv

LEMMA ConsentHolds == ConsentSpec => []ConsentInv
  <1>1. ConsentInv /\ [ConsentNext]_consentVars => ConsentInv'
    <2> SUFFICES ASSUME ConsentInv, [ConsentNext]_consentVars PROVE ConsentInv' OBVIOUS
    <2>1. CASE \E v \in Visit : Authorize(v) \/ Submit(v) BY <2>1, VisitBegins
    <2>2. CASE \E v \in Visit : VisitStep(v) BY <2>2, ResolutionSteps, ResolutionHolds, DecisionHolds DEF VisitStep
    <2>3. CASE Register BY <2>3, RegistrationHolds
    <2>4. CASE PendingEnds \/ CacheEnds \/ HostChanges BY <2>4, AroundHolds
    <2>5. CASE Restart BY <2>5, RestartHolds
    <2>6. CASE \E b \in Browser : LogIn(b) \/ LogOut(b) BY <2>6, BrowserHolds
    <2>7. CASE UNCHANGED consentVars
      BY <2>7 DEF consentVars, ConsentInv, VisitsTyped, RowsTyped, StoreInv, StoreTyped, StoreListed, ModesKept, KeysHeld, Holds, Made,
         PendingListed, CodesDecided, LeavesForListed
    <2> QED BY <2>1, <2>2, <2>3, <2>4, <2>5, <2>6, <2>7 DEF ConsentNext
  <1> QED BY ConsentBegins, <1>1, PTL DEF ConsentSpec

\* ConsentSafe (src/oauth/authorize.ts, consent.ts, clients): a code or an
\* error leaves for a URI the client itself listed, a request is decided once, by
\* the browser that made it and on what it named, a fetch connects to public
\* addresses only, and a client never becomes another kind of client.
THEOREM ConsentIsSafe == ConsentSpec => []ConsentSafe
  <1>1. ConsentInv => ConsentSafe
    <2> SUFFICES ASSUME ConsentInv PROVE ConsentSafe OBVIOUS
    <2>1. \A i \in ClientIds : pending[i] # Nobody => pending[i].state \in {"live", "expired", "decided"}
      BY DEF ConsentInv, RowsTyped, PendingRows
    <2>2. \A v \in Visit : visits[v].at \in {"idle", "resolve", "limit", "lookup", "connect", "body"}
      BY DEF ConsentInv, VisitsTyped, IdleVisit, Resolving, Deciding
    <2>3. ConsentTypeOK BY <2>1, <2>2 DEF ConsentInv, StoreInv, StoreTyped, RowsTyped, ConsentTypeOK
    <2>4. DecidedOnce BY DEF ConsentInv, CodesDecided, DecidedOnce
    <2>5. HopsPublic
      <3> SUFFICES ASSUME NEW v \in Visit, visits[v].at = "connect" PROVE visits[v].address = "public" /\ visits[v].hops <= 2
        BY DEF HopsPublic
      <3>1. visits[v] \in Resolving BY DEF ConsentInv, VisitsTyped, IdleVisit, Deciding
      <3>2. visits[v].hops \in 0..2 BY <3>1 DEF Resolving
      <3> QED BY <3>2 DEF ConsentInv, VisitsTyped
    <2> QED BY <2>3, <2>4, <2>5 DEF ConsentInv, StoreInv, ConsentSafe
  <1> QED BY ConsentHolds, <1>1, PTL
-----------------------------------------------------------------------------
(* The items of the vault.                                                 *)

\* The agents that may not be shown a secret.
Low == {a \in Agent : "reveal" \notin ScopesOf[a]}

\* A field that is shown holds no secret - nor the rotated one, unless x - and
\* one that is not holds no value such an agent chose.
FieldWell(f, x) ==
  /\ DOMAIN f = {"name", "kind", "value"} /\ f.kind \in FieldKinds
  /\ f.kind \in VisibleKinds => f.value \notin Secrets /\ (x \/ f.value # Rotated)
  /\ f.kind \notin VisibleKinds => f.value \notin Low
FieldsWell(fs, x) ==
  fs \in Seq({fs[i] : i \in DOMAIN fs}) /\ \A i \in 1..Len(fs) : FieldWell(fs[i], x)
ItemWell(item, x) ==
  /\ DOMAIN item = {"fields", "password", "label", "trashed", "listed", "rev"}
  /\ FieldsWell(item.fields, x) /\ item.password \notin Low /\ item.rev \in Nat

\* An update that got past the gate, from agent a.
SetWell(set) ==
  /\ DOMAIN set = {"name", "kind", "value"} /\ set.kind \in FieldKinds \cup {"any"}
  /\ set.value \notin Secrets \cup {Rotated} /\ (set.value \in Low => set.kind \in VisibleKinds)
PatchWell(a, p) ==
  /\ DOMAIN p = {"password", "renamed", "set", "rename", "remove"}
  /\ p.password \in {"none", "explicit", "generate", "both"} /\ p.renamed \in BOOLEAN
  /\ p.password \in {"explicit", "both"} => a \notin Low
  /\ p.set # Missing => SetWell(p.set)

\* A list of well-formed fields, element by element.
LEMMA ListIs ==
  ASSUME NEW n \in Nat, NEW fs, fs = [i \in 1..n |-> fs[i]], NEW x, \A i \in 1..n : FieldWell(fs[i], x)
  PROVE  FieldsWell(fs, x) /\ Len(fs) = n /\ DOMAIN fs = 1..n
  <1> DEFINE S == {fs[i] : i \in DOMAIN fs}
  <1>1. DOMAIN fs = 1..n OBVIOUS
  <1>2. fs \in [1..n -> S] BY <1>1
  <1>3. fs \in Seq(S) /\ Len(fs) = n BY <1>2
  <1> QED BY <1>1, <1>3 DEF FieldsWell

LEMMA ListDomain ==
  ASSUME NEW fs, NEW x, FieldsWell(fs, x)
  PROVE  Len(fs) \in Nat /\ DOMAIN fs = 1..Len(fs) /\ fs = [i \in 1..Len(fs) |-> fs[i]] /\ fs \in Seq({fs[i] : i \in 1..Len(fs)})
  BY DEF FieldsWell

\* The kind of the one field an update names is that field's.
LEMMA KindNamed ==
  ASSUME NEW fs, NEW x, FieldsWell(fs, x), NEW p, p.set # Missing, SetHolds(fs, p), NEW i \in 1..Len(fs), fs[i].name = p.set.name
  PROVE  KindOf(fs, p.set) = fs[i].kind
  <1> DEFINE N == Named(fs, p.set.name)
  <1>1. N \subseteq 1..Len(fs) /\ i \in N /\ Len(fs) \in Nat BY ListDomain DEF Named
  <1>2. IsFiniteSet(N)
    <2>1. IsFiniteSet(1..Len(fs)) BY <1>1, FS_Interval
    <2> QED BY <1>1, <2>1, FS_Subset
  <1>3. Cardinality(N) \in Nat /\ Cardinality(N) # 0 /\ Cardinality(N) <= 1
    <2>1. Cardinality(N) \in Nat BY <1>2, FS_CardinalityType
    <2>2. Cardinality(N) # 0 BY <1>1, <1>2, FS_EmptySet
    <2> QED BY <2>1, <2>2 DEF SetHolds
  <1> HIDE DEF N
  <1>4. \E j : N = {j}
    <2>1. Cardinality(N) = 1 BY <1>3
    <2> QED BY <1>2, <2>1, FS_Singleton
  <1>5. (CHOOSE j \in N : TRUE) = i BY <1>1, <1>4
  <1> QED BY <1>1, <1>5 DEF KindOf, N

\* An edited field keeps its kind, and a value put in it fits that kind.
LEMMA EditWell ==
  ASSUME NEW fs, NEW x, FieldsWell(fs, x), NEW a, NEW p, PatchWell(a, p), SetHolds(fs, p), NEW i \in 1..Len(fs)
  PROVE  /\ FieldWell(EditedField(fs[i], p), x)
         /\ fs[i].name \notin NamedIn(p) => EditedField(fs[i], p) = fs[i]
         /\ fs[i].name \in NamedIn(p) => EditedField(fs[i], p).name \in NamedIn(p)
  <1> DEFINE f == fs[i]
             g == EditedField(f, p)
  <1>1. FieldWell(f, x) BY DEF FieldsWell
  <1>2. CASE p.rename # Missing /\ f.name = p.rename.from
    <2>1. g = [f EXCEPT !.name = p.rename.to] BY <1>2 DEF EditedField
    <2>2. DOMAIN g = DOMAIN f /\ g.kind = f.kind /\ g.value = f.value /\ g.name = p.rename.to
      BY <2>1, <1>1 DEF FieldWell
    <2>3. f.name \in NamedIn(p) /\ p.rename.to \in NamedIn(p) BY <1>2 DEF NamedIn
    <2> HIDE DEF g, f
    <2>4. FieldWell(g, x) BY <1>1, <2>2 DEF FieldWell
    <2> QED BY <2>2, <2>3, <2>4 DEF f, g
  <1>3. CASE ~(p.rename # Missing /\ f.name = p.rename.from) /\ p.set # Missing /\ f.name = p.set.name
    <2>1. g = [f EXCEPT !.value = p.set.value] BY <1>3 DEF EditedField
    <2>2. DOMAIN g = DOMAIN f /\ g.kind = f.kind /\ g.value = p.set.value /\ g.name = f.name
      BY <2>1, <1>1 DEF FieldWell
    <2>3. f.name \in NamedIn(p) BY <1>3 DEF NamedIn
    <2>4. SetWell(p.set) BY <1>3 DEF PatchWell
    <2>5. f.kind = KindOf(fs, p.set) BY <1>3, KindNamed
    <2>6. p.set.kind \in {"any", f.kind} BY <2>5, <1>3 DEF SetHolds
    <2> HIDE DEF g, f
    <2>7. FieldWell(g, x)
      <3>1. "any" \notin VisibleKinds BY DEF VisibleKinds
      <3>2. p.set.value \in Low => f.kind \in VisibleKinds BY <2>4, <2>6, <3>1 DEF SetWell
      <3> QED BY <1>1, <2>2, <2>4, <3>2 DEF FieldWell, SetWell
    <2> QED BY <2>2, <2>3, <2>7 DEF f, g
  <1>4. CASE ~(p.rename # Missing /\ f.name = p.rename.from) /\ ~(p.set # Missing /\ f.name = p.set.name)
    <2>1. g = f BY <1>4 DEF EditedField
    <2> QED BY <2>1, <1>1
  <1> QED BY <1>2, <1>3, <1>4

\* A field that is added.
LEMMA NewFieldWell ==
  ASSUME NEW fs, NEW x, NEW a, NEW p, PatchWell(a, p), SetHolds(fs, p), p.set # Missing, Named(fs, p.set.name) = {}
  PROVE  LET f == [name |-> p.set.name, kind |-> KindOf(fs, p.set), value |-> p.set.value]
         IN  FieldWell(f, x) /\ f.name \in NamedIn(p)
  <1> DEFINE f == [name |-> p.set.name, kind |-> KindOf(fs, p.set), value |-> p.set.value]
  <1>1. SetWell(p.set) BY DEF PatchWell
  <1>2. KindOf(fs, p.set) = IF p.set.kind = "any" THEN "hidden" ELSE p.set.kind BY DEF KindOf
  <1>3. KindOf(fs, p.set) \in FieldKinds BY <1>1, <1>2 DEF SetWell, FieldKinds
  <1>4. p.set.value \in Low => KindOf(fs, p.set) \in VisibleKinds BY <1>1, <1>2 DEF SetWell, VisibleKinds
  <1>5. FieldWell(f, x) BY <1>1, <1>3, <1>4 DEF FieldWell, SetWell
  <1>6. f.name \in NamedIn(p) BY DEF NamedIn
  <1> QED BY <1>5, <1>6

\* Every field of the edited list is an edited field of the list that was read, or the added one.
IsEdited(e, fs, x, p) ==
  LET K == Left(fs, p) IN
  /\ FieldsWell(e, x) /\ Cardinality(K) \in Nat /\ Cardinality(K) <= Len(e) /\ K \in SUBSET (1..Len(fs))
  /\ \A m \in 1..Len(e) :
       \/ m > Cardinality(K) /\ e[m].name \in NamedIn(p)
       \/ \E i \in K : Rank(K, i) = m /\ e[m] = EditedField(fs[i], p)
  /\ \A i \in K : Rank(K, i) \in 1..Cardinality(K) /\ e[Rank(K, i)] = EditedField(fs[i], p)
LEMMA EditsAre ==
  ASSUME NEW fs, NEW x, FieldsWell(fs, x), NEW a, NEW p, PatchWell(a, p), PlanHolds(fs, p),
         NEW e, e = WithFieldEdits(fs, p)
  PROVE  IsEdited(e, fs, x, p)
  <1> DEFINE K == Left(fs, p)
             kept == Kept(fs, K)
             n == Cardinality(K)
             edited == [i \in DOMAIN kept |-> EditedField(kept[i], p)]
             adds == p.set # Missing /\ Named(fs, p.set.name) = {}
             f == [name |-> p.set.name, kind |-> KindOf(fs, p.set), value |-> p.set.value]
             tail == IF adds THEN <<f>> ELSE <<>>
  <1>1. Len(fs) \in Nat /\ K \in SUBSET (1..Len(fs)) BY ListDomain DEF Left
  <1> HIDE DEF K
  <1>2. /\ DOMAIN kept = 1..n /\ n \in Nat
        /\ \A i \in 1..n : \E j \in K : Rank(K, j) = i /\ kept[i] = fs[j]
        /\ \A j \in K : Rank(K, j) \in 1..n /\ kept[Rank(K, j)] = fs[j]
    <2> DEFINE N == Len(fs)
    <2>1. N \in Nat /\ K \in SUBSET (1..N) BY <1>1
    <2> HIDE DEF N
    <2>2. KeepsOf(kept, fs, K) BY <2>1, KeptIs
    <2> HIDE DEF kept
    <2> QED BY <2>2 DEF KeepsOf
  <1>3. SetHolds(fs, p) BY DEF PlanHolds
  <1>4. e = edited \o tail BY DEF WithFieldEdits, K, kept
  <1>5. adds => FieldWell(f, x) /\ f.name \in NamedIn(p) BY <1>3, NewFieldWell
  <1> HIDE DEF kept, n, f, adds
  <1>6. ASSUME NEW i \in 1..n
        PROVE  FieldWell(edited[i], x) /\ \E j \in K : Rank(K, j) = i /\ edited[i] = EditedField(fs[j], p)
    <2>1. PICK j \in K : Rank(K, j) = i /\ kept[i] = fs[j] BY <1>2
    <2>2. edited[i] = EditedField(fs[j], p) BY <2>1, <1>2
    <2>3. FieldWell(EditedField(fs[j], p), x) BY <1>1, <1>3, EditWell
    <2> QED BY <2>1, <2>2, <2>3
  <1>7. \A j \in K : Rank(K, j) \in 1..n /\ edited[Rank(K, j)] = EditedField(fs[j], p) BY <1>2
  <1>8. edited = [i \in 1..n |-> edited[i]] BY <1>2
  <1> DEFINE S == {edited[i] : i \in 1..n} \cup {f}
  <1> HIDE DEF edited
  <1>9. edited \in [1..n -> S] BY <1>8
  <1>10. edited \in Seq(S) /\ Len(edited) = n BY <1>2, <1>9
  <1>11. CASE adds
    <2>1. tail = <<f>> /\ <<f>> \in Seq(S) /\ Len(tail) = 1 /\ tail[1] = f BY <1>11
    <2> HIDE DEF tail, S
    <2>2. /\ e \in Seq(S) /\ Len(e) = n + 1
          /\ \A i \in 1..n : e[i] = edited[i]
          /\ e[n + 1] = f
      BY <1>4, <1>10, <2>1, <1>2
    <2>3. e = [i \in 1..(n + 1) |-> e[i]] BY <2>2, <1>2
    <2>4. \A i \in 1..(n + 1) : FieldWell(e[i], x) BY <1>2, <1>5, <1>6, <1>11, <2>2
    <2>5. FieldsWell(e, x) BY <2>3, <2>4, <1>2, ListIs
    <2>6. \A m \in 1..Len(e) :
                  \/ m > n /\ e[m].name \in NamedIn(p)
                  \/ \E i \in K : Rank(K, i) = m /\ e[m] = EditedField(fs[i], p)
      <3> SUFFICES ASSUME NEW m \in 1..Len(e), m <= n
                   PROVE  \E i \in K : Rank(K, i) = m /\ e[m] = EditedField(fs[i], p)
        BY <1>2, <1>5, <1>11, <2>2
      <3>1. m \in 1..n BY <1>2
      <3> QED BY <3>1, <1>6, <2>2
    <2>7. n <= Len(e) BY <2>2, <1>2
    <2>8. \A i \in K : Rank(K, i) \in 1..n /\ e[Rank(K, i)] = EditedField(fs[i], p) BY <1>7, <2>2
    <2> QED BY <1>1, <1>2, <2>5, <2>6, <2>7, <2>8 DEF n, K, IsEdited
  <1>12. CASE ~adds
    <2>1. tail = <<>> BY <1>12
    <2>2. e = edited BY <1>4, <1>10, <2>1
    <2>3. FieldsWell(e, x) BY <2>2, <1>2, <1>6, <1>8, ListIs
    <2>4. Len(e) = n /\ n <= Len(e) BY <1>10, <2>2, <1>2
    <2> HIDE DEF n, K
    <2>5. \A m \in 1..Len(e) : \E i \in K : Rank(K, i) = m /\ e[m] = EditedField(fs[i], p) BY <1>6, <2>2, <2>4
    <2>6. \A i \in K : Rank(K, i) \in 1..n /\ e[Rank(K, i)] = EditedField(fs[i], p) BY <1>7, <2>2
    <2> QED BY <1>1, <1>2, <2>3, <2>4, <2>5, <2>6 DEF n, K, IsEdited
  <1> QED BY <1>11, <1>12

\* What the edits do not name stays, in its order.
LEMMA EditsKeep ==
  ASSUME NEW fs, NEW x, FieldsWell(fs, x), NEW a, NEW p, PatchWell(a, p), PlanHolds(fs, p),
         NEW e, IsEdited(e, fs, x, p)
  PROVE  Kept(fs, Unnamed(fs, p)) = Kept(e, Unnamed(e, p))
  <1> DEFINE S == Unnamed(fs, p)
             T == Unnamed(e, p)
             K == Left(fs, p)
             f == [i \in S |-> Rank(K, i)]
  <1>1. /\ FieldsWell(e, x) /\ K \in SUBSET (1..Len(fs))
        /\ \A m \in 1..Len(e) :
             \/ m > Cardinality(K) /\ e[m].name \in NamedIn(p)
             \/ \E i \in K : Rank(K, i) = m /\ e[m] = EditedField(fs[i], p)
        /\ \A i \in K : Rank(K, i) \in 1..Cardinality(K) /\ e[Rank(K, i)] = EditedField(fs[i], p)
        /\ Cardinality(K) \in Nat /\ Cardinality(K) <= Len(e)
    BY DEF IsEdited
  <1>2. Len(fs) \in Nat /\ DOMAIN fs = 1..Len(fs) /\ Len(e) \in Nat /\ DOMAIN e = 1..Len(e) BY <1>1, ListDomain
  <1>3. S \in SUBSET (1..Len(fs)) /\ T \in SUBSET (1..Len(e)) BY <1>2 DEF Unnamed
  <1>4. S \subseteq K BY <1>2 DEF Unnamed, Left, NamedIn
  <1>5. SetHolds(fs, p) BY DEF PlanHolds
  <1>6. \A i \in 1..Len(fs) :
          /\ fs[i].name \notin NamedIn(p) => EditedField(fs[i], p) = fs[i]
          /\ fs[i].name \in NamedIn(p) => EditedField(fs[i], p).name \in NamedIn(p)
    BY <1>5, EditWell
  <1>7. \A i \in S : i \in 1..Len(fs) /\ fs[i].name \notin NamedIn(p) BY <1>2 DEF Unnamed
  <1>8. \A m \in 1..Len(e) : m \in T <=> e[m].name \notin NamedIn(p) BY <1>2 DEF Unnamed
  <1>9. \A i \in 1..Len(fs) : i \in S <=> fs[i].name \notin NamedIn(p) BY <1>2 DEF Unnamed
  <1>10. \A i, j \in K : i < j => Rank(K, i) < Rank(K, j) BY <1>1, <1>2, RanksRise
  <1> HIDE DEF S, T, K
  <1>11. \A i \in S : f[i] = Rank(K, i) /\ f[i] \in T /\ e[f[i]] = fs[i]
    <2> TAKE i \in S
    <2>0. i \in K BY <1>4
    <2>1. f[i] = Rank(K, i) OBVIOUS
    <2> HIDE DEF f
    <2>2. e[f[i]] = fs[i]
      <3>0. \A j \in K : e[Rank(K, j)] = EditedField(fs[j], p) BY <1>1
      <3>1. e[Rank(K, i)] = EditedField(fs[i], p) BY <2>0, <3>0
      <3>2. i \in 1..Len(fs) /\ fs[i].name \notin NamedIn(p) BY <1>7
      <3>3. EditedField(fs[i], p) = fs[i] BY <3>2, <1>6
      <3> QED BY <2>1, <3>1, <3>3
    <2>3. f[i] \in 1..Len(e)
      <3>0. \A j \in K : Rank(K, j) \in 1..Cardinality(K) BY <1>1
      <3>1. f[i] \in 1..Cardinality(K) BY <2>0, <2>1, <3>0
      <3> QED BY <3>1, <1>1, <1>2
    <2>4. f[i] \in T BY <2>2, <2>3, <1>7, <1>8
    <2> QED BY <2>1, <2>2, <2>4
  <1>12. f \in [S -> T] BY <1>11
  <1>13. \A i, j \in S : i < j => f[i] < f[j] BY <1>4, <1>10, <1>11
  <1>14. ASSUME NEW m \in T PROVE \E i \in S : f[i] = m
    <2>1. m \in 1..Len(e) /\ e[m].name \notin NamedIn(p) BY <1>3, <1>8
    <2>2. PICK i \in K : Rank(K, i) = m /\ e[m] = EditedField(fs[i], p) BY <2>1, <1>1
    <2>3. i \in 1..Len(fs) BY <1>1
    <2>4. i \in S BY <2>1, <2>2, <2>3, <1>6, <1>9
    <2> QED BY <2>2, <2>4, <1>11
  <1> HIDE DEF f
  <1>15. Carries(f, S, T) BY <1>12, <1>13, <1>14 DEF Carries
  <1>16. \A i \in S : fs[i] = e[f[i]] BY <1>11
  <1>17. Kept(fs, S) = Kept(e, T)
    <2>1. CarriesList(f, fs, S, e, T) BY <1>15, <1>16 DEF CarriesList
    <2>2. Indices(S) /\ Indices(T) BY <1>2, <1>3 DEF Indices
    <2> QED BY <2>1, <2>2, KeptSame
  <1> QED BY <1>17 DEF S, T

\* The body of an update is well-formed, and keeps what the update does not name.
LEMMA BodyPatched ==
  ASSUME NEW raw, NEW x, ItemWell(raw, x), NEW a, NEW p, PatchWell(a, p), PlanHolds(raw.fields, p), NEW pw, pw \notin Low,
         p.password = "none" => pw = Missing, NEW r
  PROVE  /\ ItemWell(PatchedBody(raw, p, pw), x)
         /\ ~Surplus(raw, [PatchedBody(raw, p, pw) EXCEPT !.rev = r], p)
  <1> DEFINE e == WithFieldEdits(raw.fields, p)
             b == PatchedBody(raw, p, pw)
             o == [b EXCEPT !.rev = r]
  <1>1. DOMAIN raw = {"fields", "password", "label", "trashed", "listed", "rev"} /\ FieldsWell(raw.fields, x)
    BY DEF ItemWell
  <1>2. /\ DOMAIN b = DOMAIN raw /\ b.fields = e /\ b.password = LoginKept(raw, pw) /\ b.rev = raw.rev
        /\ b.label = IF p.renamed THEN "patched" ELSE raw.label
        /\ b.trashed = raw.trashed /\ b.listed = raw.listed
    BY <1>1 DEF PatchedBody
  <1> HIDE DEF b
  <1>3. /\ o.fields = e /\ o.password = LoginKept(raw, pw) /\ o.label = IF p.renamed THEN "patched" ELSE raw.label
        /\ o.trashed = raw.trashed /\ o.listed = raw.listed
    BY <1>1, <1>2
  <1> HIDE DEF e, o
  <1>10. IsEdited(e, raw.fields, x, p) BY <1>1, EditsAre DEF e
  <1>4. FieldsWell(e, x) BY <1>10 DEF IsEdited
  <1>5. Kept(raw.fields, Unnamed(raw.fields, p)) = Kept(e, Unnamed(e, p)) BY <1>1, <1>10, EditsKeep
  <1>6. ItemWell(b, x) BY <1>1, <1>2, <1>4 DEF ItemWell, LoginKept
  <1>7. ~Surplus(raw, o, p) BY <1>3, <1>5 DEF Surplus, LoginKept
  <1> QED BY <1>6, <1>7 DEF b, o

\* The engine's write-back, likewise: where its field does not show its value,
\* neither does what it writes.
LEMMA BodyRotated ==
  ASSUME NEW raw, NEW x \in BOOLEAN, ItemWell(raw, x), x \/ ~Exposes(1, raw), NEW r
  PROVE  /\ ItemWell(PatchedFields(raw, "token", Rotated), x)
         /\ ~Surplus(raw, [PatchedFields(raw, "token", Rotated) EXCEPT !.rev = r], [NoPatch EXCEPT !.set = RotatedSet])
  <1> DEFINE p == [NoPatch EXCEPT !.set = RotatedSet]
             fs == raw.fields
             n == Len(fs)
             b == PatchedFields(raw, "token", Rotated)
             e == b.fields
             o == [b EXCEPT !.rev = r]
             g == [name |-> "token", kind |-> "hidden", value |-> Rotated]
             S == Unnamed(fs, p)
             T == Unnamed(e, p)
             f == [i \in S |-> i]
  <1>1. DOMAIN raw = {"fields", "password", "label", "trashed", "listed", "rev"} /\ FieldsWell(fs, x)
    BY DEF ItemWell
  <1>2. n \in Nat /\ DOMAIN fs = 1..n /\ fs = [i \in 1..n |-> fs[i]] /\ fs \in Seq({fs[i] : i \in 1..n}) BY <1>1, ListDomain
  <1>3. NamedIn(p) = {"token"} /\ ~p.renamed /\ p.password = "none"
    <2>1. p.set = RotatedSet /\ p.rename = Missing /\ p.remove = Missing /\ ~p.renamed /\ p.password = "none"
      BY DEF NoPatch
    <2>2. p.set # Missing BY <2>1, ItemsAssumption
    <2>3. p.set.name = "token" BY <2>1 DEF RotatedSet
    <2> HIDE DEF p
    <2> QED BY <2>1, <2>2, <2>3 DEF NamedIn
  <1> HIDE DEF p
  <1>4. \A i \in 1..n : FieldWell(fs[i], x) BY <1>1 DEF FieldsWell
  <1>5. \A i \in 1..n : fs[i].name = "token" => x \/ fs[i].kind \notin VisibleKinds BY <1>2 DEF Exposes
  <1>6. Rotated \notin Secrets \cup Low BY ItemsAssumption DEF Rotated, Secrets, Low
  <1>7. /\ DOMAIN b = DOMAIN raw /\ b.rev = raw.rev /\ b.password = raw.password /\ b.label = raw.label
        /\ b.trashed = raw.trashed /\ b.listed = raw.listed
    BY <1>1 DEF PatchedFields
  <1>8. e = IF Named(fs, "token") = {} THEN Append(fs, g)
            ELSE [i \in DOMAIN fs |-> IF fs[i].name = "token" THEN [fs[i] EXCEPT !.value = Rotated] ELSE fs[i]]
    BY <1>1 DEF PatchedFields
  <1>9. /\ \E l \in Nat : n <= l /\ e = [i \in 1..l |-> e[i]] /\ \A i \in 1..l : i <= n \/ e[i].name = "token"
        /\ \A i \in DOMAIN e : FieldWell(e[i], x)
        /\ \A i \in 1..n : e[i].name = fs[i].name /\ (fs[i].name # "token" => e[i] = fs[i])
    <2>1. CASE Named(fs, "token") = {}
      <3> DEFINE V == {fs[i] : i \in 1..n} \cup {g}
      <3>1. fs \in Seq(V) /\ g \in V BY <1>2
      <3> HIDE DEF g, V, fs, n, e
      <3>2. e = Append(fs, g) BY <2>1, <1>8
      <3>3. /\ DOMAIN e = 1..(n + 1) /\ e = [i \in 1..(n + 1) |-> e[i]]
            /\ \A i \in 1..n : e[i] = fs[i]
            /\ e[n + 1] = g
        <4>1. Len(fs) = n /\ n \in Nat BY <1>2 DEF n
        <4> DEFINE a == Append(fs, g)
        <4>0. a \in Seq(V) /\ Len(a) = Len(fs) + 1 /\ DOMAIN a = 1..(Len(fs) + 1) BY <3>1
        <4>2. a \in Seq(V) /\ Len(a) = n + 1 BY <4>0, <4>1
        <4>3. DOMAIN a = 1..(n + 1) /\ a = [i \in 1..(n + 1) |-> a[i]]
          <5> HIDE DEF a
          <5> QED BY <4>0, <4>1
        <4>4. \A i \in 1..n : a[i] = fs[i] BY <3>1, <4>1
        <4>5. a[n + 1] = g BY <3>1, <4>1
        <4> HIDE DEF a
        <4> QED BY <3>2, <4>3, <4>4, <4>5 DEF a
      <3>4. FieldWell(g, x) /\ g.name = "token" BY <1>6 DEF FieldWell, g, FieldKinds, VisibleKinds
      <3>5. \A i \in 1..(n + 1) : i \in 1..n \/ i = n + 1 BY <1>2
      <3>6. \A i \in 1..(n + 1) : FieldWell(e[i], x) BY <3>3, <3>4, <3>5, <1>4
      <3>7. n + 1 \in Nat /\ n <= n + 1 BY <1>2
      <3>8. \A i \in 1..(n + 1) : i <= n \/ e[i].name = "token" BY <3>3, <3>4, <3>5
      <3> QED BY <3>3, <3>6, <3>7, <3>8
    <2>2. CASE Named(fs, "token") # {}
      <3> HIDE DEF e, n, fs
      <3>1. e = [i \in 1..n |-> IF fs[i].name = "token" THEN [fs[i] EXCEPT !.value = Rotated] ELSE fs[i]]
        BY <2>2, <1>8, <1>2
      <3>2. DOMAIN e = 1..n /\ e = [i \in 1..n |-> e[i]] BY <3>1
      <3>3. ASSUME NEW i \in 1..n
            PROVE  FieldWell(e[i], x) /\ e[i].name = fs[i].name /\ (fs[i].name # "token" => e[i] = fs[i])
        <4>1. CASE fs[i].name # "token"
          <5>1. e[i] = fs[i] BY <4>1, <3>1
          <5> QED BY <5>1, <1>4, <4>1
        <4>2. CASE fs[i].name = "token"
          <5> DEFINE u == fs[i]
                     w == e[i]
          <5>1. w = [u EXCEPT !.value = Rotated] BY <4>2, <3>1
          <5>2. FieldWell(u, x) BY <1>4
          <5>3. DOMAIN w = DOMAIN u /\ w.kind = u.kind /\ w.name = u.name /\ w.value = Rotated BY <5>1, <5>2 DEF FieldWell
          <5>4. x \/ u.kind \notin VisibleKinds BY <1>5, <4>2
          <5> HIDE DEF u, w
          <5>5. FieldWell(w, x) BY <5>2, <5>3, <5>4, <1>6 DEF FieldWell
          <5> QED BY <5>3, <5>5, <4>2 DEF u, w
        <4> QED BY <4>1, <4>2
      <3>4. n <= n /\ \A i \in 1..n : i <= n BY <1>2
      <3> QED BY <1>2, <3>2, <3>3, <3>4
    <2> QED BY <2>1, <2>2
  <1>10. PICK l \in Nat : n <= l /\ e = [i \in 1..l |-> e[i]] /\ \A i \in 1..l : i <= n \/ e[i].name = "token"
    BY <1>9
  <1>11. FieldsWell(e, x) /\ DOMAIN e = 1..l
    <2> HIDE DEF e
    <2>1. DOMAIN e = 1..l BY <1>10
    <2> QED BY <1>9, <1>10, <2>1, ListIs
  <1>12. ItemWell(b, x) BY <1>1, <1>7, <1>11 DEF ItemWell
  <1>13. /\ o.fields = e /\ o.password = raw.password /\ o.label = raw.label
         /\ o.trashed = raw.trashed /\ o.listed = raw.listed
    <2> HIDE DEF b
    <2> QED BY <1>1, <1>7
  <1> HIDE DEF b, e, o, fs, n
  <1>14. S = {i \in 1..n : fs[i].name # "token"} /\ T = {i \in 1..l : e[i].name # "token"}
    BY <1>2, <1>3, <1>11 DEF Unnamed
  <1> HIDE DEF S, T
  <1>15. \A i \in S : i \in T /\ fs[i] = e[i]
    <2> TAKE i \in S
    <2>1. i \in 1..n /\ fs[i].name # "token" BY <1>14
    <2>2. e[i].name = fs[i].name /\ e[i] = fs[i] BY <2>1, <1>9
    <2>3. i \in 1..l BY <2>1, <1>2, <1>10
    <2> QED BY <2>1, <2>2, <2>3, <1>14
  <1>16. \A i \in T : i \in S
    <2> TAKE i \in T
    <2>1. i \in 1..l /\ e[i].name # "token" BY <1>14
    <2>2. i \in 1..n BY <2>1, <1>2, <1>10
    <2>3. e[i].name = fs[i].name BY <2>2, <1>9
    <2> QED BY <2>1, <2>2, <2>3, <1>14
  <1>17. Carries(f, S, T) BY <1>15, <1>16 DEF Carries
  <1>18. \A i \in S : fs[i] = e[f[i]] BY <1>15
  <1> HIDE DEF f
  <1>19. Kept(fs, S) = Kept(e, T)
    <2>1. CarriesList(f, fs, S, e, T) BY <1>17, <1>18 DEF CarriesList
    <2>2. S \in SUBSET (1..n) /\ T \in SUBSET (1..l) BY <1>14
    <2>3. Indices(S) /\ Indices(T) BY <1>2, <2>2 DEF Indices
    <2> QED BY <2>1, <2>3, KeptSame
  <1>20. ~Surplus(raw, o, p) BY <1>3, <1>13, <1>19 DEF Surplus, S, T, fs
  <1> QED BY <1>12, <1>20 DEF b, o, p

\* What a call in flight holds, and what an update that is about to be written
\* read: with the revision of what is held, what is held.
CallWell(k) ==
  /\ k.at \in {"idle", "get_item", "get_secret", "generate_password", "password", "post", "read", "put", "trash_item", "poll", "reveal"}
  /\ k.at # "idle" => k.id \in ItemIds
  /\ k.at \notin {"idle", "reveal"} => k.by \in Agent \cup {Engine}
  /\ k.at \in {"get_item", "get_secret", "generate_password"} => k.by \in Agent
  /\ k.at = "get_secret" => k.by \notin Low
  /\ k.at \in {"password", "post", "read", "put"} =>
       /\ DOMAIN k = {"at", "by", "tool", "id", "patch", "password", "raw"} /\ k.password \notin Low
       /\ k.by # Engine => PatchWell(k.by, k.patch)
       /\ k.by = Engine => k.at \in {"read", "put"} /\ k.id = 1
  /\ k.at = "put" => (k.patch.password = "none" => k.password = Missing)
  /\ k.at = "read" => (k.patch.password = "none" => k.password = Missing)
  /\ k.at = "reveal" => k.summary.listed /\ ~k.summary.trashed
PutWell(k, its, rev, x) ==
  k.at = "put" =>
    /\ ItemWell(k.raw, x) /\ k.raw.rev <= rev /\ PlanHolds(k.raw.fields, k.patch)
    /\ k.id = 1 => x \/ ~Exposes(1, k.raw)
    /\ its[k.id] \notin {Missing, Purged} /\ its[k.id].rev = k.raw.rev => its[k.id] = k.raw
CallsWell(ic, its, rev, x) == DOMAIN ic = ItemCall /\ \A c \in ItemCall : CallWell(ic[c]) /\ PutWell(ic[c], its, rev, x)
ItemsWell(its, rev, x) ==
  /\ x \in BOOLEAN /\ rev \in 0..RevMax /\ DOMAIN its = ItemIds
  /\ \A i \in ItemIds : its[i] \notin {Missing, Purged} =>
       ItemWell(its[i], x) /\ its[i].rev <= rev /\ (x \/ ~Exposes(i, its[i]))
ShownWell(sh, x) ==
  sh # Missing =>
    /\ sh.to \in Agent
    /\ sh.to \in Low => \A v \in sh.values : v \notin Secrets /\ (x \/ v # Rotated)
VaultInv == ItemsWell(items, revision, loose) /\ CallsWell(icalls, items, revision, loose) /\ ShownWell(shown, loose)

\* A field that was once shown may be taken for one that is.
LEMMA WellLoose ==
  ASSUME NEW item, NEW x \in BOOLEAN, NEW y \in BOOLEAN, ItemWell(item, x), x => y
  PROVE  ItemWell(item, y)
  <1>1. \A i \in 1..Len(item.fields) : FieldWell(item.fields[i], y) BY DEF ItemWell, FieldsWell, FieldWell
  <1> QED BY <1>1 DEF ItemWell, FieldsWell

\* A revision of its own makes a well-formed item of a well-formed body.
LEMMA WellRevised ==
  ASSUME NEW item, NEW x \in BOOLEAN, ItemWell(item, x), NEW r \in Nat
  PROVE  /\ ItemWell([item EXCEPT !.rev = r], x) /\ [item EXCEPT !.rev = r].rev = r
         /\ \A i : Exposes(i, [item EXCEPT !.rev = r]) <=> Exposes(i, item)
  <1> DEFINE o == [item EXCEPT !.rev = r]
  <1>1. DOMAIN item = {"fields", "password", "label", "trashed", "listed", "rev"} BY DEF ItemWell
  <1>2. DOMAIN o = DOMAIN item /\ o.rev = r /\ o.fields = item.fields /\ o.password = item.password BY <1>1
  <1> HIDE DEF o
  <1> QED BY <1>2 DEF ItemWell, Exposes, o

\* A write gives the item a revision no read has seen.
LEMMA StoreKeeps ==
  ASSUME VaultInv, NEW i \in ItemIds, NEW item, ItemWell(item, loose), revision < RevMax, Store(i, item)
  PROVE  ItemsWell(items', revision', loose') /\ CallsWell(icalls, items', revision', loose') /\ (loose => loose')
  <1> DEFINE r == revision + 1
             o == [item EXCEPT !.rev = r]
             y == loose \/ Exposes(i, item)
             its == [items EXCEPT ![i] = o]
  <1>1. items' = its /\ revision' = r /\ loose' = y BY DEF Store
  <1>2. loose \in BOOLEAN /\ revision \in 0..RevMax /\ DOMAIN items = ItemIds BY DEF VaultInv, ItemsWell
  <1>3. r \in Nat /\ r \in 0..RevMax /\ revision \in Nat BY <1>2, ItemsAssumption
  <1>4. y \in BOOLEAN /\ (loose => y) BY <1>2 DEF Exposes
  <1> DEFINE oo == [item EXCEPT !.rev = r]
  <1>5. ItemWell(o, loose) /\ o.rev = r /\ (Exposes(i, o) <=> Exposes(i, item)) BY <1>2, <1>3, WellRevised
  <1>6. y \/ ~Exposes(i, o) BY <1>5
  <1>7. DOMAIN its = ItemIds /\ its[i] = o /\ \A j \in ItemIds : j # i => its[j] = items[j] BY <1>2
  <1> HIDE DEF o, y, its, r
  <1>8. ItemWell(o, y) BY <1>2, <1>4, <1>5, WellLoose
  <1>9. r > revision BY <1>2 DEF r
  <1>10. \A j \in ItemIds : its[j] \notin {Missing, Purged} => ItemWell(its[j], y) /\ its[j].rev <= r /\ (y \/ ~Exposes(j, its[j]))
    <2> TAKE j \in ItemIds
    <2> HAVE its[j] \notin {Missing, Purged}
    <2>1. CASE j = i BY <2>1, <1>3, <1>5, <1>6, <1>7, <1>8
    <2>2. CASE j # i
      <3>1. its[j] = items[j] BY <2>2, <1>7
      <3>2. ItemWell(items[j], loose) /\ items[j].rev <= revision /\ (loose \/ ~Exposes(j, items[j]))
        BY <3>1 DEF VaultInv, ItemsWell
      <3>3. ItemWell(items[j], y) BY <3>2, <1>2, <1>4, WellLoose
      <3>4. items[j].rev \in Nat BY <3>2 DEF ItemWell
      <3>5. items[j].rev <= r BY <3>2, <3>4, <1>3, <1>9
      <3> QED BY <3>1, <3>2, <3>3, <3>5, <1>4
    <2> QED BY <2>1, <2>2
  <1>11. ItemsWell(its, r, y) BY <1>3, <1>4, <1>7, <1>10 DEF ItemsWell
  <1>12. ASSUME NEW c \in ItemCall PROVE PutWell(icalls[c], its, r, y)
    <2> DEFINE k == icalls[c]
    <2>1. PutWell(k, items, revision, loose) /\ CallWell(k) BY DEF VaultInv, CallsWell
    <2> HIDE DEF k
    <2>2. SUFFICES ASSUME k.at = "put" PROVE PutWell(k, its, r, y) BY DEF PutWell, k
    <2>3. /\ ItemWell(k.raw, loose) /\ k.raw.rev <= revision /\ PlanHolds(k.raw.fields, k.patch)
          /\ k.id = 1 => loose \/ ~Exposes(1, k.raw)
          /\ items[k.id] \notin {Missing, Purged} /\ items[k.id].rev = k.raw.rev => items[k.id] = k.raw
      BY <2>1, <2>2 DEF PutWell
    <2>4. ItemWell(k.raw, y) BY <2>3, <1>2, <1>4, WellLoose
    <2>5. k.raw.rev \in Nat BY <2>3 DEF ItemWell
    <2>6. k.raw.rev <= r /\ k.raw.rev # r BY <2>3, <2>5, <1>3, <1>9
    <2>7. k.id \in ItemIds BY <2>1, <2>2 DEF CallWell
    <2>8. its[k.id] \notin {Missing, Purged} /\ its[k.id].rev = k.raw.rev => its[k.id] = k.raw
      <3>1. CASE k.id = i BY <3>1, <1>5, <1>7, <2>6
      <3>2. CASE k.id # i BY <3>2, <1>7, <2>3, <2>7
      <3> QED BY <3>1, <3>2
    <2> QED BY <2>3, <2>4, <2>6, <2>8, <1>4 DEF PutWell
  <1>13. CallsWell(icalls, its, r, y) BY <1>12 DEF VaultInv, CallsWell
  <1> QED BY <1>1, <1>4, <1>11, <1>13

\* One call's record changes.
LEMMA CallSet ==
  ASSUME NEW ic, NEW its, NEW rev, NEW x, CallsWell(ic, its, rev, x), NEW c, NEW k, CallWell(k), PutWell(k, its, rev, x)
  PROVE  CallsWell([ic EXCEPT ![c] = k], its, rev, x)
  BY DEF CallsWell

\* An idle record is well-formed.
LEMMA CallIdle ==
  ASSUME NEW its, NEW rev, NEW x
  PROVE  CallWell(IdleItem) /\ PutWell(IdleItem, its, rev, x)
  BY DEF CallWell, PutWell, IdleItem

\* The call that wrote is over or waits for the revision it made.
LEMMA Waits ==
  ASSUME VaultInv, NEW c \in ItemCall, icalls[c].at \in {"post", "put", "trash_item"}, NEW i \in ItemIds,
         NEW its, NEW rev, NEW x, CallsWell(icalls, its, rev, x), Await(c, i) \/ ItemOver(c)
  PROVE  CallsWell(icalls', its, rev, x)
  <1> DEFINE k == [at |-> "poll", by |-> icalls[c].by, tool |-> icalls[c].tool, id |-> i, rev |-> revision + 1, spent |-> FALSE]
  <1>1. CASE ItemOver(c) BY <1>1, CallSet, CallIdle DEF ItemOver
  <1>2. CASE Await(c, i)
    <2>0. DOMAIN icalls = ItemCall BY DEF CallsWell
    <2>1. icalls' = [icalls EXCEPT ![c] = k] BY <1>2, <2>0 DEF Await
    <2>2. CallWell(icalls[c]) BY DEF CallsWell
    <2>3. icalls[c].by \in Agent \cup {Engine} BY <2>2 DEF CallWell
    <2>4. k.at = "poll" /\ k.by = icalls[c].by /\ k.id = i OBVIOUS
    <2> HIDE DEF k
    <2>5. CallWell(k) /\ PutWell(k, its, rev, x) BY <2>3, <2>4 DEF CallWell, PutWell
    <2> QED BY <2>1, <2>5, CallSet
  <1> QED BY <1>1, <1>2

\* Nothing is written and nobody is shown anything.
LEMMA Steady ==
  ASSUME VaultInv, UNCHANGED heldVars, NEW c \in ItemCall, NEW k, CallWell(k), PutWell(k, items, revision, loose),
         icalls' = [icalls EXCEPT ![c] = k], ShownWell(shown', loose)
  PROVE  VaultInv'
  <1>1. CallsWell([icalls EXCEPT ![c] = k], items, revision, loose) BY CallSet DEF VaultInv
  <1>2. items' = items /\ revision' = revision /\ loose' = loose BY DEF heldVars
  <1> QED BY <1>1, <1>2 DEF VaultInv

\* A step that shows nothing shows no secret.
LEMMA QuietWell ==
  ASSUME Quiet, NEW x
  PROVE  ShownWell(shown', x)
  BY DEF Quiet, ShownWell

\* What a gate has let through is well-formed.
LEMMA Gated ==
  ASSUME NEW a \in Agent, NEW tool, NEW p \in Asked(tool), RequiredScopes(tool, p) \subseteq ScopesOf[a]
  PROVE  PatchWell(a, OwnValue(a, p)) /\ (tool = "get_secret" => a \notin Low)
  <1> DEFINE q == OwnValue(a, p)
  <1>1. tool = "get_secret" => a \notin Low BY DEF RequiredScopes, ToolScope, Low
  <1>2. CASE tool = "update_item"
    <2>1. p \in Patch BY <1>2 DEF Asked
    <2>2. /\ DOMAIN p = {"password", "renamed", "set", "rename", "remove"}
          /\ p.password \in {"none", "explicit", "generate", "both"} /\ p.renamed \in BOOLEAN
          /\ p.set # Missing =>
               /\ DOMAIN p.set = {"name", "kind", "value"} /\ p.set.kind \in FieldKinds \cup {"any"}
               /\ p.set.value \notin Agent \cup Secrets \cup {Rotated}
      BY <2>1, PatchAssumption
    <2>3. p.password \in {"explicit", "both"} => a \notin Low BY <1>2 DEF RequiredScopes, Low
    <2>4. IsSecretFieldValue(p.set) => a \notin Low BY <1>2 DEF RequiredScopes, Low
    <2>5. a \notin Secrets \cup {Rotated} /\ Missing # "own" BY ItemsAssumption
    <2>6. CASE p.set # Missing /\ p.set.value = "own"
      <3> DEFINE set == [p.set EXCEPT !.value = a]
      <3>1. q = [p EXCEPT !.set = set] BY <2>2, <2>6 DEF OwnValue
      <3>2. DOMAIN set = {"name", "kind", "value"} /\ set.kind = p.set.kind /\ set.value = a BY <2>2, <2>6
      <3> HIDE DEF set, q
      <3>3. DOMAIN q = DOMAIN p /\ q.password = p.password /\ q.renamed = p.renamed /\ q.set = set
        BY <2>2, <3>1
      <3>4. a \in Low => set.kind \in VisibleKinds BY <2>4, <2>5, <2>6, <3>2 DEF IsSecretFieldValue
      <3>5. SetWell(set) BY <2>2, <2>5, <2>6, <3>2, <3>4 DEF SetWell
      <3>6. PatchWell(a, q) BY <2>2, <2>3, <3>3, <3>5 DEF PatchWell
      <3> QED BY <3>6, <1>1 DEF q
    <2>7. CASE ~(p.set # Missing /\ p.set.value = "own")
      <3>1. q = p BY <2>7 DEF OwnValue
      <3>2. p.set # Missing => SetWell(p.set) BY <2>2 DEF SetWell, Low
      <3>3. PatchWell(a, p) BY <2>2, <2>3, <3>2 DEF PatchWell
      <3> QED BY <1>1, <3>1, <3>3
    <2> QED BY <2>6, <2>7
  <1>3. CASE tool = "create_item"
    <2>1. PICK b \in Patch : p = [NoPatch EXCEPT !.password = b.password] BY <1>3 DEF Asked
    <2>2. b.password \in {"none", "explicit", "generate", "both"} BY PatchAssumption
    <2>3. /\ DOMAIN p = {"password", "renamed", "set", "rename", "remove"} /\ p.password = b.password
          /\ p.renamed = FALSE /\ p.set = Missing
      BY <2>1 DEF NoPatch
    <2>4. p.password \in {"explicit", "both"} => a \notin Low BY <1>3 DEF RequiredScopes, Low
    <2>5. q = p BY <2>3 DEF OwnValue
    <2>6. PatchWell(a, p) BY <2>2, <2>3, <2>4 DEF PatchWell
    <2> QED BY <1>1, <2>5, <2>6
  <1>4. CASE tool \notin {"update_item", "create_item"}
    <2>1. p = NoPatch BY <1>4 DEF Asked
    <2>2. q = p BY <2>1 DEF OwnValue, NoPatch
    <2>3. PatchWell(a, p) BY <2>1 DEF NoPatch, PatchWell
    <2> QED BY <1>1, <2>2, <2>3
  <1> QED BY <1>2, <1>3, <1>4

\* The steps, one by one: a tool call past its gate.
LEMMA ToolCallWell ==
  ASSUME VaultInv, NEW c \in ItemCall, ToolCall(c)
  PROVE  VaultInv'
  <1>1. PICK a \in Agent, tool \in {"get_item", "get_secret", "generate_password", "create_item", "update_item", "trash_item"} :
          \E i \in IF tool \in {"create_item", "generate_password"} THEN {1} ELSE {j \in ItemIds : Held(j)}, p \in Asked(tool) :
            /\ RequiredScopes(tool, p) \subseteq ScopesOf[a]
            /\ icalls' = [icalls EXCEPT ![c] = [at |-> IF tool \in {"create_item", "update_item"} THEN "password" ELSE tool, by |-> a, tool |-> tool,
                                                id |-> i, patch |-> OwnValue(a, p), password |-> Missing, raw |-> Missing]]
    BY DEF ToolCall
  <1>2. PICK i \in IF tool \in {"create_item", "generate_password"} THEN {1} ELSE {j \in ItemIds : Held(j)}, p \in Asked(tool) :
            /\ RequiredScopes(tool, p) \subseteq ScopesOf[a]
            /\ icalls' = [icalls EXCEPT ![c] = [at |-> IF tool \in {"create_item", "update_item"} THEN "password" ELSE tool, by |-> a, tool |-> tool,
                                                id |-> i, patch |-> OwnValue(a, p), password |-> Missing, raw |-> Missing]]
    BY <1>1
  <1> DEFINE k == [at |-> IF tool \in {"create_item", "update_item"} THEN "password" ELSE tool, by |-> a, tool |-> tool,
                   id |-> i, patch |-> OwnValue(a, p), password |-> Missing, raw |-> Missing]
  <1>3. icalls' = [icalls EXCEPT ![c] = k] BY <1>2
  <1>4. PatchWell(a, OwnValue(a, p)) /\ (tool = "get_secret" => a \notin Low) BY <1>2, Gated
  <1>5. i \in ItemIds BY ItemsAssumption DEF ItemIds
  <1>6. Missing \notin Low /\ a # Engine BY ItemsAssumption DEF Low
  <1>7. /\ k.at = (IF tool \in {"create_item", "update_item"} THEN "password" ELSE tool) /\ k.by = a /\ k.id = i
        /\ k.patch = OwnValue(a, p) /\ k.password = Missing
        /\ DOMAIN k = {"at", "by", "tool", "id", "patch", "password", "raw"}
    OBVIOUS
  <1> HIDE DEF k
  <1>8. CallWell(k) /\ PutWell(k, items, revision, loose) BY <1>4, <1>5, <1>6, <1>7 DEF CallWell, PutWell
  <1>9. ShownWell(shown', loose) /\ UNCHANGED heldVars BY QuietWell DEF ToolCall
  <1> QED BY <1>3, <1>8, <1>9, Steady

\* The engine starts to write back.
LEMMA RotateStartWell ==
  ASSUME VaultInv, NEW c \in ItemCall, RotateStart(c)
  PROVE  VaultInv'
  <1> DEFINE k == [at |-> "read", by |-> Engine, tool |-> "rotate", id |-> 1, patch |-> NoPatch, password |-> Missing, raw |-> Missing]
  <1>1. icalls' = [icalls EXCEPT ![c] = k] BY DEF RotateStart
  <1>2. Missing \notin Low /\ 1 \in ItemIds BY ItemsAssumption DEF Low, ItemIds
  <1>3. CallWell(k) /\ PutWell(k, items, revision, loose) BY <1>2 DEF CallWell, PutWell
  <1>4. ShownWell(shown', loose) /\ UNCHANGED heldVars BY QuietWell DEF RotateStart
  <1> HIDE DEF k
  <1> QED BY <1>1, <1>3, <1>4, Steady

\* The relay finds an item in its scope.
LEMMA RelayLookUpWell ==
  ASSUME VaultInv, NEW c \in ItemCall, RelayLookUp(c)
  PROVE  VaultInv'
  <1>1. PICK i \in ItemIds : /\ Held(i) /\ IsInScope(items[i])
                             /\ icalls' = [icalls EXCEPT ![c] = [at |-> "reveal", id |-> i, summary |-> items[i]]]
    BY DEF RelayLookUp
  <1> DEFINE k == [at |-> "reveal", id |-> i, summary |-> items[i]]
  <1>2. icalls' = [icalls EXCEPT ![c] = k] BY <1>1
  <1>3. k.at = "reveal" /\ k.id = i /\ k.summary.listed /\ ~k.summary.trashed BY <1>1 DEF IsInScope
  <1> HIDE DEF k
  <1>4. CallWell(k) /\ PutWell(k, items, revision, loose) BY <1>3 DEF CallWell, PutWell
  <1>5. ShownWell(shown', loose) /\ UNCHANGED heldVars BY QuietWell DEF RelayLookUp
  <1> QED BY <1>2, <1>4, <1>5, Steady

\* What a reader is shown of an item, and what a call that ends tells its agent.
LEMMA VisibleWell ==
  ASSUME VaultInv, NEW i \in ItemIds, Held(i), NEW a \in Agent, Learns(a, ReadVisible(items[i]))
  PROVE  ShownWell(shown', loose)
  <1> DEFINE vs == ReadVisible(items[i])
  <1>1. ItemWell(items[i], loose) BY DEF VaultInv, ItemsWell, Held
  <1>2. FieldsWell(items[i].fields, loose) BY <1>1 DEF ItemWell
  <1>3. DOMAIN items[i].fields = 1..Len(items[i].fields) BY <1>2, ListDomain
  <1>4. \A j \in DOMAIN items[i].fields : FieldWell(items[i].fields[j], loose) BY <1>2, <1>3 DEF FieldsWell
  <1>5. ASSUME NEW v \in vs PROVE v \notin Secrets /\ (loose \/ v # Rotated)
    <2>1. PICK j \in DOMAIN items[i].fields : items[i].fields[j].kind \in VisibleKinds /\ v = items[i].fields[j].value
      BY DEF ReadVisible, Summarise
    <2> QED BY <2>1, <1>4 DEF FieldWell
  <1> HIDE DEF vs
  <1>6. shown' = [to |-> a, values |-> vs \ {Missing}] BY DEF Learns, vs
  <1>7. shown'.to = a /\ \A v \in shown'.values : v \in vs BY <1>6
  <1> QED BY <1>5, <1>7 DEF ShownWell

\* A call that ends.
LEMMA Ends ==
  ASSUME VaultInv, UNCHANGED heldVars, NEW c \in ItemCall, ItemOver(c), ShownWell(shown', loose)
  PROVE  VaultInv'
  <1>1. CallWell(IdleItem) /\ PutWell(IdleItem, items, revision, loose) BY CallIdle
  <1>2. icalls' = [icalls EXCEPT ![c] = IdleItem] BY DEF ItemOver
  <1> QED BY <1>1, <1>2, Steady

\* get_item shows what is visible.
LEMMA GetItemWell ==
  ASSUME VaultInv, NEW c \in ItemCall, GetItem(c)
  PROVE  VaultInv'
  <1> DEFINE k == icalls[c]
  <1>1. k.at = "get_item" /\ CallWell(k) BY DEF GetItem, VaultInv, CallsWell
  <1>2. k.by \in Agent /\ k.id \in ItemIds BY <1>1 DEF CallWell
  <1>3. ItemOver(c) /\ UNCHANGED heldVars BY DEF GetItem
  <1>4. IF Held(k.id) THEN Learns(k.by, ReadVisible(items[k.id])) ELSE Quiet BY DEF GetItem
  <1> HIDE DEF k
  <1>5. ShownWell(shown', loose) BY <1>2, <1>4, VisibleWell, QuietWell
  <1> QED BY <1>3, <1>5, Ends

\* get_secret shows one value, to an agent that may be shown it.
LEMMA GetSecretWell ==
  ASSUME VaultInv, NEW c \in ItemCall, GetSecret(c)
  PROVE  VaultInv'
  <1> DEFINE k == icalls[c]
  <1>1. k.at = "get_secret" /\ CallWell(k) BY DEF GetSecret, VaultInv, CallsWell
  <1>2. k.by \in Agent /\ k.by \notin Low BY <1>1 DEF CallWell
  <1>3. ItemOver(c) /\ UNCHANGED heldVars BY DEF GetSecret
  <1>4. Quiet \/ \E v : Learns(k.by, {v}) BY DEF GetSecret
  <1> HIDE DEF k
  <1>5. CASE Quiet BY <1>3, <1>5, QuietWell, Ends
  <1>6. CASE \E v : Learns(k.by, {v})
    <2>1. shown'.to = k.by BY <1>6 DEF Learns
    <2>2. ShownWell(shown', loose) BY <2>1, <1>2 DEF ShownWell
    <2> QED BY <2>2, <1>3, Ends
  <1> QED BY <1>4, <1>5, <1>6

\* A generated password is none of the vault's.
LEMMA GeneratePasswordWell ==
  ASSUME VaultInv, NEW c \in ItemCall, GeneratePassword(c)
  PROVE  VaultInv'
  <1>1. icalls[c].by \in Agent BY DEF GeneratePassword, VaultInv, CallsWell, CallWell
  <1>2. shown' = [to |-> icalls[c].by, values |-> {"generated"} \ {Missing}] BY DEF GeneratePassword, Learns
  <1>3. shown'.to = icalls[c].by /\ \A v \in shown'.values : v = "generated" BY <1>2
  <1>4. "generated" \notin Secrets \cup {Rotated} BY DEF Secrets, Rotated
  <1>5. ShownWell(shown', loose) BY <1>1, <1>3, <1>4 DEF ShownWell
  <1> QED BY <1>5, Ends DEF GeneratePassword

\* No answer, and the relay's reveal.
LEMMA UnansweredWell ==
  ASSUME VaultInv, NEW c \in ItemCall, Unanswered(c) \/ RelayReveal(c)
  PROVE  VaultInv'
  BY QuietWell, Ends DEF Unanswered, RelayReveal

\* The wait ends and the item is shown.
LEMMA PollWell ==
  ASSUME VaultInv, NEW c \in ItemCall, Poll(c)
  PROVE  VaultInv'
  <1> DEFINE k == icalls[c]
  <1>1. k.at = "poll" /\ CallWell(k) BY DEF Poll, VaultInv, CallsWell
  <1>2. k.by \in Agent \cup {Engine} /\ k.id \in ItemIds BY <1>1 DEF CallWell
  <1>3. ItemOver(c) /\ UNCHANGED heldVars BY DEF Poll
  <1>4. PICK seen \in {items[k.id]} \cup IF k.tool = "create_item" THEN {Missing} ELSE {} :
          IF seen \in {Missing, Purged} \/ k.by = Engine \/ k.tool = "trash_item" THEN Quiet ELSE Learns(k.by, ReadVisible(seen))
    BY DEF Poll
  <1> HIDE DEF k
  <1>5. CASE Quiet BY <1>3, <1>5, QuietWell, Ends
  <1>6. CASE ~Quiet
    <2>1. seen \notin {Missing, Purged} /\ k.by # Engine /\ Learns(k.by, ReadVisible(seen)) BY <1>4, <1>6
    <2>2. seen = items[k.id] BY <2>1
    <2>3. Held(k.id) /\ k.by \in Agent BY <1>2, <2>1, <2>2 DEF Held
    <2>4. ShownWell(shown', loose) BY <1>2, <2>1, <2>2, <2>3, VisibleWell
    <2> QED BY <1>3, <2>4, Ends
  <1> QED BY <1>5, <1>6

\* The password an update writes.
LEMMA ResolvePasswordWell ==
  ASSUME VaultInv, NEW c \in ItemCall, ResolvePassword(c)
  PROVE  VaultInv'
  <1> DEFINE k == icalls[c]
             at == IF k.tool = "create_item" THEN "post" ELSE "read"
             pw == CASE k.patch.password = "explicit" -> k.by [] k.patch.password = "generate" -> "stored" [] OTHER -> Missing
             l == [k EXCEPT !.at = at, !.password = pw]
  <1>1. k.at = "password" /\ CallWell(k) BY DEF ResolvePassword, VaultInv, CallsWell
  <1>2. /\ DOMAIN k = {"at", "by", "tool", "id", "patch", "password", "raw"} /\ k.id \in ItemIds /\ k.by \in Agent \cup {Engine}
        /\ k.by # Engine /\ PatchWell(k.by, k.patch)
    BY <1>1 DEF CallWell
  <1>3. UNCHANGED heldVars /\ ShownWell(shown', loose) BY QuietWell DEF ResolvePassword
  <1>4. CASE k.patch.password = "both"
    <2>1. ItemOver(c) BY <1>4 DEF ResolvePassword
    <2> QED BY <2>1, <1>3, Ends
  <1>5. CASE k.patch.password # "both"
    <2>1. c \in DOMAIN icalls BY DEF VaultInv, CallsWell
    <2>2. icalls' = [icalls EXCEPT ![c] = l] BY <1>5, <2>1 DEF ResolvePassword
    <2>3. /\ DOMAIN l = DOMAIN k /\ l.at = at /\ l.password = pw /\ l.by = k.by /\ l.id = k.id /\ l.patch = k.patch
      BY <1>2
    <2>4. at \in {"post", "read"} OBVIOUS
    <2>5. pw \notin Low
      <3>1. Missing \notin Low /\ "stored" \notin Low BY ItemsAssumption DEF Low, Secrets
      <3>2. k.patch.password = "explicit" => k.by \notin Low BY <1>2 DEF PatchWell
      <3> QED BY <3>1, <3>2
    <2>6. k.patch.password = "none" => pw = Missing OBVIOUS
    <2> HIDE DEF l, at, pw, k
    <2>7. CallWell(l) /\ PutWell(l, items, revision, loose) BY <1>2, <2>3, <2>4, <2>5, <2>6 DEF CallWell, PutWell
    <2> QED BY <1>3, <2>2, <2>7, Steady
  <1> QED BY <1>4, <1>5

\* The read an update plans from.
LEMMA ReadItemWell ==
  ASSUME VaultInv, NEW c \in ItemCall, ReadItem(c)
  PROVE  VaultInv'
  <1> DEFINE k == icalls[c]
             raw == items[k.id]
             l == [k EXCEPT !.at = "put", !.raw = raw]
  <1>1. k.at = "read" /\ CallWell(k) BY DEF ReadItem, VaultInv, CallsWell
  <1>2. UNCHANGED heldVars /\ ShownWell(shown', loose) BY QuietWell DEF ReadItem
  <1>3. CASE ~(Held(k.id) /\ PlanHolds(raw.fields, k.patch))
    <2>1. ItemOver(c) BY <1>3 DEF ReadItem
    <2> QED BY <2>1, <1>2, Ends
  <1>4. CASE Held(k.id) /\ PlanHolds(raw.fields, k.patch)
    <2>1. c \in DOMAIN icalls BY DEF VaultInv, CallsWell
    <2>2. icalls' = [icalls EXCEPT ![c] = l] BY <1>4, <2>1 DEF ReadItem
    <2>3. /\ DOMAIN k = {"at", "by", "tool", "id", "patch", "password", "raw"} /\ k.password \notin Low
          /\ k.id \in ItemIds /\ k.by \in Agent \cup {Engine}
          /\ k.by # Engine => PatchWell(k.by, k.patch)
          /\ k.by = Engine => k.id = 1
          /\ k.patch.password = "none" => k.password = Missing
      BY <1>1 DEF CallWell
    <2>4. /\ DOMAIN l = DOMAIN k /\ l.at = "put" /\ l.raw = raw /\ l.password = k.password /\ l.by = k.by /\ l.id = k.id
          /\ l.patch = k.patch
      BY <2>3
    <2>5. ItemWell(raw, loose) /\ raw.rev <= revision /\ (loose \/ ~Exposes(k.id, raw))
      BY <1>4, <2>3 DEF VaultInv, ItemsWell, Held
    <2> HIDE DEF l, k
    <2>6. CallWell(l) BY <2>3, <2>4 DEF CallWell
    <2>7. PutWell(l, items, revision, loose) BY <1>4, <2>3, <2>4, <2>5 DEF PutWell
    <2> QED BY <1>2, <2>2, <2>6, <2>7, Steady
  <1> QED BY <1>3, <1>4

\* The wait's budget is spent.
LEMMA PollDeadlineWell ==
  ASSUME VaultInv, NEW c \in ItemCall, PollDeadline(c)
  PROVE  VaultInv'
  <1> DEFINE k == icalls[c]
             l == [k EXCEPT !.spent = TRUE]
  <1>1. k.at = "poll" /\ CallWell(k) /\ c \in DOMAIN icalls BY DEF PollDeadline, VaultInv, CallsWell
  <1>2. icalls' = [icalls EXCEPT ![c] = l] BY <1>1 DEF PollDeadline
  <1>3. l.at = k.at /\ l.by = k.by /\ l.id = k.id OBVIOUS
  <1>4. UNCHANGED heldVars /\ ShownWell(shown', loose) BY QuietWell DEF PollDeadline
  <1> HIDE DEF l, k
  <1>5. CallWell(l) /\ PutWell(l, items, revision, loose) BY <1>1, <1>3 DEF CallWell, PutWell
  <1> QED BY <1>2, <1>4, <1>5, Steady

\* The writes: what is written is well-formed, and the call that wrote waits.
LEMMA Written ==
  ASSUME VaultInv, NEW c \in ItemCall, icalls[c].at \in {"post", "put", "trash_item"}, NEW i \in ItemIds,
         NEW item, ItemWell(item, loose), revision < RevMax, Store(i, item), Await(c, i) \/ ItemOver(c), Quiet
  PROVE  VaultInv'
  <1>1. ItemsWell(items', revision', loose') /\ CallsWell(icalls, items', revision', loose') BY StoreKeeps
  <1> DEFINE its == items'
             rev == revision'
             x == loose'
  <1>2. CallsWell(icalls, its, rev, x) BY <1>1
  <1> HIDE DEF its, rev, x
  <1>3. CallsWell(icalls', its, rev, x) BY <1>2, Waits
  <1>4. ShownWell(shown', x) BY QuietWell
  <1> QED BY <1>1, <1>3, <1>4 DEF VaultInv, its, rev, x

\* A new item.
LEMMA PostItemWell ==
  ASSUME VaultInv, NEW c \in ItemCall, PostItem(c)
  PROVE  VaultInv'
  <1> DEFINE k == icalls[c]
             b == NewItemBody(k.password)
  <1>1. k.at = "post" /\ CallWell(k) /\ revision < RevMax /\ Quiet BY DEF PostItem, VaultInv, CallsWell
  <1>2. PICK i \in ItemIds : Store(i, b) /\ (Await(c, i) \/ ItemOver(c)) BY DEF PostItem
  <1>3. k.password \notin Low BY <1>1 DEF CallWell
  <1>4. ItemWell(b, loose)
    <2>1. /\ DOMAIN b = {"fields", "password", "label", "trashed", "listed", "rev"}
          /\ b.fields = <<>> /\ b.password = k.password /\ b.rev = 0
      BY DEF NewItemBody
    <2>2. FieldsWell(<<>>, loose) BY DEF FieldsWell
    <2> HIDE DEF b
    <2> QED BY <2>1, <2>2, <1>3 DEF ItemWell
  <1> HIDE DEF b
  <1> QED BY <1>1, <1>2, <1>4, Written

\* What an update or the engine writes, from what it read.
LEMMA BodyWell ==
  ASSUME VaultInv, NEW c \in ItemCall, icalls[c].at = "put", NEW r
  PROVE  /\ ItemWell(Body(icalls[c]), loose) /\ icalls[c].id \in ItemIds
         /\ ~Surplus(icalls[c].raw, [Body(icalls[c]) EXCEPT !.rev = r], GivenTo(icalls[c]))
         /\ Held(icalls[c].id) /\ items[icalls[c].id].rev = icalls[c].raw.rev => items[icalls[c].id] = icalls[c].raw
  <1> DEFINE k == icalls[c]
  <1>1. k.at = "put" /\ CallWell(k) /\ PutWell(k, items, revision, loose) /\ loose \in BOOLEAN
    BY DEF VaultInv, CallsWell, ItemsWell
  <1> HIDE DEF k
  <1>2. /\ k.id \in ItemIds /\ k.password \notin Low /\ (k.patch.password = "none" => k.password = Missing)
        /\ k.by # Engine => PatchWell(k.by, k.patch)
        /\ k.by = Engine => k.id = 1
    BY <1>1 DEF CallWell
  <1>3. /\ ItemWell(k.raw, loose) /\ PlanHolds(k.raw.fields, k.patch)
        /\ k.id = 1 => loose \/ ~Exposes(1, k.raw)
        /\ Held(k.id) /\ items[k.id].rev = k.raw.rev => items[k.id] = k.raw
    BY <1>1 DEF PutWell, Held
  <1>4. CASE k.by = Engine
    <2>1. Body(k) = PatchedFields(k.raw, "token", Rotated) /\ GivenTo(k) = [NoPatch EXCEPT !.set = RotatedSet]
      BY <1>4 DEF Body, GivenTo
    <2>2. /\ ItemWell(PatchedFields(k.raw, "token", Rotated), loose)
          /\ ~Surplus(k.raw, [PatchedFields(k.raw, "token", Rotated) EXCEPT !.rev = r], [NoPatch EXCEPT !.set = RotatedSet])
      BY <1>1, <1>2, <1>3, <1>4, BodyRotated
    <2> QED BY <1>2, <1>3, <2>1, <2>2 DEF k
  <1>5. CASE k.by # Engine
    <2>1. Body(k) = PatchedBody(k.raw, k.patch, k.password) /\ GivenTo(k) = k.patch BY <1>5 DEF Body, GivenTo
    <2>2. /\ ItemWell(PatchedBody(k.raw, k.patch, k.password), loose)
          /\ ~Surplus(k.raw, [PatchedBody(k.raw, k.patch, k.password) EXCEPT !.rev = r], k.patch)
      BY <1>2, <1>3, <1>5, BodyPatched
    <2> QED BY <1>2, <1>3, <2>1, <2>2 DEF k
  <1> QED BY <1>4, <1>5

\* The whole item goes back.
LEMMA PutItemWell ==
  ASSUME VaultInv, NEW c \in ItemCall, PutItem(c)
  PROVE  VaultInv'
  <1> DEFINE k == icalls[c]
             b == Body(k)
  <1>1. k.at = "put" /\ Quiet BY DEF PutItem
  <1>2. ItemWell(b, loose) /\ k.id \in ItemIds BY <1>1, BodyWell
  <1>3. CASE ~Held(k.id)
    <2>1. ItemOver(c) /\ UNCHANGED heldVars BY <1>3 DEF PutItem
    <2> QED BY <1>1, <2>1, QuietWell, Ends
  <1>4. CASE Held(k.id)
    <2>1. revision < RevMax /\ Store(k.id, b) /\ (Await(c, k.id) \/ ItemOver(c)) BY <1>4 DEF PutItem
    <2> HIDE DEF b
    <2> QED BY <1>1, <1>2, <2>1, Written
  <1> QED BY <1>3, <1>4

\* Into the trash.
LEMMA DeleteItemWell ==
  ASSUME VaultInv, NEW c \in ItemCall, DeleteItem(c)
  PROVE  VaultInv'
  <1> DEFINE k == icalls[c]
             b == [items[k.id] EXCEPT !.trashed = TRUE]
  <1>1. k.at = "trash_item" /\ CallWell(k) /\ Quiet BY DEF DeleteItem, VaultInv, CallsWell
  <1>2. k.id \in ItemIds BY <1>1 DEF CallWell
  <1>3. CASE ~Held(k.id)
    <2>1. ItemOver(c) /\ UNCHANGED heldVars BY <1>3 DEF DeleteItem
    <2> QED BY <1>1, <2>1, QuietWell, Ends
  <1>4. CASE Held(k.id)
    <2>1. revision < RevMax /\ Store(k.id, b) /\ (Await(c, k.id) \/ ItemOver(c)) BY <1>4 DEF DeleteItem
    <2>2. ItemWell(items[k.id], loose) BY <1>2, <1>4 DEF VaultInv, ItemsWell, Held
    <2>3. DOMAIN b = DOMAIN items[k.id] /\ b.fields = items[k.id].fields /\ b.password = items[k.id].password /\ b.rev = items[k.id].rev
      BY <2>2 DEF ItemWell
    <2> HIDE DEF b
    <2>4. ItemWell(b, loose) BY <2>2, <2>3 DEF ItemWell
    <2> QED BY <1>1, <1>2, <2>1, <2>4, Written
  <1> QED BY <1>3, <1>4

\* The operator moves, changes and purges items.
LEMMA OperatorEditsWell ==
  ASSUME VaultInv, OperatorEdits
  PROVE  VaultInv'
  <1>0. revision < RevMax /\ icalls' = icalls /\ Quiet BY DEF OperatorEdits
  <1>1. PICK i \in ItemIds :
          /\ Held(i)
          /\ \/ Store(i, [items[i] EXCEPT !.listed = ~@])
             \/ Store(i, [items[i] EXCEPT !.password = "changed"])
             \/ items[i].trashed /\ items' = [items EXCEPT ![i] = Purged] /\ revision' = revision + 1 /\ UNCHANGED loose
    BY DEF OperatorEdits
  <1>2. ItemWell(items[i], loose) BY <1>1 DEF VaultInv, ItemsWell, Held
  <1>3. DOMAIN items[i] = {"fields", "password", "label", "trashed", "listed", "rev"} BY <1>2 DEF ItemWell
  <1>4. ASSUME NEW item, ItemWell(item, loose), Store(i, item) PROVE VaultInv'
    <2>1. ItemsWell(items', revision', loose') /\ CallsWell(icalls, items', revision', loose') BY <1>0, <1>4, StoreKeeps
    <2>2. ShownWell(shown', loose') BY <1>0, QuietWell
    <2> QED BY <1>0, <2>1, <2>2 DEF VaultInv
  <1>5. CASE Store(i, [items[i] EXCEPT !.listed = ~@])
    <2> DEFINE b == [items[i] EXCEPT !.listed = ~@]
    <2>1. DOMAIN b = DOMAIN items[i] /\ b.fields = items[i].fields /\ b.password = items[i].password /\ b.rev = items[i].rev BY <1>3
    <2>2. Store(i, b) BY <1>5
    <2> HIDE DEF b
    <2>3. ItemWell(b, loose) BY <1>2, <2>1 DEF ItemWell
    <2> QED BY <1>4, <2>2, <2>3
  <1>6. CASE Store(i, [items[i] EXCEPT !.password = "changed"])
    <2> DEFINE b == [items[i] EXCEPT !.password = "changed"]
    <2>1. DOMAIN b = DOMAIN items[i] /\ b.fields = items[i].fields /\ b.password = "changed" /\ b.rev = items[i].rev BY <1>3
    <2>2. Store(i, b) BY <1>6
    <2>3. "changed" \notin Low BY ItemsAssumption DEF Low, Secrets
    <2> HIDE DEF b
    <2>4. ItemWell(b, loose) BY <1>2, <2>1, <2>3 DEF ItemWell
    <2> QED BY <1>4, <2>2, <2>4
  <1>7. CASE items' = [items EXCEPT ![i] = Purged] /\ revision' = revision + 1 /\ UNCHANGED loose
    <2> DEFINE its == [items EXCEPT ![i] = Purged]
               r == revision + 1
    <2>0. loose \in BOOLEAN /\ revision \in 0..RevMax /\ DOMAIN items = ItemIds BY DEF VaultInv, ItemsWell
    <2>1. r \in 0..RevMax /\ \A n \in Nat : n <= revision => n <= r BY <1>0, <2>0, ItemsAssumption
    <2>2. DOMAIN its = ItemIds /\ its[i] = Purged /\ \A j \in ItemIds : j # i => its[j] = items[j] BY <2>0
    <2> HIDE DEF its, r
    <2>3. \A j \in ItemIds : its[j] \notin {Missing, Purged} => its[j] = items[j] BY <2>2
    <2>4. \A j \in ItemIds : its[j] \notin {Missing, Purged} => ItemWell(its[j], loose) /\ its[j].rev <= r /\ (loose \/ ~Exposes(j, its[j]))
      BY <2>1, <2>3 DEF VaultInv, ItemsWell, ItemWell
    <2>5. ItemsWell(its, r, loose) BY <2>0, <2>1, <2>2, <2>4 DEF ItemsWell
    <2>6. ASSUME NEW c \in ItemCall PROVE CallWell(icalls[c]) /\ PutWell(icalls[c], its, r, loose)
      <3> DEFINE k == icalls[c]
      <3>1. CallWell(k) /\ PutWell(k, items, revision, loose) BY DEF VaultInv, CallsWell
      <3> HIDE DEF k
      <3>2. k.at # "idle" => k.id \in ItemIds BY <3>1 DEF CallWell
      <3>3. k.at = "put" => k.raw.rev \in Nat BY <3>1 DEF PutWell, ItemWell
      <3>4. PutWell(k, its, r, loose) BY <2>1, <2>3, <3>1, <3>2, <3>3 DEF PutWell
      <3> QED BY <3>1, <3>4 DEF k
    <2>7. CallsWell(icalls, its, r, loose) BY <2>6 DEF VaultInv, CallsWell
    <2>8. ShownWell(shown', loose) BY <1>0, QuietWell
    <2>9. items' = its /\ revision' = r /\ loose' = loose BY <1>7 DEF its, r
    <2> QED BY <1>0, <2>5, <2>7, <2>8, <2>9 DEF VaultInv
  <1> QED BY <1>1, <1>5, <1>6, <1>7

\* The vault's invariant holds at first, after every step, and is what ItemsSafe needs.
LEMMA VaultInit ==
  ItemsInit => VaultInv
  <1> SUFFICES ASSUME ItemsInit PROVE VaultInv OBVIOUS
  <1> DEFINE fs == FieldsAtFirst
  <1>1. \A i \in DOMAIN fs :
          /\ DOMAIN fs[i] = {"name", "kind", "value"} /\ fs[i].kind \in FieldKinds
          /\ fs[i].value \notin Low /\ fs[i].value # Rotated
          /\ fs[i].kind \in VisibleKinds => fs[i].value \notin Secrets
    BY FieldsAssumption DEF Low
  <1>2. \A i \in DOMAIN fs : FieldWell(fs[i], FALSE) /\ FieldWell(fs[i], TRUE) BY <1>1 DEF FieldWell
  <1>3. fs \in Seq({fs[i] : i \in DOMAIN fs}) BY FieldsAssumption
  <1>4. DOMAIN fs = 1..Len(fs) BY <1>3
  <1>5. loose \in BOOLEAN /\ loose = Exposes(1, FirstItem) BY DEF ItemsInit, Exposes
  <1>6. FieldsWell(fs, loose) BY <1>2, <1>3, <1>4, <1>5 DEF FieldsWell
  <1>7. /\ DOMAIN FirstItem = {"fields", "password", "label", "trashed", "listed", "rev"}
        /\ FirstItem.fields = fs /\ FirstItem.password = "kept" /\ FirstItem.rev = 0
    BY DEF FirstItem
  <1>8. "kept" \notin Low BY ItemsAssumption DEF Low, Secrets
  <1>9. ItemWell(FirstItem, loose) BY <1>6, <1>7, <1>8 DEF ItemWell
  <1>10. /\ items = [i \in ItemIds |-> IF i = 1 THEN FirstItem ELSE Missing] /\ revision = 0
         /\ icalls = [c \in ItemCall |-> IdleItem] /\ shown = Missing
    BY DEF ItemsInit
  <1>11. \A i \in ItemIds : items[i] \notin {Missing, Purged} => i = 1 /\ items[i] = FirstItem BY <1>10
  <1>12. revision \in 0..RevMax /\ FirstItem.rev <= revision BY <1>7, <1>10, ItemsAssumption
  <1>13. ItemsWell(items, revision, loose) BY <1>5, <1>9, <1>10, <1>11, <1>12 DEF ItemsWell
  <1>14. CallsWell(icalls, items, revision, loose) BY <1>10, CallIdle DEF CallsWell
  <1>15. ShownWell(shown, loose) BY <1>10 DEF ShownWell
  <1> QED BY <1>13, <1>14, <1>15 DEF VaultInv

\* Every step keeps it.
LEMMA VaultNext ==
  VaultInv /\ [ItemsNext]_itemVars => VaultInv'
  <1> SUFFICES ASSUME VaultInv, [ItemsNext]_itemVars PROVE VaultInv' OBVIOUS
  <1>1. CASE UNCHANGED itemVars BY <1>1 DEF itemVars, heldVars, VaultInv
  <1>2. CASE OperatorEdits BY <1>2, OperatorEditsWell
  <1>3. ASSUME NEW c \in ItemCall, ToolCall(c) \/ RotateStart(c) \/ RelayLookUp(c) \/ ItemStep(c) \/ Unanswered(c)
        PROVE  VaultInv'
    BY <1>3, ToolCallWell, RotateStartWell, RelayLookUpWell, GetItemWell, GetSecretWell, GeneratePasswordWell,
       ResolvePasswordWell, PostItemWell, ReadItemWell, PutItemWell, DeleteItemWell, PollDeadlineWell, PollWell, UnansweredWell
       DEF ItemStep
  <1> QED BY <1>1, <1>2, <1>3 DEF ItemsNext

\* It says what the runs check.
LEMMA VaultSafe ==
  VaultInv => ItemsSafe
  <1> SUFFICES ASSUME VaultInv PROVE ItemsSafe OBVIOUS
  <1>1. ItemsTypeOK
    <2>1. revision \in 0..RevMax /\ (shown # Missing => shown.to \in Agent) BY DEF VaultInv, ItemsWell, ShownWell
    <2>2. \A c \in ItemCall : CallWell(icalls[c]) BY DEF VaultInv, CallsWell
    <2> QED BY <2>1, <2>2 DEF ItemsTypeOK, CallWell
  <1>2. KnowsNoSecret
    <2> SUFFICES ASSUME shown # Missing, "reveal" \notin ScopesOf[shown.to] PROVE shown.values \cap Withheld = {}
      BY DEF KnowsNoSecret
    <2>1. shown.to \in Low BY DEF VaultInv, ShownWell, Low
    <2>2. \A v \in shown.values : v \notin Secrets /\ (loose \/ v # Rotated) BY <2>1 DEF VaultInv, ShownWell
    <2> QED BY <2>2 DEF Withheld
  <1>3. WritesNoSecret
    <2> SUFFICES ASSUME NEW a \in Agent, "reveal" \notin ScopesOf[a], NEW i \in ItemIds, Held(i)
                 PROVE  /\ items[i].password # a
                        /\ \A j \in DOMAIN items[i].fields : items[i].fields[j].value = a => items[i].fields[j].kind \in VisibleKinds
      BY DEF WritesNoSecret
    <2>1. ItemWell(items[i], loose) /\ a \in Low BY DEF VaultInv, ItemsWell, Held, Low
    <2>2. FieldsWell(items[i].fields, loose) /\ items[i].password \notin Low BY <2>1 DEF ItemWell
    <2>3. DOMAIN items[i].fields = 1..Len(items[i].fields) BY <2>2, ListDomain
    <2>4. \A j \in DOMAIN items[i].fields : FieldWell(items[i].fields[j], loose) BY <2>2, <2>3 DEF FieldsWell
    <2> QED BY <2>1, <2>2, <2>4 DEF FieldWell
  <1>4. DisclosesScope
    <2>1. \A c \in ItemCall : CallWell(icalls[c]) BY DEF VaultInv, CallsWell
    <2> QED BY <2>1 DEF DisclosesScope, CallWell
  <1> QED BY <1>1, <1>2, <1>3, <1>4 DEF ItemsSafe

\* ItemsSafe (src/mcp, src/vault/field-edits.ts, src/bitwarden/writes.ts, src/relay):
\* by whatever sequence of reads, edits, renames and write-backs, an agent without
\* vault:reveal is shown no secret and writes none, and the relay discloses only
\* what was live in its folder when it looked.
THEOREM NoSecretLeaks ==
  ItemsSpec => []ItemsSafe
  <1>1. ItemsSpec => []VaultInv BY VaultInit, VaultNext, PTL DEF ItemsSpec
  <1> QED BY <1>1, VaultSafe, PTL

\* Only its own write takes a call out of "put", and only that write changes
\* the item then.
LEMMA WriteRaced ==
  ASSUME VaultInv, [ItemsNext]_itemVars, NEW c \in ItemCall, icalls[c].at = "put", icalls'[c].at # "put",
         Held(icalls[c].id), items'[icalls[c].id] # items[icalls[c].id],
         Surplus(items[icalls[c].id], items'[icalls[c].id], GivenTo(icalls[c]))
  PROVE  items[icalls[c].id].rev # icalls[c].raw.rev
  <1> DEFINE k == icalls[c]
             i == k.id
             b == Body(k)
             o == [b EXCEPT !.rev = revision + 1]
  <1>0. DOMAIN icalls = ItemCall /\ DOMAIN items = ItemIds BY DEF VaultInv, CallsWell, ItemsWell
  <1>1. PutItem(c)
    <2>1. icalls' # icalls /\ items' # items OBVIOUS
    <2>2. PICK d \in ItemCall : ToolCall(d) \/ RotateStart(d) \/ RelayLookUp(d) \/ ItemStep(d) \/ Unanswered(d)
      BY <2>1 DEF ItemsNext, itemVars, OperatorEdits
    <2>3. PostItem(d) \/ PutItem(d) \/ DeleteItem(d)
      BY <2>1, <2>2 DEF ItemStep, ToolCall, RotateStart, RelayLookUp, Unanswered, GetItem, GetSecret, GeneratePassword,
         ResolvePassword, ReadItem, PollDeadline, Poll, RelayReveal, heldVars
    <2>4. d # c => icalls'[c] = icalls[c] BY <2>3, <1>0 DEF PostItem, PutItem, DeleteItem, Await, ItemOver
    <2>5. d = c BY <2>4
    <2> QED BY <2>3, <2>5 DEF PostItem, DeleteItem
  <1>2. Store(i, b) BY <1>1 DEF PutItem
  <1>3. i \in ItemIds /\ ~Surplus(k.raw, o, GivenTo(k)) /\ (items[i].rev = k.raw.rev => items[i] = k.raw) BY BodyWell
  <1>4. items'[i] = o BY <1>0, <1>2, <1>3 DEF Store
  <1> HIDE DEF o, b
  <1> QED BY <1>3, <1>4

\* OverwritesOnlyRaced (src/bitwarden/writes.ts, the read and the PUT of a whole
\* item): a write changes what it was not given only if the item was written
\* between its read and itself.
THEOREM OnlyRacesOverwrite ==
  ItemsSpec => OverwritesOnlyRaced
  <1>1. ItemsSpec => []VaultInv BY VaultInit, VaultNext, PTL DEF ItemsSpec
  <1>2. VaultInv /\ [ItemsNext]_itemVars =>
          [\A c \in ItemCall :
             LET k == icalls[c] IN
             k.at = "put" /\ icalls'[c].at # "put" /\ Held(k.id) /\ items'[k.id] # items[k.id] /\ Surplus(items[k.id], items'[k.id], GivenTo(k))
               => items[k.id].rev # k.raw.rev]_itemVars
    BY WriteRaced
  <1> QED BY <1>1, <1>2, PTL DEF ItemsSpec, OverwritesOnlyRaced

-----------------------------------------------------------------------------
(* The limiters.                                                           *)

\* Products of the limit and of the window.
LEMMA Times ==
  /\ \A a, b, c \in Int : (a + b) * c = a * c + b * c /\ (a - b) * c = a * c - b * c /\ a * c \in Int
  /\ \A a, b \in Int, c \in Nat : a <= b => a * c <= b * c
  /\ \A a, b \in Int, c \in Nat \ {0} : a * c < b * c => a < b
  /\ \A c \in Int : 1 * c = c /\ 0 * c = 0
  OBVIOUS

LEMMA Rounded ==
  ASSUME NEW a \in Nat, NEW b \in Nat \ {0}
  PROVE  CeilDiv(a, b) \in Int /\ a <= CeilDiv(a, b) * b /\ (CeilDiv(a, b) - 1) * b < a
  BY DEF CeilDiv

Entries(m) == {m[i] : i \in DOMAIN m}
LEMMA KeptSeq ==
  ASSUME NEW E, NEW m \in Seq(E), NEW S \in SUBSET (DOMAIN m)
  PROVE  /\ Kept(m, S) \in Seq(E)
         /\ \A e \in Entries(Kept(m, S)) : \E i \in S : e = m[i]
         /\ \A i \in S : m[i] \in Entries(Kept(m, S))
  <1> DEFINE k == Kept(m, S)
             n == Len(m)
             c == Cardinality(S)
  <1>1. n \in Nat /\ S \in SUBSET (1..n) /\ DOMAIN m = 1..n OBVIOUS
  <1> HIDE DEF n
  <1>2. KeepsOf(k, m, S) BY <1>1, KeptIs
  <1>3. k = [i \in 1..c |-> k[i]] BY DEF Kept
  <1> HIDE DEF k
  <1>4. DOMAIN k = 1..c /\ c \in Nat BY <1>2 DEF KeepsOf
  <1>5. \A i \in 1..c : \E j \in S : k[i] = m[j] BY <1>2 DEF KeepsOf
  <1>6. \A j \in S : Rank(S, j) \in 1..c /\ k[Rank(S, j)] = m[j] BY <1>2 DEF KeepsOf
  <1>7. \A j \in S : m[j] \in E BY <1>1
  <1> HIDE DEF c
  <1>8. \A i \in 1..c : k[i] \in E BY <1>5, <1>7
  <1>9. k \in [1..c -> E] BY <1>3, <1>8
  <1>10. k \in Seq(E) BY <1>4, <1>9
  <1>11. \A e \in Entries(k) : \E i \in S : e = m[i] BY <1>4, <1>5 DEF Entries
  <1>12. \A i \in S : m[i] \in Entries(k)
    <2> TAKE i \in S
    <2>1. Rank(S, i) \in DOMAIN k /\ k[Rank(S, i)] = m[i] BY <1>4, <1>6
    <2> QED BY <2>1 DEF Entries
  <1> QED BY <1>10, <1>11, <1>12 DEF k

\* What is forgotten is stale; what is dropped for room is no newer than what stays.
LEMMA Forgotten ==
  ASSUME NEW E, NEW m \in Seq(E), NEW stale
  PROVE  /\ ForgetCold(m, stale) \in Seq(E)
         /\ \A e \in Entries(ForgetCold(m, stale)) : e \in Entries(m)
         /\ \A i \in DOMAIN m : i \in stale \/ m[i] \in Entries(ForgetCold(m, stale))
  <1> DEFINE S == {i \in DOMAIN m : i > ColdBatch \/ i \notin stale}
  <1>1. S \in SUBSET (DOMAIN m) OBVIOUS
  <1>2. ForgetCold(m, stale) = Kept(m, S) BY DEF ForgetCold
  <1>3. \A i \in DOMAIN m : i \in stale \/ i \in S OBVIOUS
  <1> HIDE DEF S
  <1>4. /\ Kept(m, S) \in Seq(E)
        /\ \A e \in Entries(Kept(m, S)) : \E i \in S : e = m[i]
        /\ \A i \in S : m[i] \in Entries(Kept(m, S))
    BY <1>1, KeptSeq
  <1>5. \A e \in Entries(Kept(m, S)) : e \in Entries(m) BY <1>1, <1>4 DEF Entries
  <1> QED BY <1>2, <1>3, <1>4, <1>5
LEMMA PutIn ==
  ASSUME NEW E, NEW m \in Seq(E), NEW entry \in E
  PROVE  /\ PutEntry(m, entry) \in Seq(E) /\ Len(PutEntry(m, entry)) <= MaxKeys
         /\ entry \in Entries(PutEntry(m, entry))
         /\ \A e \in Entries(PutEntry(m, entry)) : e = entry \/ (e \in Entries(m) /\ e.key # entry.key)
  <1> DEFINE S == {i \in DOMAIN m : m[i].key # entry.key}
             others == Kept(m, S)
             n == Len(others)
             x == IF n >= MaxKeys THEN n - MaxKeys + 1 ELSE 0
             room == SubSeq(others, x + 1, n)
             o == Append(room, entry)
  <1>1. S \in SUBSET (DOMAIN m) OBVIOUS
  <1>2. \A i \in S : i \in DOMAIN m /\ m[i].key # entry.key OBVIOUS
  <1>3. PutEntry(m, entry) = o BY DEF PutEntry
  <1> HIDE DEF S
  <1>4. /\ others \in Seq(E)
        /\ \A e \in Entries(others) : \E i \in S : e = m[i]
    BY <1>1, KeptSeq
  <1> HIDE DEF others
  <1>5. n \in Nat /\ DOMAIN others = 1..n BY <1>4
  <1>6. x \in Nat /\ x <= n /\ n - x < MaxKeys BY <1>5, LimitsAssumption
  <1> HIDE DEF n, x
  <1>7. room \in Seq(E) /\ Len(room) = n - x /\ \A i \in 1..(n - x) : room[i] = others[x + i] BY <1>4, <1>5, <1>6
  <1> HIDE DEF room
  <1>8. o \in Seq(E) /\ Len(o) = n - x + 1 /\ DOMAIN o = 1..(n - x + 1) BY <1>5, <1>6, <1>7
  <1>9. o[n - x + 1] = entry /\ \A i \in 1..(n - x) : o[i] = others[x + i] BY <1>5, <1>6, <1>7
  <1> HIDE DEF o
  <1>10. n - x + 1 \in DOMAIN o BY <1>5, <1>6, <1>8
  <1>11. entry \in Entries(o) BY <1>9, <1>10 DEF Entries
  <1>12. ASSUME NEW e \in Entries(o) PROVE e = entry \/ (e \in Entries(m) /\ e.key # entry.key)
    <2>1. PICK i \in 1..(n - x + 1) : e = o[i] BY <1>8 DEF Entries
    <2>2. CASE i = n - x + 1
      <3>1. o[i] = entry BY <2>2, <1>9
      <3> QED BY <2>1, <3>1
    <2>3. CASE i # n - x + 1
      <3>1. i \in 1..(n - x) /\ x + i \in 1..n BY <2>3, <1>5, <1>6
      <3>2. e \in Entries(others) BY <2>1, <3>1, <1>5, <1>9 DEF Entries
      <3>3. PICK j \in S : e = m[j] BY <3>2, <1>4
      <3> QED BY <3>3, <1>2 DEF Entries
    <2> QED BY <2>2, <2>3
  <1>13. Len(o) <= MaxKeys BY <1>5, <1>6, <1>8, LimitsAssumption
  <1> QED BY <1>3, <1>8, <1>11, <1>12, <1>13

\* A map with one entry for a key.
Functional(m) == \A e, f \in Entries(m) : e.key = f.key => e = f
LEMMA EntryIs ==
  ASSUME NEW m, NEW key, NEW fresh, Functional(m)
  PROVE  /\ \A e \in Entries(m) : e.key = key => Entry(m, key, fresh) = e
         /\ (\A e \in Entries(m) : e.key # key) => Entry(m, key, fresh) = fresh
  <1>1. ASSUME NEW e \in Entries(m), e.key = key PROVE Entry(m, key, fresh) = e
    <2>1. \E i \in DOMAIN m : m[i].key = key BY <1>1 DEF Entries
    <2> DEFINE i == CHOOSE j \in DOMAIN m : m[j].key = key
    <2>2. i \in DOMAIN m /\ m[i].key = key BY <2>1
    <2>3. Entry(m, key, fresh) = m[i] BY <2>1 DEF Entry
    <2> HIDE DEF i
    <2>4. m[i] \in Entries(m) BY <2>2 DEF Entries
    <2> QED BY <1>1, <2>2, <2>3, <2>4 DEF Functional
  <1>2. ASSUME \A e \in Entries(m) : e.key # key PROVE Entry(m, key, fresh) = fresh
    <2>1. ~\E i \in DOMAIN m : m[i].key = key BY <1>2 DEF Entries
    <2> QED BY <2>1 DEF Entry
  <1> QED BY <1>1, <1>2

\* The level a bucket has been refilled to, and one tick on.
Buckets == [key : LimitKey, level : 0..FullLevel, at : 0..TickMax]
RefillTo(e, at) == Refilled(e, at).level
LEMMA Fullness ==
  FullLevel \in Nat /\ WindowTicks <= FullLevel
  <1>1. 1 * WindowTicks <= BucketLimit * WindowTicks /\ BucketLimit * WindowTicks \in Nat BY Times, LimitsAssumption
  <1> QED BY <1>1, LimitsAssumption DEF FullLevel
LEMMA RefillIs ==
  ASSUME NEW e \in Buckets, NEW at \in 0..TickMax, e.at <= at
  PROVE  /\ Refilled(e, at) \in Buckets /\ Refilled(e, at).key = e.key /\ Refilled(e, at).at = at
         /\ RefillTo(e, at) \in 0..FullLevel
         /\ RefillTo(e, at) = IF e.level + (at - e.at) * BucketLimit > FullLevel THEN FullLevel ELSE e.level + (at - e.at) * BucketLimit
         /\ IsFull(e, at) <=> RefillTo(e, at) = FullLevel
         /\ at = e.at => RefillTo(e, at) = e.level
  <1> DEFINE p == (at - e.at) * BucketLimit
             level == e.level + p
             l == IF level > FullLevel THEN FullLevel ELSE level
             o == [e EXCEPT !.level = l, !.at = at]
  <1>1. Refilled(e, at) = o BY DEF Refilled
  <1>2. e.level \in 0..FullLevel /\ e.at \in 0..TickMax /\ FullLevel \in Nat /\ BucketLimit \in Nat
    BY Fullness, LimitsAssumption DEF Buckets
  <1>3. p \in Nat
    <2>1. at - e.at \in Nat BY <1>2, LimitsAssumption
    <2> QED BY <2>1, <1>2
  <1>4. at = e.at => p = 0 BY <1>2, LimitsAssumption
  <1>7. l = IF e.level + (at - e.at) * BucketLimit > FullLevel THEN FullLevel ELSE e.level + (at - e.at) * BucketLimit OBVIOUS
  <1> HIDE DEF p
  <1>5. l \in 0..FullLevel /\ (at = e.at => l = e.level) BY <1>2, <1>3, <1>4
  <1> HIDE DEF l
  <1>6. o \in Buckets /\ o.key = e.key /\ o.at = at /\ o.level = l BY <1>5 DEF Buckets
  <1> HIDE DEF o
  <1>8. l >= FullLevel <=> l = FullLevel BY <1>2, <1>5
  <1> QED BY <1>1, <1>5, <1>6, <1>7, <1>8 DEF RefillTo, IsFull
LEMMA RefillOn ==
  ASSUME NEW e \in Buckets, NEW at \in 0..TickMax, e.at <= at, at < TickMax
  PROVE  RefillTo(e, at + 1) = IF RefillTo(e, at) + BucketLimit > FullLevel THEN FullLevel ELSE RefillTo(e, at) + BucketLimit
  <1>1. e.at \in Int /\ e.level \in Int /\ TickMax \in Int /\ BucketLimit \in Nat /\ FullLevel \in Int BY Fullness, LimitsAssumption DEF Buckets
  <1> DEFINE p == (at - e.at) * BucketLimit
             q == ((at + 1) - e.at) * BucketLimit
  <1>2. q = p + BucketLimit /\ p \in Int
    <2>1. (at + 1) - e.at = (at - e.at) + 1 /\ at - e.at \in Int BY <1>1
    <2>2. ((at - e.at) + 1) * BucketLimit = p + 1 * BucketLimit /\ p \in Int BY <1>1, <2>1, Times
    <2>3. 1 * BucketLimit = BucketLimit BY <1>1
    <2> QED BY <2>1, <2>2, <2>3
  <1>3. at + 1 \in 0..TickMax /\ e.at <= at + 1 BY <1>1
  <1>4. RefillTo(e, at) = IF e.level + p > FullLevel THEN FullLevel ELSE e.level + p BY RefillIs
  <1>5. RefillTo(e, at + 1) = IF e.level + q > FullLevel THEN FullLevel ELSE e.level + q
    <2> DEFINE t == at + 1
    <2>1. t \in 0..TickMax /\ e.at <= t BY <1>3
    <2>3. q = (t - e.at) * BucketLimit /\ RefillTo(e, at + 1) = RefillTo(e, t) OBVIOUS
    <2> HIDE DEF t, q
    <2>2. RefillTo(e, t) = IF e.level + (t - e.at) * BucketLimit > FullLevel THEN FullLevel ELSE e.level + (t - e.at) * BucketLimit
      BY <2>1, RefillIs
    <2> QED BY <2>2, <2>3
  <1> HIDE DEF p, q
  <1> QED BY <1>1, <1>2, <1>4, <1>5

\* The bucket a call finds, whatever was forgotten before it looked.
BucketsOK(m, t) == m \in Seq(Buckets) /\ Functional(m) /\ \A e \in Entries(m) : e.at <= t
LEMMA EntriesAre ==
  ASSUME NEW E, NEW m \in Seq(E), NEW e \in Entries(m)
  PROVE  e \in E /\ \E i \in DOMAIN m : e = m[i]
  BY DEF Entries
LEMMA NowIs ==
  ASSUME NEW t \in 0..TickMax, NEW m, BucketsOK(m, t), NEW key \in LimitKey
  PROVE  /\ BucketNow(m, key, t) \in Buckets /\ BucketNow(m, key, t).key = key /\ BucketNow(m, key, t).at = t
         /\ \A e \in Entries(m) : e.key = key => BucketNow(m, key, t).level = RefillTo(e, t)
         /\ (\A e \in Entries(m) : e.key # key) => BucketNow(m, key, t).level = FullLevel
  <1> DEFINE c == ForgetCold(m, FullOnes(m, t))
             fresh == [key |-> key, level |-> FullLevel, at |-> t]
             e0 == Entry(c, key, fresh)
  <1>1. m \in Seq(Buckets) /\ Functional(m) /\ \A e \in Entries(m) : e.at <= t BY DEF BucketsOK
  <1>2. /\ c \in Seq(Buckets)
        /\ \A e \in Entries(c) : e \in Entries(m)
        /\ \A i \in DOMAIN m : i \in FullOnes(m, t) \/ m[i] \in Entries(c)
    BY <1>1, Forgotten
  <1>3. BucketNow(m, key, t) = Refilled(e0, t) BY DEF BucketNow
  <1>4. fresh \in Buckets /\ fresh.key = key /\ fresh.at = t /\ fresh.level = FullLevel BY Fullness DEF Buckets
  <1> HIDE DEF c, fresh
  <1>5. Functional(c) BY <1>1, <1>2 DEF Functional
  <1>6. CASE \E e \in Entries(m) : e.key = key
    <2>1. PICK e \in Entries(m) : e.key = key BY <1>6
    <2>2. e \in Buckets /\ e.at <= t BY <1>1, EntriesAre
    <2>3. \A f \in Entries(m) : f.key = key => f = e BY <1>1, <2>1 DEF Functional
    <2>4. e0 \in Buckets /\ e0.at <= t /\ e0.key = key /\ RefillTo(e0, t) = RefillTo(e, t)
      <3>1. CASE e \in Entries(c)
        <4>1. e0 = e BY <3>1, <2>1, <1>5, EntryIs
        <4> QED BY <4>1, <2>1, <2>2
      <3>2. CASE e \notin Entries(c)
        <4>1. PICK i \in DOMAIN m : e = m[i] BY <1>1, EntriesAre
        <4>2. IsFull(e, t) BY <4>1, <3>2, <1>2 DEF FullOnes
        <4>3. RefillTo(e, t) = FullLevel BY <4>2, <2>2, RefillIs
        <4>4. \A f \in Entries(c) : f.key # key BY <3>2, <2>3, <1>2
        <4>5. e0 = fresh BY <4>4, <1>5, EntryIs
        <4>6. RefillTo(fresh, t) = FullLevel BY <1>4, RefillIs
        <4> QED BY <4>3, <4>5, <4>6, <1>4
      <3> QED BY <3>1, <3>2
    <2> HIDE DEF e0
    <2>5. Refilled(e0, t) \in Buckets /\ Refilled(e0, t).key = key /\ Refilled(e0, t).at = t BY <2>4, RefillIs
    <2>6. Refilled(e0, t).level = RefillTo(e, t) BY <2>4 DEF RefillTo
    <2> QED BY <1>3, <1>6, <2>3, <2>5, <2>6
  <1>7. CASE \A e \in Entries(m) : e.key # key
    <2>1. \A f \in Entries(c) : f.key # key BY <1>2, <1>7
    <2>2. e0 = fresh BY <2>1, <1>5, EntryIs
    <2>3. /\ Refilled(fresh, t) \in Buckets /\ Refilled(fresh, t).key = key /\ Refilled(fresh, t).at = t
          /\ RefillTo(fresh, t) = FullLevel
      BY <1>4, RefillIs
    <2> QED BY <1>3, <1>7, <2>2, <2>3 DEF RefillTo
  <1> QED BY <1>6, <1>7

\* A call spends from its key's bucket; another key's stays as it was, or is
\* full again: forgotten since it was full, or dropped for room.
Level(m, key, t) == BucketNow(m, key, t).level
LostIn(m, next, stale) == {m[i].key : i \in DOMAIN m \ stale} \ KeysOf(next)
LEMMA TakenIs ==
  ASSUME NEW t \in 0..TickMax, NEW m, BucketsOK(m, t), NEW key \in LimitKey, NEW next, next = Taken(m, key, t)
  PROVE  /\ BucketsOK(next, t) /\ Len(next) <= MaxKeys
         /\ Level(next, key, t) = IF Level(m, key, t) >= WindowTicks THEN Level(m, key, t) - WindowTicks ELSE Level(m, key, t)
         /\ \A k \in LimitKey \ {key} :
              \/ Level(next, k, t) = Level(m, k, t)
              \/ Level(next, k, t) = FullLevel /\ k \in LostIn(m, next, FullOnes(m, t))
  <1> DEFINE c == ForgetCold(m, FullOnes(m, t))
             b == BucketNow(m, key, t)
             o == IF MayTake(m, key, t) THEN [b EXCEPT !.level = @ - WindowTicks] ELSE b
  <1>1. m \in Seq(Buckets) /\ Functional(m) /\ \A e \in Entries(m) : e.at <= t BY DEF BucketsOK
  <1>2. /\ c \in Seq(Buckets)
        /\ \A e \in Entries(c) : e \in Entries(m)
        /\ \A i \in DOMAIN m : i \in FullOnes(m, t) \/ m[i] \in Entries(c)
    BY <1>1, Forgotten
  <1>3. next = PutEntry(c, o) BY DEF Taken
  <1>4. b \in Buckets /\ b.key = key /\ b.at = t /\ b.level = Level(m, key, t) BY NowIs DEF Level
  <1>5. o \in Buckets /\ o.key = key /\ o.at = t
        /\ o.level = IF Level(m, key, t) >= WindowTicks THEN Level(m, key, t) - WindowTicks ELSE Level(m, key, t)
    <2>1. MayTake(m, key, t) <=> b.level >= WindowTicks BY DEF MayTake
    <2> HIDE DEF b
    <2>2. b.level \in 0..FullLevel BY <1>4 DEF Buckets
    <2>3. CASE MayTake(m, key, t)
      <3>1. o = [b EXCEPT !.level = b.level - WindowTicks] BY <2>3
      <3>2. b.level - WindowTicks \in 0..FullLevel BY <2>1, <2>2, <2>3, Fullness, LimitsAssumption
      <3>3. o \in Buckets /\ o.key = b.key /\ o.at = b.at /\ o.level = b.level - WindowTicks BY <1>4, <3>1, <3>2 DEF Buckets
      <3> QED BY <3>3, <1>4, <2>1, <2>3
    <2>4. CASE ~MayTake(m, key, t) BY <2>1, <2>4, <1>4
    <2> QED BY <2>3, <2>4
  <1> HIDE DEF c, o, b
  <1>6. /\ next \in Seq(Buckets) /\ Len(next) <= MaxKeys
        /\ o \in Entries(next)
        /\ \A e \in Entries(next) : e = o \/ (e \in Entries(c) /\ e.key # key)
    BY <1>2, <1>3, <1>5, PutIn
  <1>7. Functional(next) BY <1>1, <1>2, <1>5, <1>6 DEF Functional
  <1>8. \A e \in Entries(next) : e.at <= t BY <1>1, <1>2, <1>5, <1>6
  <1>9. BucketsOK(next, t) BY <1>6, <1>7, <1>8 DEF BucketsOK
  <1>10. Level(next, key, t) = RefillTo(o, t) BY <1>5, <1>6, <1>9, NowIs DEF Level
  <1>11. RefillTo(o, t) = o.level BY <1>5, RefillIs
  <1>12. ASSUME NEW k \in LimitKey \ {key}
         PROVE  \/ Level(next, k, t) = Level(m, k, t)
                \/ Level(next, k, t) = FullLevel /\ k \in LostIn(m, next, FullOnes(m, t))
    <2>1. CASE \E e \in Entries(next) : e.key = k
      <3>1. PICK e \in Entries(next) : e.key = k BY <2>1
      <3>2. e \in Entries(m) BY <3>1, <1>2, <1>5, <1>6
      <3>3. Level(next, k, t) = RefillTo(e, t) /\ Level(m, k, t) = RefillTo(e, t) BY <3>1, <3>2, <1>9, NowIs DEF Level
      <3> QED BY <3>3
    <2>2. CASE \A e \in Entries(next) : e.key # k
      <3>1. Level(next, k, t) = FullLevel BY <2>2, <1>9, NowIs DEF Level
      <3>2. CASE \A e \in Entries(m) : e.key # k
        <4>1. Level(m, k, t) = FullLevel BY <3>2, NowIs DEF Level
        <4> QED BY <3>1, <4>1
      <3>3. CASE \E e \in Entries(m) : e.key = k
        <4>1. PICK e \in Entries(m) : e.key = k BY <3>3
        <4>2. PICK i \in DOMAIN m : e = m[i] BY <1>1, EntriesAre
        <4>3. e \in Buckets /\ e.at <= t /\ Level(m, k, t) = RefillTo(e, t) BY <4>1, <1>1, EntriesAre, NowIs DEF Level
        <4>4. CASE i \in FullOnes(m, t)
          <5>1. RefillTo(e, t) = FullLevel BY <4>2, <4>3, <4>4, RefillIs DEF FullOnes
          <5> QED BY <5>1, <4>3, <3>1
        <4>5. CASE i \notin FullOnes(m, t)
          <5>1. k \in {m[j].key : j \in DOMAIN m \ FullOnes(m, t)} BY <4>1, <4>2, <4>5
          <5>2. k \notin KeysOf(next) BY <2>2 DEF KeysOf, Entries
          <5> QED BY <5>1, <5>2, <3>1 DEF LostIn
        <4> QED BY <4>4, <4>5
      <3> QED BY <3>2, <3>3
    <2> QED BY <2>1, <2>2
  <1> QED BY <1>5, <1>6, <1>9, <1>10, <1>11, <1>12

\* When a key was let through, within the last window, in order.
Dated(A, t) ==
  /\ A \in Seq(Int) /\ \A i \in 1..Len(A) : A[i] <= t /\ A[i] > t - WindowTicks
  /\ \A i, j \in 1..Len(A) : i <= j => A[i] <= A[j]
LEMMA SinceIs ==
  ASSUME NEW t \in Int, NEW A, Dated(A, t), NEW cutoff \in Int
  PROVE  \E d \in 0..Len(A) :
           /\ Since(A, cutoff) \in Seq(Int) /\ Len(Since(A, cutoff)) = Len(A) - d
           /\ \A i \in 1..(Len(A) - d) : Since(A, cutoff)[i] = A[i + d]
           /\ \A i \in 1..Len(A) : i <= d <=> A[i] <= cutoff
  <1> DEFINE T == {i \in DOMAIN A : A[i] <= cutoff}
             d == Cardinality(T)
             n == Len(A)
             o == SubSeq(A, d + 1, n)
  <1>1. A \in Seq(Int) /\ n \in Nat /\ DOMAIN A = 1..n /\ \A i \in 1..n : A[i] \in Int BY DEF Dated
  <1>2. T \in SUBSET (1..n) /\ \A i \in 1..n : i \in T <=> A[i] <= cutoff BY <1>1
  <1>3. \A i, j \in 1..n : i <= j => A[i] <= A[j] BY DEF Dated
  <1>4. Since(A, cutoff) = o BY DEF Since
  <1> HIDE DEF T, n
  <1>5. IsFiniteSet(T) /\ d \in Nat /\ \A j \in T : Rank(T, j) \in 1..d BY <1>1, <1>2, RanksRise
  <1> HIDE DEF o
  <1>6. d \in 0..n /\ \A i \in 1..n : i <= d <=> i \in T
    <2>1. CASE T = {}
      <3>1. d = 0 BY <2>1, FS_EmptySet
      <3> QED BY <2>1, <3>1, <1>1
    <2>2. CASE T # {}
      <3>1. d # 0 BY <2>2, <1>5, FS_EmptySet
      <3>2. d \in 1..d BY <3>1, <1>5
      <3>3. PICK j \in T : Rank(T, j) = d BY <3>2, <1>1, <1>2, RanksTaken
      <3>4. j \in 1..n BY <1>2
      <3>5. \A i \in 1..n : i <= j => i \in T
        <4> TAKE i \in 1..n
        <4> HAVE i <= j
        <4>1. A[i] <= A[j] /\ A[j] <= cutoff BY <3>4, <1>2, <1>3
        <4>2. A[i] <= cutoff BY <4>1, <3>4, <1>1
        <4> QED BY <4>2, <1>2
      <3>6. \A i \in T : i <= j
        <4> TAKE i \in T
        <4>1. i \in Nat /\ j \in Nat BY <1>2
        <4>2. j < i => Rank(T, j) < Rank(T, i) BY <1>1, <1>2, RanksRise
        <4>3. Rank(T, i) \in 1..d BY <1>5
        <4> QED BY <4>1, <4>2, <4>3, <3>3, <1>5
      <3>7. T = 1..j
        <4>1. \A i \in 1..j : i \in 1..n /\ i <= j BY <3>4, <1>1
        <4>2. \A i \in T : i \in 1..j
          <5> TAKE i \in T
          <5>1. i \in 1..n BY <1>2
          <5> QED BY <5>1, <3>6
        <4>3. \A i \in 1..j : i \in T BY <4>1, <3>5
        <4> QED BY <4>2, <4>3
      <3>8. Cardinality(1..j) = j BY <3>4, FS_Interval
      <3>9. d = j BY <3>7, <3>8
      <3> HIDE DEF d
      <3> QED BY <3>4, <3>5, <3>6, <3>9, <1>1
    <2> QED BY <2>1, <2>2
  <1> HIDE DEF d
  <1>7. o \in Seq(Int) /\ Len(o) = n - d /\ \A i \in 1..(n - d) : o[i] = A[i + d] BY <1>1, <1>6 DEF o
  <1> QED BY <1>2, <1>4, <1>6, <1>7 DEF n

\* What was let through was paid for - a burst and the refill since; and a
\* bucket owes no more than was let through.
Spent(A, v, t) == \A i \in 1..Len(A) : (Len(A) - i + 1) * WindowTicks + v <= FullLevel + (t - A[i]) * BucketLimit
Owed(A, g, t) ==
  /\ g + Len(A) * WindowTicks >= FullLevel
  /\ \A i \in 1..Len(A) : LET o == g + (Len(A) - i) * WindowTicks IN o >= FullLevel \/ o >= (t - A[i]) * BucketLimit
LEMMA Constants ==
  /\ BucketLimit \in Nat /\ WindowTicks \in Nat /\ FullLevel \in Nat /\ BucketLimit > 0 /\ WindowTicks > 0
  /\ FullLevel = BucketLimit * WindowTicks
  BY Fullness, LimitsAssumption DEF FullLevel
LEMMA DatedMore ==
  ASSUME NEW t \in Int, NEW A, Dated(A, t)
  PROVE  /\ Dated(Append(A, t), t) /\ Len(Append(A, t)) = Len(A) + 1 /\ Len(A) \in Nat
         /\ \A i \in 1..(Len(A) + 1) : Append(A, t)[i] = IF i = Len(A) + 1 THEN t ELSE A[i]
  <1> DEFINE n == Len(A)
             o == Append(A, t)
  <1>1. A \in Seq(Int) /\ n \in Nat /\ DOMAIN A = 1..n /\ \A i \in 1..n : A[i] \in Int /\ A[i] <= t /\ A[i] > t - WindowTicks BY DEF Dated
  <1>2. o \in Seq(Int) /\ Len(o) = n + 1 BY <1>1
  <1>3. \A i \in 1..(n + 1) : o[i] = IF i = n + 1 THEN t ELSE A[i] BY <1>1
  <1>4. \A i, j \in 1..n : i <= j => A[i] <= A[j] BY DEF Dated
  <1> HIDE DEF o, n
  <1>5. \A i \in 1..(n + 1) : o[i] <= t /\ o[i] > t - WindowTicks BY <1>1, <1>3, Constants
  <1>6. \A i, j \in 1..(n + 1) : i <= j => o[i] <= o[j] BY <1>1, <1>3, <1>4
  <1>7. Dated(o, t) BY <1>2, <1>5, <1>6 DEF Dated
  <1> QED BY <1>1, <1>2, <1>3, <1>7 DEF o, n
LEMMA SpentMore ==
  ASSUME NEW t \in Int, NEW A, Dated(A, t), NEW v \in Int, v <= FullLevel, Spent(A, v, t)
  PROVE  Spent(Append(A, t), v - WindowTicks, t)
  <1> DEFINE n == Len(A)
             o == Append(A, t)
             W == WindowTicks
  <1>1. n \in Nat /\ Len(o) = n + 1 /\ \A i \in 1..(n + 1) : o[i] = IF i = n + 1 THEN t ELSE A[i] BY DatedMore
  <1>2. \A i \in 1..n : A[i] \in Int BY DEF Dated
  <1> HIDE DEF o
  <1>3. ASSUME NEW i \in 1..(n + 1) PROVE (n + 1 - i + 1) * W + (v - W) <= FullLevel + (t - o[i]) * BucketLimit
    <2>1. CASE i = n + 1
      <3>1. n + 1 - i + 1 = 1 /\ o[i] = t /\ t - o[i] = 0 BY <2>1, <1>1
      <3>2. 1 * W = W /\ 0 * BucketLimit = 0 BY Times, Constants
      <3> QED BY <3>1, <3>2, Constants
    <2>2. CASE i # n + 1
      <3>1. i \in 1..n /\ o[i] = A[i] BY <2>2, <1>1
      <3> DEFINE x == (n - i + 1) * W
                 y == (t - A[i]) * BucketLimit
      <3>2. x + v <= FullLevel + y BY <3>1 DEF Spent
      <3>3. n + 1 - i + 1 = (n - i + 1) + 1 /\ n - i + 1 \in Int BY <3>1, <1>1
      <3>4. ((n - i + 1) + 1) * W = x + W /\ x \in Int BY <3>3, Times, Constants
      <3>5. y \in Int BY <3>1, <1>2, Constants
      <3> HIDE DEF x
      <3>6. (n + 1 - i + 1) * W = x + W BY <3>3, <3>4
      <3>7. (t - o[i]) * BucketLimit = y BY <3>1
      <3> HIDE DEF y
      <3> QED BY <3>2, <3>4, <3>5, <3>6, <3>7, Constants
    <2> QED BY <2>1, <2>2
  <1> QED BY <1>1, <1>3 DEF Spent
LEMMA OwedMore ==
  ASSUME NEW t \in Int, NEW A, Dated(A, t), NEW g \in Int, g >= WindowTicks, Owed(A, g, t)
  PROVE  Owed(Append(A, t), g - WindowTicks, t)
  <1> DEFINE n == Len(A)
             o == Append(A, t)
             W == WindowTicks
  <1>1. n \in Nat /\ Len(o) = n + 1 /\ \A i \in 1..(n + 1) : o[i] = IF i = n + 1 THEN t ELSE A[i] BY DatedMore
  <1>2. \A i \in 1..n : A[i] \in Int BY DEF Dated
  <1> HIDE DEF o
  <1>3. \A m \in Int : (m + 1) * W = m * W + W /\ m * W \in Int BY Times, Constants
  <1>4. (g - W) + (n + 1) * W >= FullLevel
    <2>1. (n + 1) * W = n * W + W /\ n * W \in Int BY <1>1, <1>3
    <2>2. g + n * W >= FullLevel BY DEF Owed
    <2> QED BY <2>1, <2>2, Constants
  <1>5. ASSUME NEW i \in 1..(n + 1)
        PROVE  LET q == (g - W) + (n + 1 - i) * W IN q >= FullLevel \/ q >= (t - o[i]) * BucketLimit
    <2>1. CASE i = n + 1
      <3>1. n + 1 - i = 0 /\ o[i] = t /\ t - o[i] = 0 BY <2>1, <1>1
      <3>2. 0 * W = 0 /\ 0 * BucketLimit = 0 BY Times, Constants
      <3> QED BY <3>1, <3>2, Constants
    <2>2. CASE i # n + 1
      <3>1. i \in 1..n /\ o[i] = A[i] BY <2>2, <1>1
      <3>2. g + (n - i) * W >= FullLevel \/ g + (n - i) * W >= (t - A[i]) * BucketLimit BY <3>1 DEF Owed
      <3>3. n + 1 - i = (n - i) + 1 /\ n - i \in Int BY <3>1, <1>1
      <3>4. ((n - i) + 1) * W = (n - i) * W + W /\ (n - i) * W \in Int BY <3>3, <1>3
      <3>5. (g - W) + (n + 1 - i) * W = g + (n - i) * W BY <3>3, <3>4, Constants
      <3> QED BY <3>1, <3>2, <3>5
    <2> QED BY <2>1, <2>2
  <1> QED BY <1>1, <1>4, <1>5 DEF Owed

\* One tick on: what left the window had been refilled.
LEMMA DatedOn ==
  ASSUME NEW t \in Int, NEW A, Dated(A, t)
  PROVE  /\ Dated(Since(A, (t + 1) - WindowTicks), t + 1)
         /\ \E d \in 0..Len(A) :
              /\ Len(Since(A, (t + 1) - WindowTicks)) = Len(A) - d
              /\ \A i \in 1..(Len(A) - d) : i + d \in 1..Len(A) /\ Since(A, (t + 1) - WindowTicks)[i] = A[i + d]
              /\ \A i \in 1..d : i \in 1..Len(A) /\ A[i] = (t + 1) - WindowTicks
  <1> DEFINE W == WindowTicks
             n == Len(A)
             B == Since(A, (t + 1) - W)
  <1>1. (t + 1) - W \in Int BY Constants
  <1>2. n \in Nat /\ \A i \in 1..n : A[i] \in Int /\ A[i] <= t /\ A[i] > t - W BY DEF Dated
  <1>3. \A i, j \in 1..n : i <= j => A[i] <= A[j] BY DEF Dated
  <1>4. PICK d \in 0..n :
          /\ B \in Seq(Int) /\ Len(B) = n - d
          /\ \A i \in 1..(n - d) : B[i] = A[i + d]
          /\ \A i \in 1..n : i <= d <=> A[i] <= (t + 1) - W
    BY <1>1, SinceIs
  <1> HIDE DEF B, n
  <1>5. \A i \in 1..(n - d) : i + d \in 1..n /\ ~(i + d <= d) BY <1>2
  <1>6. \A i \in 1..(n - d) : B[i] <= t + 1 /\ B[i] > (t + 1) - W
    <2> TAKE i \in 1..(n - d)
    <2>1. i + d \in 1..n /\ B[i] = A[i + d] /\ ~(A[i + d] <= (t + 1) - W) BY <1>4, <1>5
    <2> QED BY <2>1, <1>1, <1>2
  <1>7. \A i, j \in 1..(n - d) : i <= j => B[i] <= B[j]
    <2> TAKE i, j \in 1..(n - d)
    <2> HAVE i <= j
    <2>1. i + d \in 1..n /\ j + d \in 1..n /\ i + d <= j + d BY <1>5
    <2> QED BY <2>1, <1>3, <1>4
  <1>8. Dated(B, t + 1) BY <1>4, <1>6, <1>7 DEF Dated
  <1>9. \A i \in 1..d : i \in 1..n /\ A[i] = (t + 1) - W
    <2> TAKE i \in 1..d
    <2>1. i \in 1..n /\ i <= d BY <1>2
    <2>2. A[i] <= (t + 1) - W /\ A[i] \in Int /\ A[i] > t - W BY <2>1, <1>2, <1>4
    <2> QED BY <2>1, <2>2, Constants
  <1> QED BY <1>4, <1>5, <1>8, <1>9 DEF B, n
LEMMA TickLater ==
  ASSUME NEW t \in Int, NEW a \in Int
  PROVE  ((t + 1) - a) * BucketLimit = (t - a) * BucketLimit + BucketLimit /\ (t - a) * BucketLimit \in Int
  <1>1. (t + 1) - a = (t - a) + 1 /\ t - a \in Int OBVIOUS
  <1>2. ((t - a) + 1) * BucketLimit = (t - a) * BucketLimit + 1 * BucketLimit /\ (t - a) * BucketLimit \in Int BY <1>1, Times, Constants
  <1>3. 1 * BucketLimit = BucketLimit BY Times, Constants
  <1> QED BY <1>1, <1>2, <1>3
LEMMA SpentOn ==
  ASSUME NEW t \in Int, NEW A, Dated(A, t), NEW v \in Int, NEW w \in Int, w <= v + BucketLimit, Spent(A, v, t)
  PROVE  Spent(Since(A, (t + 1) - WindowTicks), w, t + 1)
  <1> DEFINE W == WindowTicks
             n == Len(A)
             B == Since(A, (t + 1) - W)
  <1>1. PICK d \in 0..n :
              /\ Len(B) = n - d
              /\ \A i \in 1..(n - d) : i + d \in 1..n /\ B[i] = A[i + d]
              /\ \A i \in 1..d : i \in 1..n /\ A[i] = (t + 1) - W
    BY DatedOn
  <1>2. n \in Nat /\ \A i \in 1..n : A[i] \in Int BY DEF Dated
  <1>3. \A j \in 1..n : (n - j + 1) * W + v <= FullLevel + (t - A[j]) * BucketLimit BY DEF Spent
  <1> HIDE DEF B, n
  <1>4. ASSUME NEW i \in 1..(n - d) PROVE ((n - d) - i + 1) * W + w <= FullLevel + ((t + 1) - B[i]) * BucketLimit
    <2>1. i + d \in 1..n /\ B[i] = A[i + d] /\ A[i + d] \in Int BY <1>1, <1>2
    <2>2. (n - (i + d) + 1) * W + v <= FullLevel + (t - A[i + d]) * BucketLimit BY <2>1, <1>3
    <2>3. ((t + 1) - B[i]) * BucketLimit = (t - A[i + d]) * BucketLimit + BucketLimit /\ (t - A[i + d]) * BucketLimit \in Int
      BY <2>1, TickLater
    <2>4. (n - d) - i + 1 = n - (i + d) + 1 /\ n - (i + d) + 1 \in Int BY <1>2
    <2>5. (n - (i + d) + 1) * W \in Int BY <2>4, Times, Constants
    <2> QED BY <2>2, <2>3, <2>4, <2>5, Constants
  <1> QED BY <1>1, <1>4 DEF Spent, B
LEMMA OwedOn ==
  ASSUME NEW t \in Int, NEW A, Dated(A, t), NEW g \in Int, NEW h \in Int, h >= FullLevel \/ h >= g + BucketLimit, Owed(A, g, t)
  PROVE  Owed(Since(A, (t + 1) - WindowTicks), h, t + 1)
  <1> DEFINE W == WindowTicks
             n == Len(A)
             B == Since(A, (t + 1) - W)
  <1>1. PICK d \in 0..n :
              /\ Len(B) = n - d
              /\ \A i \in 1..(n - d) : i + d \in 1..n /\ B[i] = A[i + d]
              /\ \A i \in 1..d : i \in 1..n /\ A[i] = (t + 1) - W
    BY DatedOn
  <1>2. n \in Nat /\ \A i \in 1..n : A[i] \in Int BY DEF Dated
  <1>3. /\ g + n * W >= FullLevel
        /\ \A j \in 1..n : g + (n - j) * W >= FullLevel \/ g + (n - j) * W >= (t - A[j]) * BucketLimit
    BY DEF Owed
  <1> HIDE DEF B, n
  <1>4. \A m \in Nat : m * W \in Nat BY Constants
  <1>5. CASE h >= FullLevel
    <2>1. \A m \in Nat : h + m * W >= FullLevel BY <1>4, <1>5, Constants
    <2>2. n - d \in Nat /\ \A i \in 1..(n - d) : (n - d) - i \in Nat BY <1>2
    <2> QED BY <1>1, <2>1, <2>2 DEF Owed, B
  <1>6. CASE h >= g + BucketLimit
    <2>1. h + (n - d) * W >= FullLevel
      <3>1. CASE d = 0
        <4>1. n - d = n BY <3>1, <1>2
        <4>2. n * W \in Nat BY <1>2, <1>4
        <4> QED BY <4>1, <4>2, <1>3, <1>6, Constants
      <3>2. CASE d # 0
        <4>1. d \in 1..n /\ A[d] = (t + 1) - W BY <3>2, <1>1, <1>2
        <4> DEFINE x == (n - d) * W
                   y == (t - A[d]) * BucketLimit
        <4>2. g + x >= FullLevel \/ g + x >= y BY <4>1, <1>3
        <4>3. x \in Int /\ n - d \in Nat BY <1>2, <1>4
        <4>4. y = FullLevel - BucketLimit
          <5>1. t - A[d] = W - 1 BY <4>1, Constants
          <5>2. (W - 1) * BucketLimit = W * BucketLimit - 1 * BucketLimit /\ 1 * BucketLimit = BucketLimit BY Times, Constants
          <5>3. W * BucketLimit = FullLevel BY Constants
          <5> QED BY <5>1, <5>2, <5>3
        <4> HIDE DEF x, y
        <4>5. h + x >= FullLevel BY <4>2, <4>3, <4>4, <1>6, Constants
        <4> QED BY <4>5 DEF x
      <3> QED BY <3>1, <3>2
    <2>2. ASSUME NEW i \in 1..(n - d)
          PROVE  h + ((n - d) - i) * W >= FullLevel \/ h + ((n - d) - i) * W >= ((t + 1) - B[i]) * BucketLimit
      <3>1. i + d \in 1..n /\ B[i] = A[i + d] /\ A[i + d] \in Int BY <1>1, <1>2
      <3>2. g + (n - (i + d)) * W >= FullLevel \/ g + (n - (i + d)) * W >= (t - A[i + d]) * BucketLimit BY <3>1, <1>3
      <3>3. ((t + 1) - B[i]) * BucketLimit = (t - A[i + d]) * BucketLimit + BucketLimit /\ (t - A[i + d]) * BucketLimit \in Int
        BY <3>1, TickLater
      <3>4. (n - d) - i = n - (i + d) /\ n - (i + d) \in Nat BY <1>2
      <3>5. (n - (i + d)) * W \in Nat BY <3>4, <1>4
      <3> QED BY <3>2, <3>3, <3>4, <3>5, <1>6, Constants
    <2> QED BY <1>1, <2>1, <2>2 DEF Owed, B
  <1> QED BY <1>5, <1>6

\* So a window holds less than two limits, and who is refused had one.
LEMMA SpentBound ==
  ASSUME NEW t \in Int, NEW A, Dated(A, t), NEW v \in Nat, Spent(A, v, t)
  PROVE  Len(A) <= 2 * BucketLimit - 1
  <1> DEFINE W == WindowTicks
             L == BucketLimit
             n == Len(A)
  <1>1. n \in Nat /\ \A i \in 1..n : A[i] \in Int /\ A[i] > t - W BY DEF Dated
  <1>2. CASE n = 0 BY <1>2, Constants
  <1>3. CASE n # 0
    <2>1. 1 \in 1..n BY <1>1, <1>3
    <2>2. (n - 1 + 1) * W + v <= FullLevel + (t - A[1]) * L BY <2>1 DEF Spent
    <2>3. n - 1 + 1 = n BY <1>1
    <2>4. t - A[1] \in Int /\ t - A[1] <= W - 1 BY <2>1, <1>1, Constants
    <2>5. (t - A[1]) * L <= (W - 1) * L /\ (t - A[1]) * L \in Int BY <2>4, Times, Constants
    <2>6. (W - 1) * L = W * L - L
      <3>1. (W - 1) * L = W * L - 1 * L /\ 1 * L = L BY Times, Constants
      <3> QED BY <3>1
    <2>7. W * L = FullLevel BY Constants
    <2>8. n * W \in Int BY <1>1, Constants
    <2>9. n * W < FullLevel + FullLevel BY <2>2, <2>3, <2>5, <2>6, <2>7, <2>8, Constants
    <2>10. FullLevel + FullLevel = (L + L) * W
      <3>1. (L + L) * W = L * W + L * W BY Times, Constants
      <3> QED BY <3>1, Constants
    <2>11. n * W < (L + L) * W BY <2>9, <2>10
    <2>12. n < L + L BY <2>11, <1>1, Times, Constants
    <2> QED BY <2>12, <1>1, Constants
  <1> QED BY <1>2, <1>3
LEMMA OwedBound ==
  ASSUME NEW t \in Int, NEW A, Dated(A, t), NEW g \in Int, g < WindowTicks, Owed(A, g, t)
  PROVE  Len(A) >= BucketLimit
  <1> DEFINE W == WindowTicks
             L == BucketLimit
             n == Len(A)
  <1>1. n \in Nat BY DEF Dated
  <1>2. g + n * W >= L * W /\ n * W \in Int /\ L * W \in Int BY <1>1, Constants DEF Owed
  <1>3. (n + 1) * W = n * W + W
    <2>1. (n + 1) * W = n * W + 1 * W /\ 1 * W = W BY <1>1, Times, Constants
    <2> QED BY <2>1
  <1>4. L * W < (n + 1) * W BY <1>2, <1>3, Constants
  <1>5. L < n + 1 BY <1>1, <1>4, Times, Constants
  <1> QED BY <1>1, <1>5, Constants

\* The books of one key of a bucket limiter: its level, when it was let
\* through, what it was last told to wait for, and whether its bucket was lost.
Books(v, A, r, lost, t) ==
  /\ v \in 0..FullLevel /\ Dated(A, t) /\ r \in Nat \cup {-1}
  /\ ~lost => Spent(A, v, t)
  /\ Owed(A, v, t)
  /\ r > t => \E g \in Int : g + ((r - t) - 1) * BucketLimit < WindowTicks /\ Owed(A, g, t)
  /\ r >= t => v + (r - t) * BucketLimit >= WindowTicks
  /\ r \in 0..t => v >= WindowTicks
LEMMA BooksOpen ==
  Books(FullLevel, <<>>, -1, FALSE, 0)
  <1>1. Dated(<<>>, 0) BY DEF Dated
  <1>2. Spent(<<>>, FullLevel, 0) BY DEF Spent
  <1>3. Owed(<<>>, FullLevel, 0)
    <2>1. 0 * WindowTicks = 0 BY Times, Constants
    <2> QED BY <2>1, Constants DEF Owed
  <1> QED BY <1>1, <1>2, <1>3, Constants DEF Books
LEMMA BooksTake ==
  ASSUME NEW t \in Nat, NEW v, NEW A, NEW r, NEW lost, Books(v, A, r, lost, t), v >= WindowTicks
  PROVE  Books(v - WindowTicks, Append(A, t), -1, lost, t)
  <1>1. v \in 0..FullLevel /\ Dated(A, t) /\ Owed(A, v, t) /\ (~lost => Spent(A, v, t)) BY DEF Books
  <1>2. v - WindowTicks \in 0..FullLevel BY <1>1, Constants
  <1>3. Dated(Append(A, t), t) BY <1>1, DatedMore
  <1>4. Owed(Append(A, t), v - WindowTicks, t) BY <1>1, OwedMore, Constants
  <1>5. ~lost => Spent(Append(A, t), v - WindowTicks, t) BY <1>1, SpentMore, Constants
  <1> QED BY <1>2, <1>3, <1>4, <1>5 DEF Books
LEMMA BooksRefuse ==
  ASSUME NEW t \in Nat, NEW v, NEW A, NEW r, NEW lost, Books(v, A, r, lost, t), ~(v >= WindowTicks),
         NEW w, w = CeilDiv(WindowTicks - v, BucketLimit)
  PROVE  Books(v, A, t + (IF w < 1 THEN 1 ELSE w), lost, t)
  <1>1. v \in 0..FullLevel /\ Dated(A, t) /\ Owed(A, v, t) /\ (~lost => Spent(A, v, t)) BY DEF Books
  <1>2. WindowTicks - v \in Nat /\ BucketLimit \in Nat \ {0} /\ WindowTicks - v > 0 BY <1>1, Constants
  <1>3. w \in Int /\ WindowTicks - v <= w * BucketLimit /\ (w - 1) * BucketLimit < WindowTicks - v BY <1>2, Rounded
  <1>4. w >= 1
    <2> SUFFICES ASSUME w < 1 PROVE FALSE BY <1>3
    <2>1. w <= 0 /\ 0 \in Int BY <1>3
    <2>2. w * BucketLimit <= 0 * BucketLimit /\ w * BucketLimit \in Int BY <2>1, <1>3, Times, Constants
    <2>3. 0 * BucketLimit = 0 BY Times, Constants
    <2> QED BY <2>2, <2>3, <1>1, <1>2, <1>3
  <1> DEFINE q == t + (IF w < 1 THEN 1 ELSE w)
  <1>5. q = t + w /\ q \in Nat /\ q > t /\ q - t = w /\ (q - t) - 1 = w - 1 BY <1>3, <1>4
  <1> HIDE DEF q
  <1>6. v + ((q - t) - 1) * BucketLimit < WindowTicks
    <2>1. (w - 1) * BucketLimit \in Int BY <1>3, Constants
    <2> QED BY <2>1, <1>1, <1>3, <1>5, Constants
  <1>7. v + (q - t) * BucketLimit >= WindowTicks
    <2>1. w * BucketLimit \in Int BY <1>3, Constants
    <2> QED BY <2>1, <1>1, <1>3, <1>5, Constants
  <1>8. \E g \in Int : g + ((q - t) - 1) * BucketLimit < WindowTicks /\ Owed(A, g, t) BY <1>1, <1>6
  <1>9. q \notin 0..t BY <1>5
  <1>10. Books(v, A, q, lost, t) BY <1>1, <1>5, <1>7, <1>8, <1>9 DEF Books
  <1> QED BY <1>10 DEF q
LEMMA BooksLost ==
  ASSUME NEW t \in Nat, NEW v, NEW A, NEW r, NEW lost, Books(v, A, r, lost, t)
  PROVE  Books(v, A, r, TRUE, t) /\ Books(FullLevel, A, r, TRUE, t)
  <1>1. Books(v, A, r, TRUE, t) BY DEF Books
  <1>2. v \in 0..FullLevel /\ Dated(A, t) /\ Owed(A, v, t) /\ r \in Nat \cup {-1} BY DEF Books
  <1>3. Owed(A, FullLevel, t)
    <2>1. Len(A) \in Nat /\ \A i \in 1..Len(A) : Len(A) - i \in Nat BY <1>2 DEF Dated
    <2>2. \A m \in Nat : m * WindowTicks \in Nat BY Constants
    <2>3. \A m \in Nat : FullLevel + m * WindowTicks >= FullLevel BY <2>2, Constants
    <2> QED BY <2>1, <2>3 DEF Owed
  <1>4. r >= t => FullLevel + (r - t) * BucketLimit >= WindowTicks
    <2> SUFFICES ASSUME r >= t PROVE FullLevel + (r - t) * BucketLimit >= WindowTicks OBVIOUS
    <2>1. r - t \in Nat BY <1>2
    <2>2. (r - t) * BucketLimit \in Nat BY <2>1, Constants
    <2> QED BY <2>2, Fullness, Constants
  <1>5. FullLevel \in 0..FullLevel /\ FullLevel >= WindowTicks BY Fullness, Constants
  <1>6. r > t => \E g \in Int : g + ((r - t) - 1) * BucketLimit < WindowTicks /\ Owed(A, g, t) BY DEF Books
  <1>7. Books(FullLevel, A, r, TRUE, t) BY <1>2, <1>3, <1>4, <1>5, <1>6 DEF Books
  <1> QED BY <1>1, <1>7
LEMMA BooksTick ==
  ASSUME NEW t \in Nat, NEW v, NEW A, NEW r, NEW lost, Books(v, A, r, lost, t),
         NEW w, w = IF v + BucketLimit > FullLevel THEN FullLevel ELSE v + BucketLimit
  PROVE  Books(w, Since(A, (t + 1) - WindowTicks), r, lost, t + 1)
  <1> DEFINE B == Since(A, (t + 1) - WindowTicks)
  <1>1. v \in 0..FullLevel /\ Dated(A, t) /\ Owed(A, v, t) /\ (~lost => Spent(A, v, t)) /\ r \in Nat \cup {-1} BY DEF Books
  <1>2. w \in 0..FullLevel /\ w <= v + BucketLimit /\ (w = FullLevel \/ w = v + BucketLimit) /\ w >= v BY <1>1, Constants
  <1>3. Dated(B, t + 1) BY <1>1, DatedOn
  <1>4. ~lost => Spent(B, w, t + 1) BY <1>1, <1>2, SpentOn
  <1>5. Owed(B, w, t + 1)
    <2>1. w >= FullLevel \/ w >= v + BucketLimit BY <1>2, Constants
    <2>2. v \in Int /\ w \in Int BY <1>1, <1>2
    <2> QED BY <2>1, <2>2, <1>1, OwedOn
  <1> HIDE DEF B
  <1>6. ASSUME r > t + 1 PROVE \E g \in Int : g + ((r - (t + 1)) - 1) * BucketLimit < WindowTicks /\ Owed(B, g, t + 1)
    <2>1. PICK g \in Int : g + ((r - t) - 1) * BucketLimit < WindowTicks /\ Owed(A, g, t) BY <1>1, <1>6 DEF Books
    <2>2. Owed(B, g + BucketLimit, t + 1) /\ g + BucketLimit \in Int
      <3>1. g + BucketLimit \in Int /\ g + BucketLimit >= g + BucketLimit BY <2>1, Constants
      <3> QED BY <3>1, <2>1, <1>1, OwedOn DEF B
    <2> DEFINE y == (r - (t + 1)) - 1
    <2>3. (r - t) - 1 = y + 1 /\ y \in Int BY <1>1, <1>6
    <2>4. (y + 1) * BucketLimit = y * BucketLimit + BucketLimit /\ y * BucketLimit \in Int
      <3>1. (y + 1) * BucketLimit = y * BucketLimit + 1 * BucketLimit /\ 1 * BucketLimit = BucketLimit /\ y * BucketLimit \in Int BY <2>3, Times, Constants
      <3> QED BY <3>1
    <2> HIDE DEF y
    <2>5. (g + BucketLimit) + y * BucketLimit < WindowTicks BY <2>1, <2>3, <2>4, Constants
    <2> QED BY <2>2, <2>5 DEF y
  <1>7. ASSUME r >= t + 1 PROVE w + (r - (t + 1)) * BucketLimit >= WindowTicks
    <2> DEFINE y == r - (t + 1)
    <2>1. y \in Nat /\ r - t = y + 1 BY <1>1, <1>7
    <2>2. v + (r - t) * BucketLimit >= WindowTicks BY <1>1, <1>7 DEF Books
    <2>3. (y + 1) * BucketLimit = y * BucketLimit + BucketLimit /\ y * BucketLimit \in Nat
      <3>1. (y + 1) * BucketLimit = y * BucketLimit + 1 * BucketLimit /\ 1 * BucketLimit = BucketLimit BY <2>1, Times, Constants
      <3>2. y * BucketLimit \in Nat BY <2>1, Constants
      <3> QED BY <3>1, <3>2
    <2> HIDE DEF y
    <2>4. w + y * BucketLimit >= WindowTicks BY <2>1, <2>2, <2>3, <1>1, <1>2, Fullness, Constants
    <2> QED BY <2>4 DEF y
  <1>8. ASSUME r \in 0..(t + 1) PROVE w >= WindowTicks
    <2>1. CASE r \in 0..t
      <3>1. v >= WindowTicks BY <2>1 DEF Books
      <3> QED BY <3>1, <1>1, <1>2, Constants
    <2>2. CASE r = t + 1
      <3>1. r >= t + 1 /\ r - (t + 1) = 0 /\ 0 * BucketLimit = 0 BY <2>2, Constants
      <3>2. w + 0 * BucketLimit >= WindowTicks BY <3>1, <1>7
      <3> QED BY <3>1, <3>2, <1>2
    <2> QED BY <2>1, <2>2, <1>8
  <1>9. Books(w, B, r, lost, t + 1) BY <1>1, <1>2, <1>3, <1>4, <1>5, <1>6, <1>7, <1>8 DEF Books
  <1> QED BY <1>9 DEF B
LEMMA BooksSound ==
  ASSUME NEW t \in Nat, NEW v, NEW A, NEW r, NEW lost, Books(v, A, r, lost, t)
  PROVE  /\ ~lost => Len(A) <= 2 * BucketLimit - 1
         /\ r > t => Len(A) >= BucketLimit
         /\ r \in 0..t => v >= WindowTicks
  <1>1. v \in Nat /\ Dated(A, t) /\ (~lost => Spent(A, v, t)) /\ r \in Nat \cup {-1} BY DEF Books
  <1>2. ~lost => Len(A) <= 2 * BucketLimit - 1 BY <1>1, SpentBound
  <1>3. ASSUME r > t PROVE Len(A) >= BucketLimit
    <2>1. PICK g \in Int : g + ((r - t) - 1) * BucketLimit < WindowTicks /\ Owed(A, g, t) BY <1>3 DEF Books
    <2>2. (r - t) - 1 \in Nat BY <1>1, <1>3
    <2>3. ((r - t) - 1) * BucketLimit \in Nat BY <2>2, Constants
    <2>4. g < WindowTicks BY <2>1, <2>3, Constants
    <2> QED BY <2>1, <2>4, <1>1, OwedBound
  <1> QED BY <1>2, <1>3 DEF Books

\* What is known of a kept bucket is known of a lost one.
LEMMA BooksEither ==
  ASSUME NEW t, NEW v, NEW A, NEW r, NEW lost, NEW other, Books(v, A, r, lost, t), lost => other
  PROVE  Books(v, A, r, other, t)
  BY DEF Books
LEMMA LevelOn ==
  ASSUME NEW t \in 0..TickMax, t < TickMax, NEW m, BucketsOK(m, t), NEW k \in LimitKey
  PROVE  /\ BucketsOK(m, t + 1)
         /\ Level(m, k, t + 1) = IF Level(m, k, t) + BucketLimit > FullLevel THEN FullLevel ELSE Level(m, k, t) + BucketLimit
  <1> DEFINE u == t + 1
  <1>1. u \in 0..TickMax /\ t <= u BY LimitsAssumption
  <1>2. m \in Seq(Buckets) /\ Functional(m) /\ \A e \in Entries(m) : e.at <= t BY DEF BucketsOK
  <1>3. ASSUME NEW e \in Entries(m) PROVE e \in Buckets /\ e.at \in Nat
    <2>1. e \in Buckets BY <1>2, EntriesAre
    <2> QED BY <2>1, LimitsAssumption DEF Buckets
  <1>4. BucketsOK(m, u) BY <1>1, <1>2, <1>3 DEF BucketsOK
  <1>5. CASE \E e \in Entries(m) : e.key = k
    <2>1. PICK e \in Entries(m) : e.key = k BY <1>5
    <2>2. e \in Buckets /\ e.at <= t BY <1>2, <1>3
    <2>3. RefillTo(e, u) = IF RefillTo(e, t) + BucketLimit > FullLevel THEN FullLevel ELSE RefillTo(e, t) + BucketLimit BY <2>2, RefillOn
    <2> HIDE DEF u
    <2>4. Level(m, k, u) = RefillTo(e, u) BY <2>1, <1>1, <1>4, NowIs DEF Level
    <2>5. Level(m, k, t) = RefillTo(e, t) BY <2>1, NowIs DEF Level
    <2> QED BY <1>4, <2>3, <2>4, <2>5 DEF u
  <1>6. CASE \A e \in Entries(m) : e.key # k
    <2> HIDE DEF u
    <2>1. Level(m, k, u) = FullLevel BY <1>1, <1>4, <1>6, NowIs DEF Level
    <2>2. Level(m, k, t) = FullLevel BY <1>6, NowIs DEF Level
    <2>3. FullLevel + BucketLimit > FullLevel BY Constants
    <2> QED BY <1>4, <2>1, <2>2, <2>3 DEF u
  <1> QED BY <1>5, <1>6

\* The bucket limiter.
BucketKept(m, ad, re, ev, t) ==
  /\ t \in 0..TickMax /\ BucketsOK(m, t) /\ Len(m) <= MaxKeys
  /\ DOMAIN ad = LimitKey /\ DOMAIN re = LimitKey
  /\ \A k \in LimitKey : Books(Level(m, k, t), ad[k], re[k], k \in ev, t)
BucketInv == limiter = "bucket" /\ BucketKept(recent, admitted, refused, evicted, tick)
LEMMA BucketBegins ==
  ASSUME LimitsInit, limiter = "bucket"
  PROVE  BucketInv
  <1>1. /\ recent = <<>> /\ tick = 0 /\ evicted = {}
        /\ admitted = [k \in LimitKey |-> <<>>] /\ refused = [k \in LimitKey |-> -1]
    BY DEF LimitsInit
  <1>2. 0 \in 0..TickMax /\ Len(<<>>) <= MaxKeys BY LimitsAssumption
  <1>3. <<>> \in Seq(Buckets) /\ Entries(<<>>) = {} BY DEF Entries
  <1>4. BucketsOK(<<>>, 0) BY <1>3 DEF BucketsOK, Functional
  <1>5. \A k \in LimitKey : Level(<<>>, k, 0) = FullLevel BY <1>2, <1>3, <1>4, NowIs DEF Level
  <1>6. ASSUME NEW k \in LimitKey PROVE Books(Level(<<>>, k, 0), <<>>, -1, k \in {}, 0)
    <2>1. Books(FullLevel, <<>>, -1, FALSE, 0) BY BooksOpen
    <2>2. Books(Level(<<>>, k, 0), <<>>, -1, FALSE, 0) BY <1>5, <2>1
    <2> QED BY <2>2, BooksEither
  <1>7. BucketKept(<<>>, admitted, refused, {}, 0) BY <1>1, <1>2, <1>4, <1>6 DEF BucketKept
  <1> QED BY <1>1, <1>7 DEF BucketInv
LEMMA BucketTicks ==
  ASSUME BucketInv, Tick
  PROVE  BucketInv'
  <1> DEFINE t == tick
             ad == [k \in LimitKey |-> Since(admitted[k], (t + 1) - WindowTicks)]
  <1>1. /\ t \in 0..TickMax /\ BucketsOK(recent, t) /\ Len(recent) <= MaxKeys /\ DOMAIN refused = LimitKey
        /\ \A k \in LimitKey : Books(Level(recent, k, t), admitted[k], refused[k], k \in evicted, t)
    BY DEF BucketInv, BucketKept
  <1>2. /\ t < TickMax /\ tick' = t + 1 /\ admitted' = ad /\ limiter' = limiter /\ recent' = recent
        /\ refused' = refused /\ evicted' = evicted
    BY DEF Tick
  <1> HIDE DEF t
  <1>3. t + 1 \in 0..TickMax /\ t \in Nat BY <1>1, <1>2, LimitsAssumption
  <1>4. ASSUME NEW k \in LimitKey PROVE BucketsOK(recent, t + 1) /\ Books(Level(recent, k, t + 1), ad[k], refused[k], k \in evicted, t + 1)
    <2> DEFINE v == Level(recent, k, t)
               w == Level(recent, k, t + 1)
               lost == k \in evicted
    <2>1. BucketsOK(recent, t + 1) /\ w = IF v + BucketLimit > FullLevel THEN FullLevel ELSE v + BucketLimit BY <1>1, <1>2, LevelOn
    <2>2. Books(v, admitted[k], refused[k], lost, t) BY <1>1
    <2>3. ad[k] = Since(admitted[k], (t + 1) - WindowTicks) OBVIOUS
    <2> HIDE DEF v, w, lost, ad
    <2>4. Books(w, Since(admitted[k], (t + 1) - WindowTicks), refused[k], lost, t + 1) BY <2>1, <2>2, <1>3, BooksTick
    <2> QED BY <2>1, <2>3, <2>4 DEF w, lost
  <1>5. DOMAIN ad = LimitKey OBVIOUS
  <1> HIDE DEF ad
  <1>6. BucketsOK(recent, t + 1)
    <2>1. recent \in Seq(Buckets) /\ Functional(recent) /\ \A e \in Entries(recent) : e.at <= t BY <1>1 DEF BucketsOK
    <2>2. ASSUME NEW e \in Entries(recent) PROVE e.at \in Nat
      <3>1. e \in Buckets BY <2>1, EntriesAre
      <3> QED BY <3>1, LimitsAssumption DEF Buckets
    <2>3. \A e \in Entries(recent) : e.at <= t + 1 BY <2>1, <2>2, <1>3
    <2> QED BY <2>1, <2>3 DEF BucketsOK
  <1>7. BucketKept(recent, ad, refused, evicted, t + 1) BY <1>1, <1>3, <1>4, <1>5, <1>6 DEF BucketKept
  <1> QED BY <1>2, <1>7 DEF BucketInv
LEMMA BucketTakes ==
  ASSUME BucketInv, NEW key \in LimitKey, Take(key)
  PROVE  BucketInv'
  <1> DEFINE t == tick
             m == recent
             next == Taken(m, key, t)
             v == Level(m, key, t)
             w == CeilDiv(WindowTicks - v, BucketLimit)
             may == v >= WindowTicks
             ev == evicted \cup LostIn(m, next, FullOnes(m, t))
             ad == [admitted EXCEPT ![key] = IF may THEN Append(@, t) ELSE @]
             re == [refused EXCEPT ![key] = IF may THEN -1 ELSE t + (IF w < 1 THEN 1 ELSE w)]
  <1>1. /\ t \in 0..TickMax /\ BucketsOK(m, t) /\ DOMAIN admitted = LimitKey /\ DOMAIN refused = LimitKey
        /\ \A k \in LimitKey : Books(Level(m, k, t), admitted[k], refused[k], k \in evicted, t)
    BY DEF BucketInv, BucketKept
  <1>2. /\ tick' = t /\ limiter' = limiter /\ recent' = next /\ evicted' = ev /\ admitted' = ad /\ refused' = re
    BY DEF Take, LimitAnswered, Dropped, LostIn, MayTake, BucketWait, Level
  <1>3. /\ BucketsOK(next, t) /\ Len(next) <= MaxKeys
        /\ Level(next, key, t) = IF v >= WindowTicks THEN v - WindowTicks ELSE v
        /\ \A k \in LimitKey \ {key} :
              \/ Level(next, k, t) = Level(m, k, t)
              \/ Level(next, k, t) = FullLevel /\ k \in LostIn(m, next, FullOnes(m, t))
    BY <1>1, TakenIs
  <1>4. DOMAIN ad = LimitKey /\ DOMAIN re = LimitKey /\ \A k \in LimitKey \ {key} : ad[k] = admitted[k] /\ re[k] = refused[k] BY <1>1
  <1>5. ad[key] = (IF may THEN Append(admitted[key], t) ELSE admitted[key]) /\ re[key] = (IF may THEN -1 ELSE t + (IF w < 1 THEN 1 ELSE w))
    BY <1>1
  <1>6. t \in Nat BY <1>1
  <1>7. \A k \in LimitKey : k \in evicted => k \in ev OBVIOUS
  <1>8. \A k \in LostIn(m, next, FullOnes(m, t)) : k \in ev OBVIOUS
  <1> DEFINE nk == Level(next, key, t)
             lk == key \in ev
  <1> HIDE DEF ad, re, next, ev, t, m
  <1>9. Books(nk, ad[key], re[key], lk, t)
    <2> DEFINE l0 == key \in evicted
    <2>1. Books(v, admitted[key], refused[key], l0, t) BY <1>1
    <2>2. w = CeilDiv(WindowTicks - v, BucketLimit) OBVIOUS
    <2>3. nk = (IF v >= WindowTicks THEN v - WindowTicks ELSE v) BY <1>3
    <2> HIDE DEF v, w, nk, l0, lk
    <2>4. Books(nk, ad[key], re[key], l0, t)
      <3>1. CASE v >= WindowTicks BY <3>1, <1>5, <1>6, <2>1, <2>3, BooksTake
      <3>2. CASE ~(v >= WindowTicks)
        <4>1. Books(v, admitted[key], t + (IF w < 1 THEN 1 ELSE w), l0, t) BY <3>2, <1>6, <2>1, <2>2, BooksRefuse
        <4> QED BY <3>2, <4>1, <1>5, <2>3
      <3> QED BY <3>1, <3>2
    <2>5. l0 => lk BY <1>7 DEF lk, l0
    <2> QED BY <2>4, <2>5, BooksEither
  <1>10. ASSUME NEW k \in LimitKey, k # key PROVE Books(Level(next, k, t), ad[k], re[k], k \in ev, t)
    <2> DEFINE x == Level(m, k, t)
               y == Level(next, k, t)
               l0 == k \in evicted
               l1 == k \in ev
    <2>1. Books(x, admitted[k], refused[k], l0, t) BY <1>1
    <2>2. ad[k] = admitted[k] /\ re[k] = refused[k] BY <1>4, <1>10
    <2>3. y = x \/ (y = FullLevel /\ l1) BY <1>3, <1>8, <1>10
    <2>4. l0 => l1 BY <1>7
    <2> HIDE DEF x, y, l0, l1
    <2>8. Books(y, ad[k], re[k], l1, t)
      <3>1. CASE y = x
        <4>1. Books(y, ad[k], re[k], l0, t) BY <2>1, <2>2, <3>1
        <4> QED BY <4>1, <2>4, BooksEither
      <3>2. CASE y = FullLevel /\ l1
        <4>1. Books(FullLevel, admitted[k], refused[k], TRUE, t) BY <1>6, <2>1, BooksLost
        <4>2. Books(y, ad[k], re[k], TRUE, t) BY <2>2, <3>2, <4>1
        <4> QED BY <3>2, <4>2, BooksEither
      <3> QED BY <2>3, <3>1, <3>2
    <2> QED BY <2>8 DEF y, l1
  <1>11. BucketKept(next, ad, re, ev, t) BY <1>1, <1>3, <1>4, <1>9, <1>10 DEF BucketKept
  <1>12. limiter = "bucket" BY DEF BucketInv
  <1> QED BY <1>2, <1>11, <1>12 DEF BucketInv
LEMMA BucketSound ==
  ASSUME BucketInv
  PROVE  LimiterSound
  <1> DEFINE t == tick
  <1>1. /\ limiter = "bucket" /\ t \in 0..TickMax /\ BucketsOK(recent, t) /\ Len(recent) <= MaxKeys
        /\ \A k \in LimitKey : Books(Level(recent, k, t), admitted[k], refused[k], k \in evicted, t)
    BY DEF BucketInv, BucketKept
  <1> HIDE DEF t
  <1>2. ASSUME NEW k \in LimitKey
        PROVE  /\ k \notin evicted => Len(admitted[k]) <= 2 * BucketLimit - 1
               /\ refused[k] > t => Len(admitted[k]) >= BucketLimit
               /\ refused[k] \in 0..t => Level(recent, k, t) >= WindowTicks
    <2> DEFINE v == Level(recent, k, t)
               lost == k \in evicted
    <2>1. Books(v, admitted[k], refused[k], lost, t) /\ t \in Nat BY <1>1
    <2> HIDE DEF v, lost
    <2>2. /\ ~lost => Len(admitted[k]) <= 2 * BucketLimit - 1
          /\ refused[k] > t => Len(admitted[k]) >= BucketLimit
          /\ refused[k] \in 0..t => v >= WindowTicks
      BY <2>1, BooksSound
    <2> QED BY <2>2 DEF v, lost
  <1>3. \A i \in DOMAIN recent : recent[i].level \in 0..FullLevel
    <2>1. recent \in Seq(Buckets) BY <1>1 DEF BucketsOK
    <2>2. \A i \in DOMAIN recent : recent[i] \in Buckets BY <2>1
    <2> QED BY <2>2 DEF Buckets
  <1> QED BY <1>1, <1>2, <1>3 DEF t, LimiterSound, LimitsTypeOK, BoundedInWindow, RefusesOnlySpent, WaitIsEnough, MayTake, Level

\* The fixed window.
Windows == [key : LimitKey, startedAt : 0..TickMax, count : Nat]
WindowsOK(m, t) == m \in Seq(Windows) /\ Functional(m) /\ \A e \in Entries(m) : e.startedAt <= t
Opened(key, t) == [key |-> key, startedAt |-> t, count |-> 0]
LEMMA OpenedIs ==
  ASSUME NEW t \in 0..TickMax, NEW key \in LimitKey
  PROVE  /\ Opened(key, t) \in Windows /\ Opened(key, t).key = key /\ Opened(key, t).startedAt = t /\ Opened(key, t).count = 0
         /\ IsLive(Opened(key, t), t)
  <1>1. /\ Opened(key, t) \in Windows /\ Opened(key, t).key = key
        /\ Opened(key, t).startedAt = t /\ Opened(key, t).count = 0
    BY DEF Opened, Windows
  <1>2. t + WindowTicks > t BY Constants
  <1> QED BY <1>1, <1>2 DEF IsLive
LEMMA WindowIs ==
  ASSUME NEW t \in 0..TickMax, NEW m, WindowsOK(m, t), NEW key \in LimitKey
  PROVE  /\ WindowNow(m, key, t) \in Windows /\ WindowNow(m, key, t).key = key
         /\ WindowNow(m, key, t).startedAt <= t /\ IsLive(WindowNow(m, key, t), t)
         /\ \A e \in Entries(m) : e.key = key /\ IsLive(e, t) => WindowNow(m, key, t) = e
         /\ (\A e \in Entries(m) : e.key = key => ~IsLive(e, t)) => WindowNow(m, key, t) = Opened(key, t)
  <1> DEFINE c == ForgetCold(m, Expired(m, t))
             fresh == Opened(key, t)
             held == Entry(c, key, fresh)
  <1>1. m \in Seq(Windows) /\ Functional(m) /\ \A e \in Entries(m) : e.startedAt <= t BY DEF WindowsOK
  <1>2. /\ c \in Seq(Windows)
        /\ \A e \in Entries(c) : e \in Entries(m)
        /\ \A i \in DOMAIN m : i \in Expired(m, t) \/ m[i] \in Entries(c)
    BY <1>1, Forgotten
  <1>3. WindowNow(m, key, t) = IF IsLive(held, t) THEN held ELSE fresh BY DEF WindowNow, Opened
  <1>4. fresh \in Windows /\ fresh.key = key /\ fresh.startedAt = t /\ IsLive(fresh, t) BY OpenedIs
  <1> HIDE DEF c, fresh
  <1>5. Functional(c) BY <1>1, <1>2 DEF Functional
  <1>6. CASE \E e \in Entries(m) : e.key = key /\ IsLive(e, t)
    <2>1. PICK e \in Entries(m) : e.key = key /\ IsLive(e, t) BY <1>6
    <2>2. e \in Windows /\ e.startedAt <= t BY <1>1, EntriesAre
    <2>3. \A f \in Entries(m) : f.key = key => f = e BY <1>1, <2>1 DEF Functional
    <2>4. PICK i \in DOMAIN m : e = m[i] BY <1>1, EntriesAre
    <2>5. i \notin Expired(m, t) BY <2>1, <2>4 DEF Expired
    <2>6. e \in Entries(c) BY <1>2, <2>4, <2>5
    <2>7. held = e BY <2>1, <2>6, <1>5, EntryIs
    <2>8. WindowNow(m, key, t) = e BY <1>3, <2>1, <2>7
    <2> QED BY <2>1, <2>2, <2>3, <2>8
  <1>7. CASE \A e \in Entries(m) : e.key = key => ~IsLive(e, t)
    <2>1. WindowNow(m, key, t) = fresh
      <3>1. CASE \E f \in Entries(c) : f.key = key
        <4>1. PICK f \in Entries(c) : f.key = key BY <3>1
        <4>2. held = f BY <4>1, <1>5, EntryIs
        <4>3. ~IsLive(f, t) BY <4>1, <1>2, <1>7
        <4> QED BY <4>2, <4>3, <1>3
      <3>2. CASE \A f \in Entries(c) : f.key # key
        <4>1. held = fresh BY <3>2, <1>5, EntryIs
        <4> QED BY <4>1, <1>3, <1>4
      <3> QED BY <3>1, <3>2
    <2>2. fresh.startedAt <= t BY <1>4
    <2> QED BY <1>4, <1>7, <2>1, <2>2 DEF fresh
  <1> QED BY <1>6, <1>7

\* A hit counts in its key's window; another key's is as it was, or was lost.
Raised(w) == [w EXCEPT !.count = IF @ > WindowLimit THEN @ ELSE @ + 1]
LEMMA RaisedIs ==
  ASSUME NEW w \in Windows
  PROVE  /\ Raised(w) \in Windows /\ Raised(w).key = w.key /\ Raised(w).startedAt = w.startedAt
         /\ Raised(w).count = IF w.count > WindowLimit THEN w.count ELSE w.count + 1
  <1> DEFINE n == IF w.count > WindowLimit THEN w.count ELSE w.count + 1
  <1>1. Raised(w) = [w EXCEPT !.count = n] BY DEF Raised
  <1>2. n \in Nat BY DEF Windows
  <1> HIDE DEF n
  <1>3. [w EXCEPT !.count = n] \in Windows /\ [w EXCEPT !.count = n].key = w.key
        /\ [w EXCEPT !.count = n].startedAt = w.startedAt /\ [w EXCEPT !.count = n].count = n
    BY <1>2 DEF Windows
  <1> QED BY <1>1, <1>3 DEF n
LEMMA CountedIs ==
  ASSUME NEW t \in 0..TickMax, NEW m, WindowsOK(m, t), NEW key \in LimitKey, NEW next, next = Counted(m, key, t)
  PROVE  /\ WindowsOK(next, t) /\ Len(next) <= MaxKeys
         /\ WindowNow(next, key, t) = Raised(WindowNow(m, key, t))
         /\ \A k \in LimitKey \ {key} :
              \/ WindowNow(next, k, t) = WindowNow(m, k, t)
              \/ WindowNow(next, k, t) = Opened(k, t) /\ k \in LostIn(m, next, Expired(m, t))
  <1> DEFINE c == ForgetCold(m, Expired(m, t))
             w == WindowNow(m, key, t)
             o == Raised(w)
  <1>1. m \in Seq(Windows) /\ Functional(m) /\ \A e \in Entries(m) : e.startedAt <= t BY DEF WindowsOK
  <1>2. /\ c \in Seq(Windows)
        /\ \A e \in Entries(c) : e \in Entries(m)
        /\ \A i \in DOMAIN m : i \in Expired(m, t) \/ m[i] \in Entries(c)
    BY <1>1, Forgotten
  <1>3. next = PutEntry(c, o) BY DEF Counted, Raised
  <1>4. w \in Windows /\ w.key = key /\ w.startedAt <= t /\ IsLive(w, t) BY WindowIs
  <1> HIDE DEF c, w
  <1>5. o \in Windows /\ o.key = key /\ o.startedAt <= t /\ IsLive(o, t) BY <1>4, RaisedIs DEF IsLive
  <1> HIDE DEF o
  <1>6. /\ next \in Seq(Windows) /\ Len(next) <= MaxKeys
        /\ o \in Entries(next)
        /\ \A e \in Entries(next) : e = o \/ (e \in Entries(c) /\ e.key # key)
    BY <1>2, <1>3, <1>5, PutIn
  <1>7. Functional(next) BY <1>1, <1>2, <1>5, <1>6 DEF Functional
  <1>8. \A e \in Entries(next) : e.startedAt <= t BY <1>1, <1>2, <1>5, <1>6
  <1>9. WindowsOK(next, t) BY <1>6, <1>7, <1>8 DEF WindowsOK
  <1>10. WindowNow(next, key, t) = o BY <1>5, <1>6, <1>9, WindowIs
  <1>11. ASSUME NEW k \in LimitKey \ {key}
         PROVE  \/ WindowNow(next, k, t) = WindowNow(m, k, t)
                \/ WindowNow(next, k, t) = Opened(k, t) /\ k \in LostIn(m, next, Expired(m, t))
    <2>1. CASE \E e \in Entries(next) : e.key = k /\ IsLive(e, t)
      <3>1. PICK e \in Entries(next) : e.key = k /\ IsLive(e, t) BY <2>1
      <3>2. e \in Entries(m) BY <3>1, <1>2, <1>5, <1>6
      <3>3. WindowNow(next, k, t) = e /\ WindowNow(m, k, t) = e BY <3>1, <3>2, <1>9, WindowIs
      <3> QED BY <3>3
    <2>2. CASE \A e \in Entries(next) : e.key = k => ~IsLive(e, t)
      <3>1. WindowNow(next, k, t) = Opened(k, t) BY <2>2, <1>9, WindowIs
      <3>2. CASE \A e \in Entries(m) : e.key = k => ~IsLive(e, t)
        <4>1. WindowNow(m, k, t) = Opened(k, t) BY <3>2, WindowIs
        <4> QED BY <3>1, <4>1
      <3>3. CASE \E e \in Entries(m) : e.key = k /\ IsLive(e, t)
        <4>1. PICK e \in Entries(m) : e.key = k /\ IsLive(e, t) BY <3>3
        <4>2. PICK i \in DOMAIN m : e = m[i] BY <1>1, EntriesAre
        <4>3. i \notin Expired(m, t) BY <4>1, <4>2 DEF Expired
        <4>4. k \in {m[j].key : j \in DOMAIN m \ Expired(m, t)} BY <4>1, <4>2, <4>3
        <4>5. CASE k \in KeysOf(next)
          <5>1. PICK f \in Entries(next) : f.key = k BY <4>5 DEF KeysOf, Entries
          <5>2. f \in Entries(m) BY <5>1, <1>2, <1>5, <1>6
          <5>3. f = e BY <5>1, <5>2, <4>1, <1>1 DEF Functional
          <5> QED BY <5>1, <5>3, <4>1, <2>2
        <4>6. CASE k \notin KeysOf(next) BY <4>4, <4>6, <3>1 DEF LostIn
        <4> QED BY <4>5, <4>6
      <3> QED BY <3>2, <3>3
    <2> QED BY <2>1, <2>2
  <1> QED BY <1>6, <1>9, <1>10, <1>11 DEF o, w
LEMMA WindowOn ==
  ASSUME NEW t \in 0..TickMax, t < TickMax, NEW m, WindowsOK(m, t), NEW k \in LimitKey
  PROVE  /\ WindowsOK(m, t + 1)
         /\ \/ WindowNow(m, k, t + 1) = WindowNow(m, k, t)
            \/ /\ WindowNow(m, k, t + 1) = Opened(k, t + 1)
               /\ WindowNow(m, k, t).count = 0 \/ WindowNow(m, k, t).startedAt + WindowTicks = t + 1
  <1> DEFINE u == t + 1
  <1>1. u \in 0..TickMax /\ t <= u BY LimitsAssumption
  <1>2. m \in Seq(Windows) /\ Functional(m) /\ \A e \in Entries(m) : e.startedAt <= t BY DEF WindowsOK
  <1>3. ASSUME NEW e \in Entries(m) PROVE e \in Windows /\ e.startedAt \in Nat
    <2>1. e \in Windows BY <1>2, EntriesAre
    <2> QED BY <2>1, LimitsAssumption DEF Windows
  <1>4. WindowsOK(m, u) BY <1>1, <1>2, <1>3 DEF WindowsOK
  <1>5. \A e \in Entries(m) : IsLive(e, t) => (IsLive(e, u) \/ e.startedAt + WindowTicks = u) BY <1>3, Constants DEF IsLive
  <1>6. \A e \in Entries(m) : IsLive(e, u) => IsLive(e, t) BY <1>3, Constants DEF IsLive
  <1>7. \/ WindowNow(m, k, u) = WindowNow(m, k, t)
        \/ /\ WindowNow(m, k, u) = Opened(k, u)
           /\ WindowNow(m, k, t).count = 0 \/ WindowNow(m, k, t).startedAt + WindowTicks = u
    <2> HIDE DEF u
    <2>1. CASE \E e \in Entries(m) : e.key = k /\ IsLive(e, u)
      <3>1. PICK e \in Entries(m) : e.key = k /\ IsLive(e, u) BY <2>1
      <3>2. WindowNow(m, k, u) = e BY <3>1, <1>1, <1>4, WindowIs
      <3>3. WindowNow(m, k, t) = e BY <3>1, <1>6, WindowIs
      <3> QED BY <3>2, <3>3
    <2>2. CASE \A e \in Entries(m) : e.key = k => ~IsLive(e, u)
      <3>1. WindowNow(m, k, u) = Opened(k, u) BY <2>2, <1>1, <1>4, WindowIs
      <3>2. CASE \E e \in Entries(m) : e.key = k /\ IsLive(e, t)
        <4>1. PICK e \in Entries(m) : e.key = k /\ IsLive(e, t) BY <3>2
        <4>2. WindowNow(m, k, t) = e BY <4>1, WindowIs
        <4> QED BY <3>1, <4>1, <4>2, <2>2, <1>5
      <3>3. CASE \A e \in Entries(m) : e.key = k => ~IsLive(e, t)
        <4>1. WindowNow(m, k, t) = Opened(k, t) BY <3>3, WindowIs
        <4>2. Opened(k, t).count = 0 BY OpenedIs
        <4> QED BY <3>1, <4>1, <4>2
      <3> QED BY <3>2, <3>3
    <2> QED BY <2>1, <2>2
  <1> QED BY <1>4, <1>7 DEF u

\* Of what was let through in a window of the clock, some was no later than
\* the current window's start, and the rest is what it counts.
HitsIn(w, A) ==
  \E d \in 0..Len(A) :
    /\ d <= WindowLimit /\ Len(A) - d <= w.count /\ Len(A) - d <= WindowLimit
    /\ \A i \in 1..d : A[i] <= w.startedAt
Page(w, A, r, lost, t) ==
  /\ w.startedAt \in Nat /\ w.count \in Nat /\ w.startedAt <= t /\ t < w.startedAt + WindowTicks
  /\ Dated(A, t) /\ r \in Nat \cup {-1}
  /\ ~lost => HitsIn(w, A)
  /\ r # -1 => (w.count = 0 \/ w.startedAt + WindowTicks <= r)
LEMMA PageEither ==
  ASSUME NEW t, NEW w, NEW A, NEW r, NEW lost, NEW other, Page(w, A, r, lost, t), lost => other
  PROVE  Page(w, A, r, other, t)
  BY DEF Page
LEMMA PageOpened ==
  ASSUME NEW t \in Nat, NEW key, NEW A, NEW r, NEW lost, Dated(A, t), r \in Nat \cup {-1},
         ~lost => Len(A) <= WindowLimit
  PROVE  Page(Opened(key, t), A, r, lost, t)
  <1> DEFINE w == Opened(key, t)
             n == Len(A)
  <1>1. w.startedAt = t /\ w.count = 0 BY DEF Opened
  <1> HIDE DEF w
  <1>2. n \in Nat /\ \A i \in 1..n : A[i] <= t BY DEF Dated
  <1>3. n <= WindowLimit => HitsIn(w, A)
    <2> SUFFICES ASSUME n <= WindowLimit PROVE HitsIn(w, A) OBVIOUS
    <2>1. n \in 0..n /\ n - n = 0 /\ 0 <= WindowLimit BY <1>2, LimitsAssumption
    <2> QED BY <2>1, <1>1, <1>2 DEF HitsIn
  <1> QED BY <1>1, <1>3, Constants DEF Page, w
LEMMA PageHit ==
  ASSUME NEW t \in Nat, NEW w, NEW A, NEW r, NEW lost, Page(w, A, r, lost, t), w.count < WindowLimit,
         NEW o, o.startedAt = w.startedAt, o.count = w.count + 1
  PROVE  Page(o, Append(A, t), -1, lost, t)
  <1> DEFINE n == Len(A)
             B == Append(A, t)
  <1>1. /\ w.startedAt \in Nat /\ w.count \in Nat /\ w.startedAt <= t /\ t < w.startedAt + WindowTicks /\ Dated(A, t)
        /\ ~lost => HitsIn(w, A)
    BY DEF Page
  <1>2. Dated(B, t) /\ Len(B) = n + 1 /\ n \in Nat /\ \A i \in 1..(n + 1) : B[i] = IF i = n + 1 THEN t ELSE A[i] BY <1>1, DatedMore
  <1> HIDE DEF B
  <1>3. ASSUME HitsIn(w, A) PROVE HitsIn(o, B)
    <2>1. PICK d \in 0..n :
            /\ d <= WindowLimit /\ n - d <= w.count /\ n - d <= WindowLimit
            /\ \A i \in 1..d : A[i] <= w.startedAt
      BY <1>3 DEF HitsIn
    <2> HIDE DEF n
    <2>2. d \in 0..(n + 1) /\ (n + 1) - d <= o.count /\ (n + 1) - d <= WindowLimit BY <2>1, <1>1, <1>2, LimitsAssumption
    <2>3. \A i \in 1..d : B[i] = A[i] BY <2>1, <1>2
    <2> QED BY <2>1, <2>2, <2>3, <1>2 DEF HitsIn
  <1> QED BY <1>1, <1>2, <1>3 DEF Page, B
LEMMA PageRefused ==
  ASSUME NEW t \in Nat, NEW w, NEW A, NEW r, NEW lost, Page(w, A, r, lost, t), ~(w.count < WindowLimit),
         NEW o, o.startedAt = w.startedAt, o.count \in Nat, o.count >= w.count
  PROVE  Page(o, A, t + (w.startedAt + (WindowTicks - t)), lost, t)
  <1>1. /\ w.startedAt \in Nat /\ w.count \in Nat /\ w.startedAt <= t /\ t < w.startedAt + WindowTicks /\ Dated(A, t)
        /\ ~lost => HitsIn(w, A)
    BY DEF Page
  <1> DEFINE q == t + (w.startedAt + (WindowTicks - t))
  <1>2. q = w.startedAt + WindowTicks /\ q \in Nat BY <1>1, Constants
  <1> HIDE DEF q
  <1>3. HitsIn(w, A) => HitsIn(o, A)
    <2> SUFFICES ASSUME HitsIn(w, A) PROVE HitsIn(o, A) OBVIOUS
    <2>1. Len(A) \in Nat BY <1>1 DEF Dated
    <2> QED BY <2>1, <1>1 DEF HitsIn
  <1>4. Page(o, A, q, lost, t) BY <1>1, <1>2, <1>3, Constants DEF Page
  <1> QED BY <1>4 DEF q
LEMMA PageTick ==
  ASSUME NEW t \in Nat, NEW w, NEW A, NEW r, NEW lost, Page(w, A, r, lost, t), NEW key, NEW o,
         \/ o = w /\ t + 1 < w.startedAt + WindowTicks
         \/ o = Opened(key, t + 1) /\ (w.count = 0 \/ w.startedAt + WindowTicks = t + 1)
  PROVE  Page(o, Since(A, (t + 1) - WindowTicks), r, lost, t + 1)
  <1> DEFINE W == WindowTicks
             n == Len(A)
             B == Since(A, (t + 1) - W)
  <1>1. /\ w.startedAt \in Nat /\ w.count \in Nat /\ w.startedAt <= t /\ t < w.startedAt + W /\ Dated(A, t)
        /\ r \in Nat \cup {-1}
        /\ ~lost => HitsIn(w, A)
        /\ r # -1 => (w.count = 0 \/ w.startedAt + W <= r)
    BY DEF Page
  <1>2. Dated(B, t + 1) BY <1>1, DatedOn
  <1>3. PICK e \in 0..n :
          /\ Len(B) = n - e
          /\ \A i \in 1..(n - e) : i + e \in 1..n /\ B[i] = A[i + e]
          /\ \A i \in 1..e : i \in 1..n /\ A[i] = (t + 1) - W
    <2>1. t \in Int OBVIOUS
    <2> HIDE DEF n
    <2> QED BY <2>1, <1>1, DatedOn DEF n
  <1>4. n \in Nat /\ \A i \in 1..n : A[i] \in Int BY <1>1 DEF Dated
  <1>6. \A i \in 1..(n - e) : B[i] > (t + 1) - W BY <1>2, <1>3 DEF Dated
  <1> HIDE DEF B
  <1>5. CASE o = w /\ t + 1 < w.startedAt + W
    <2>1. ASSUME HitsIn(w, A) PROVE HitsIn(o, B)
      <3>1. PICK d \in 0..n :
              /\ d <= WindowLimit /\ n - d <= w.count /\ n - d <= WindowLimit
              /\ \A i \in 1..d : A[i] <= w.startedAt
        BY <2>1 DEF HitsIn
      <3> HIDE DEF n
      <3> DEFINE c == IF d >= e THEN d - e ELSE 0
      <3>2. c \in 0..(n - e) /\ c <= WindowLimit /\ (n - e) - c <= w.count /\ (n - e) - c <= WindowLimit
        <4>1. d \in Int /\ e \in Int /\ n \in Int /\ w.count \in Int /\ WindowLimit \in Nat /\ 0 <= d /\ d <= n /\ 0 <= e /\ e <= n
          BY <1>1, <1>3, <1>4, LimitsAssumption
        <4>2. d <= WindowLimit /\ n - d <= w.count /\ n - d <= WindowLimit BY <3>1
        <4>3. CASE d >= e BY <4>1, <4>2, <4>3
        <4>4. CASE ~(d >= e) BY <4>1, <4>2, <4>4
        <4> QED BY <4>3, <4>4
      <3>3. ASSUME NEW i \in 1..c PROVE B[i] <= w.startedAt
        <4>1. i + e \in 1..d /\ i \in 1..(n - e) BY <3>1, <3>2, <1>3, <1>4
        <4> QED BY <4>1, <3>1, <1>3
      <3> HIDE DEF c
      <3> QED BY <3>2, <3>3, <1>3, <1>5 DEF HitsIn
    <2> QED BY <1>1, <1>2, <1>5, <2>1 DEF Page, B
  <1>7. CASE o = Opened(key, t + 1) /\ (w.count = 0 \/ w.startedAt + W = t + 1)
    <2>1. ASSUME HitsIn(w, A) PROVE Len(B) <= WindowLimit
      <3>1. PICK d \in 0..n :
              /\ d <= WindowLimit /\ n - d <= w.count /\ n - d <= WindowLimit
              /\ \A i \in 1..d : A[i] <= w.startedAt
        BY <2>1 DEF HitsIn
      <3> HIDE DEF n
      <3>2. CASE w.count = 0 BY <3>1, <3>2, <1>3, <1>4, LimitsAssumption
      <3>3. CASE w.startedAt + W = t + 1
        <4>1. e >= d
          <5> SUFFICES ASSUME e < d PROVE FALSE BY <3>1, <1>3, <1>4
          <5>1. d \in 1..d /\ d - e \in 1..(n - e) /\ (d - e) + e = d BY <3>1, <1>3, <1>4
          <5>2. B[d - e] = A[d] /\ B[d - e] > (t + 1) - W /\ A[d] <= w.startedAt BY <5>1, <3>1, <1>3, <1>6
          <5>3. (t + 1) - W = w.startedAt BY <3>3, <1>1, Constants
          <5>4. d \in 1..n BY <5>1, <3>1, <1>4
          <5> QED BY <5>2, <5>3, <5>4, <1>1, <1>4
        <4> QED BY <4>1, <3>1, <1>3, <1>4, LimitsAssumption
      <3> QED BY <3>2, <3>3, <1>7
    <2>2. t + 1 \in Nat OBVIOUS
    <2>3. Page(Opened(key, t + 1), B, r, lost, t + 1) BY <2>1, <2>2, <1>1, <1>2, PageOpened
    <2> QED BY <2>3, <1>7 DEF B
  <1> QED BY <1>5, <1>7
LEMMA PageSound ==
  ASSUME NEW t \in Nat, NEW w, NEW A, NEW r, NEW lost, Page(w, A, r, lost, t)
  PROVE  /\ ~lost => Len(A) <= 2 * WindowLimit
         /\ r \in 0..t => w.count < WindowLimit
  <1>1. /\ w.startedAt \in Nat /\ w.count \in Nat /\ w.startedAt <= t /\ t < w.startedAt + WindowTicks /\ Dated(A, t)
        /\ ~lost => HitsIn(w, A)
        /\ r # -1 => (w.count = 0 \/ w.startedAt + WindowTicks <= r)
    BY DEF Page
  <1>2. Len(A) \in Nat BY <1>1 DEF Dated
  <1>3. HitsIn(w, A) => Len(A) <= 2 * WindowLimit BY <1>2, LimitsAssumption DEF HitsIn
  <1>4. r \in 0..t => w.count = 0 BY <1>1, Constants
  <1> QED BY <1>1, <1>3, <1>4, LimitsAssumption

\* The window limiter.
WindowKept(m, ad, re, ev, t) ==
  /\ t \in 0..TickMax /\ WindowsOK(m, t) /\ Len(m) <= MaxKeys
  /\ DOMAIN ad = LimitKey /\ DOMAIN re = LimitKey
  /\ \A k \in LimitKey : Page(WindowNow(m, k, t), ad[k], re[k], k \in ev, t)
WindowInv == limiter = "window" /\ WindowKept(recent, admitted, refused, evicted, tick)
LEMMA WindowBegins ==
  ASSUME LimitsInit, limiter = "window"
  PROVE  WindowInv
  <1>1. /\ recent = <<>> /\ tick = 0 /\ evicted = {}
        /\ admitted = [k \in LimitKey |-> <<>>] /\ refused = [k \in LimitKey |-> -1]
    BY DEF LimitsInit
  <1>2. 0 \in 0..TickMax /\ Len(<<>>) <= MaxKeys BY LimitsAssumption
  <1>3. <<>> \in Seq(Windows) /\ Entries(<<>>) = {} BY DEF Entries
  <1>4. WindowsOK(<<>>, 0) BY <1>3 DEF WindowsOK, Functional
  <1>5. \A k \in LimitKey : WindowNow(<<>>, k, 0) = Opened(k, 0) BY <1>2, <1>3, <1>4, WindowIs
  <1>6. ASSUME NEW k \in LimitKey PROVE Page(WindowNow(<<>>, k, 0), <<>>, -1, k \in {}, 0)
    <2>1. Dated(<<>>, 0) /\ Len(<<>>) <= WindowLimit BY LimitsAssumption DEF Dated
    <2>2. Page(Opened(k, 0), <<>>, -1, FALSE, 0) BY <2>1, PageOpened
    <2>3. Page(WindowNow(<<>>, k, 0), <<>>, -1, FALSE, 0) BY <1>5, <2>2
    <2> QED BY <2>3, PageEither
  <1>7. WindowKept(<<>>, admitted, refused, {}, 0) BY <1>1, <1>2, <1>4, <1>6 DEF WindowKept
  <1> QED BY <1>1, <1>7 DEF WindowInv
LEMMA WindowTicksOn ==
  ASSUME WindowInv, Tick
  PROVE  WindowInv'
  <1> DEFINE t == tick
             ad == [k \in LimitKey |-> Since(admitted[k], (t + 1) - WindowTicks)]
  <1>1. /\ t \in 0..TickMax /\ WindowsOK(recent, t) /\ Len(recent) <= MaxKeys /\ DOMAIN refused = LimitKey
        /\ \A k \in LimitKey : Page(WindowNow(recent, k, t), admitted[k], refused[k], k \in evicted, t)
    BY DEF WindowInv, WindowKept
  <1>2. /\ t < TickMax /\ tick' = t + 1 /\ admitted' = ad /\ limiter' = limiter /\ recent' = recent
        /\ refused' = refused /\ evicted' = evicted
    BY DEF Tick
  <1> HIDE DEF t
  <1>3. t + 1 \in 0..TickMax /\ t \in Nat BY <1>1, <1>2, LimitsAssumption
  <1>4. ASSUME NEW k \in LimitKey PROVE Page(WindowNow(recent, k, t + 1), ad[k], refused[k], k \in evicted, t + 1)
    <2> DEFINE w == WindowNow(recent, k, t)
               o == WindowNow(recent, k, t + 1)
               lost == k \in evicted
    <2>1. /\ WindowsOK(recent, t + 1)
          /\ \/ o = w
             \/ o = Opened(k, t + 1) /\ (w.count = 0 \/ w.startedAt + WindowTicks = t + 1)
      BY <1>1, <1>2, WindowOn
    <2>2. Page(w, admitted[k], refused[k], lost, t) BY <1>1
    <2>3. ad[k] = Since(admitted[k], (t + 1) - WindowTicks) OBVIOUS
    <2>4. t + 1 < o.startedAt + WindowTicks
      <3>1. o \in Windows /\ IsLive(o, t + 1) BY <1>3, <2>1, WindowIs
      <3> HIDE DEF o
      <3>2. o.startedAt \in 0..TickMax BY <3>1 DEF Windows
      <3> QED BY <3>1, <3>2, <1>3, Constants DEF IsLive
    <2> HIDE DEF w, o, lost, ad
    <2>5. \/ o = w /\ t + 1 < w.startedAt + WindowTicks
          \/ o = Opened(k, t + 1) /\ (w.count = 0 \/ w.startedAt + WindowTicks = t + 1)
      BY <2>1, <2>4
    <2>6. Page(o, Since(admitted[k], (t + 1) - WindowTicks), refused[k], lost, t + 1) BY <2>2, <2>5, <1>3, PageTick
    <2> QED BY <2>3, <2>6 DEF o, lost
  <1>5. DOMAIN ad = LimitKey OBVIOUS
  <1> HIDE DEF ad
  <1>6. WindowsOK(recent, t + 1)
    <2>1. recent \in Seq(Windows) /\ Functional(recent) /\ \A e \in Entries(recent) : e.startedAt <= t BY <1>1 DEF WindowsOK
    <2>2. ASSUME NEW e \in Entries(recent) PROVE e.startedAt \in Nat
      <3>1. e \in Windows BY <2>1, EntriesAre
      <3> QED BY <3>1, LimitsAssumption DEF Windows
    <2>3. \A e \in Entries(recent) : e.startedAt <= t + 1 BY <2>1, <2>2, <1>3
    <2> QED BY <2>1, <2>3 DEF WindowsOK
  <1>7. WindowKept(recent, ad, refused, evicted, t + 1) BY <1>1, <1>3, <1>4, <1>5, <1>6 DEF WindowKept
  <1> QED BY <1>2, <1>7 DEF WindowInv
LEMMA WindowHits ==
  ASSUME WindowInv, NEW key \in LimitKey, Hit(key)
  PROVE  WindowInv'
  <1> DEFINE t == tick
             m == recent
             next == Counted(m, key, t)
             w == WindowNow(m, key, t)
             may == w.count < WindowLimit
             q == t + (w.startedAt + (WindowTicks - t))
             ev == evicted \cup LostIn(m, next, Expired(m, t))
             ad == [admitted EXCEPT ![key] = IF may THEN Append(@, t) ELSE @]
             re == [refused EXCEPT ![key] = IF may THEN -1 ELSE q]
  <1>1. /\ t \in 0..TickMax /\ WindowsOK(m, t) /\ DOMAIN admitted = LimitKey /\ DOMAIN refused = LimitKey
        /\ \A k \in LimitKey : Page(WindowNow(m, k, t), admitted[k], refused[k], k \in evicted, t)
    BY DEF WindowInv, WindowKept
  <1>2. /\ tick' = t /\ limiter' = limiter /\ recent' = next /\ evicted' = ev /\ admitted' = ad /\ refused' = re
    BY DEF Hit, LimitAnswered, Dropped, LostIn, MayHit, WindowWait
  <1>3. /\ WindowsOK(next, t) /\ Len(next) <= MaxKeys
        /\ WindowNow(next, key, t) = Raised(w)
        /\ \A k \in LimitKey \ {key} :
              \/ WindowNow(next, k, t) = WindowNow(m, k, t)
              \/ WindowNow(next, k, t) = Opened(k, t) /\ k \in LostIn(m, next, Expired(m, t))
    BY <1>1, CountedIs
  <1>4. DOMAIN ad = LimitKey /\ DOMAIN re = LimitKey /\ \A k \in LimitKey \ {key} : ad[k] = admitted[k] /\ re[k] = refused[k] BY <1>1
  <1>5. ad[key] = (IF may THEN Append(admitted[key], t) ELSE admitted[key]) /\ re[key] = (IF may THEN -1 ELSE q)
    BY <1>1
  <1>6. t \in Nat BY <1>1
  <1>7. \A k \in LimitKey : k \in evicted => k \in ev OBVIOUS
  <1>8. \A k \in LostIn(m, next, Expired(m, t)) : k \in ev OBVIOUS
  <1>9. w \in Windows BY <1>1, WindowIs
  <1> DEFINE o == WindowNow(next, key, t)
             lk == key \in ev
  <1> HIDE DEF ad, re, next, ev, t, m
  <1>10. Page(o, ad[key], re[key], lk, t)
    <2> DEFINE l0 == key \in evicted
    <2>1. Page(w, admitted[key], refused[key], l0, t) BY <1>1
    <2>2. o = Raised(w) BY <1>3
    <2>3. q = t + (w.startedAt + (WindowTicks - t)) OBVIOUS
    <2> HIDE DEF w, o, l0, lk, q
    <2>4. /\ o.startedAt = w.startedAt /\ w.count \in Nat
          /\ o.count = IF w.count > WindowLimit THEN w.count ELSE w.count + 1
      BY <1>9, <2>2, RaisedIs DEF Windows
    <2>5. Page(o, ad[key], re[key], l0, t)
      <3>1. CASE w.count < WindowLimit
        <4>1. o.count = w.count + 1 BY <2>4, <3>1, LimitsAssumption
        <4>2. Page(o, Append(admitted[key], t), -1, l0, t) BY <3>1, <4>1, <1>6, <2>1, <2>4, PageHit
        <4> QED BY <3>1, <4>2, <1>5
      <3>2. CASE ~(w.count < WindowLimit)
        <4>1. o.count \in Nat /\ o.count >= w.count BY <2>4
        <4>2. Page(o, admitted[key], q, l0, t) BY <3>2, <4>1, <1>6, <2>1, <2>3, <2>4, PageRefused
        <4> QED BY <3>2, <4>2, <1>5
      <3> QED BY <3>1, <3>2
    <2>6. l0 => lk BY <1>7 DEF lk, l0
    <2> QED BY <2>5, <2>6, PageEither
  <1>11. ASSUME NEW k \in LimitKey, k # key PROVE Page(WindowNow(next, k, t), ad[k], re[k], k \in ev, t)
    <2> DEFINE x == WindowNow(m, k, t)
               y == WindowNow(next, k, t)
               l0 == k \in evicted
               l1 == k \in ev
    <2>1. Page(x, admitted[k], refused[k], l0, t) BY <1>1
    <2>2. ad[k] = admitted[k] /\ re[k] = refused[k] BY <1>4, <1>11
    <2>3. y = x \/ (y = Opened(k, t) /\ l1) BY <1>3, <1>8, <1>11
    <2>4. l0 => l1 BY <1>7
    <2> HIDE DEF x, y, l0, l1
    <2>5. Page(y, ad[k], re[k], l1, t)
      <3>1. CASE y = x
        <4>1. Page(y, ad[k], re[k], l0, t) BY <2>1, <2>2, <3>1
        <4> QED BY <4>1, <2>4, PageEither
      <3>2. CASE y = Opened(k, t) /\ l1
        <4>1. Dated(admitted[k], t) /\ refused[k] \in Nat \cup {-1} BY <2>1 DEF Page
        <4>2. Page(Opened(k, t), admitted[k], refused[k], TRUE, t) BY <4>1, <1>6, PageOpened
        <4>3. Page(y, ad[k], re[k], TRUE, t) BY <2>2, <3>2, <4>2
        <4> QED BY <3>2, <4>3, PageEither
      <3> QED BY <2>3, <3>1, <3>2
    <2> QED BY <2>5 DEF y, l1
  <1>12. WindowKept(next, ad, re, ev, t) BY <1>1, <1>3, <1>4, <1>10, <1>11 DEF WindowKept
  <1>13. limiter = "window" BY DEF WindowInv
  <1> QED BY <1>2, <1>12, <1>13 DEF WindowInv
LEMMA WindowSound ==
  ASSUME WindowInv
  PROVE  LimiterSound
  <1> DEFINE t == tick
  <1>1. /\ limiter = "window" /\ t \in 0..TickMax /\ Len(recent) <= MaxKeys
        /\ \A k \in LimitKey : Page(WindowNow(recent, k, t), admitted[k], refused[k], k \in evicted, t)
    BY DEF WindowInv, WindowKept
  <1> HIDE DEF t
  <1>2. ASSUME NEW k \in LimitKey
        PROVE  /\ k \notin evicted => Len(admitted[k]) <= 2 * WindowLimit
               /\ refused[k] \in 0..t => WindowNow(recent, k, t).count < WindowLimit
    <2> DEFINE w == WindowNow(recent, k, t)
               lost == k \in evicted
    <2>1. Page(w, admitted[k], refused[k], lost, t) /\ t \in Nat BY <1>1
    <2> HIDE DEF w, lost
    <2>2. /\ ~lost => Len(admitted[k]) <= 2 * WindowLimit
          /\ refused[k] \in 0..t => w.count < WindowLimit
      BY <2>1, PageSound
    <2> QED BY <2>2 DEF w, lost
  <1> QED BY <1>1, <1>2 DEF t, LimiterSound, LimitsTypeOK, BoundedInWindow, RefusesOnlySpent, WaitIsEnough, MayHit

(* The bounds of both limiters hold whatever keys come and go, whatever the map forgets or drops of them, and however  *)
(* the clock and the calls interleave: no key gets more than its limits in a window unless its entry was dropped for   *)
(* room, none is refused that had not had a limit's worth, and waiting as long as the refusal says is enough           *)
(* (RateLimiter and FixedWindowLimiter of src/net/rate-limit.ts).                                                      *)
THEOREM LimitersSound == LimitsSpec => []LimiterSound
  <1> DEFINE Inv == BucketInv \/ WindowInv
  <1>1. LimitsInit => Inv BY BucketBegins, WindowBegins DEF LimitsInit
  <1>2. ASSUME Inv, [LimitsNext]_limitVars PROVE Inv'
    <2>1. CASE Tick
      <3>1. CASE BucketInv BY <2>1, <3>1, BucketTicks
      <3>2. CASE WindowInv BY <2>1, <3>2, WindowTicksOn
      <3> QED BY <3>1, <3>2, <1>2
    <2>2. ASSUME NEW k \in LimitKey, Take(k) PROVE Inv'
      <3>1. limiter = "bucket" BY <2>2 DEF Take
      <3>2. BucketInv BY <3>1, <1>2 DEF WindowInv
      <3> QED BY <2>2, <3>2, BucketTakes
    <2>3. ASSUME NEW k \in LimitKey, Hit(k) PROVE Inv'
      <3>1. limiter = "window" BY <2>3 DEF Hit
      <3>2. WindowInv BY <3>1, <1>2 DEF BucketInv
      <3> QED BY <2>3, <3>2, WindowHits
    <2>4. CASE UNCHANGED limitVars BY <2>4, <1>2 DEF limitVars, BucketInv, WindowInv
    <2> QED BY <2>1, <2>2, <2>3, <2>4, <1>2 DEF LimitsNext
  <1>3. Inv => LimiterSound BY BucketSound, WindowSound
  <1> HIDE DEF Inv
  <1> QED BY <1>1, <1>2, <1>3, PTL DEF LimitsSpec
=============================================================================
