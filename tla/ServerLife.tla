------------------------------- MODULE ServerLife -------------------------------
(***************************************************************************)
(* One vaultgate process after another over one data directory             *)
(* (src/main.ts, src/config, src/storage/{index,migrate,database}.ts,      *)
(* src/http/app.ts): what a start needs, the migrations of the release it  *)
(* runs, the listener, and a shutdown that lets requests end before the    *)
(* vault and the store go.  Any release may be started over the directory  *)
(* another one left, and a process may be killed at every step.            *)
(***************************************************************************)
EXTENDS Integers, FiniteSets, Sequences, TLC

CONSTANTS
  Releases,      \* the migrations of each release, in order, by checksum
  Environment,  \* configurations that may be tried
  WebRequest,   \* requests to the listener, by slot
  StartMax      \* bound: starts
ASSUME LifeBounds == StartMax \in Nat
ASSUME ReleaseAssumption == \A r \in Releases : r \in Seq({r[i] : i \in DOMAIN r}) /\ Len(r) > 0
ASSUME EnvironmentAssumption ==
  \A e \in Environment :
    /\ e.code \in {"unset", "inside", "outside"} /\ e.listen \in {"unset", "one", "outside"}
    /\ e.codeOn \in BOOLEAN /\ e.tags \in BOOLEAN /\ e.scoped \in BOOLEAN

VARIABLES
  directory,     \* what is committed: the schema itself, and the rows of schema_migrations
  written,  \* the open transaction
  life,     \* the process
  web       \* the requests being answered
lifeVars == <<directory, written, life, web>>

NoProcess(starts) == [at |-> "off", starts |-> starts]
NoTransaction == [open |-> FALSE]
LifeInit ==
  /\ directory = [schema |-> <<>>, registry |-> <<>>] /\ written = NoTransaction
  /\ life = NoProcess(0) /\ web = {}

-----------------------------------------------------------------------------
(* The environment: fields on their own, then the rules across them. *)
FieldIssues(e) ==
  {v \in {"key", "url", "file"} : e[v] = "bad"}
    \cup {v \in {"code", "listen"} : e[v] = "outside"}   \* a sidecar across the internet, a wildcard bind
CrossIssues(e) ==
  (IF e.codeOn /\ e.code = "unset" THEN {"code"} ELSE {})
    \cup (IF e.listen # "unset" /\ ~e.tags THEN {"tags"} ELSE {})
    \cup (IF e.listen # "unset" /\ ~e.scoped THEN {"collections"} ELSE {})
Issues(e) == IF FieldIssues(e) # {} THEN FieldIssues(e) ELSE CrossIssues(e)

(* Why a release does not run on what the directory holds. *)
IsContinuedByLength(registry, release) == Len(registry) <= Len(release)
IsContinued(registry, release) ==
  Len(registry) <= Len(release) /\ \A i \in 1..Len(registry) : registry[i] = release[i]

-----------------------------------------------------------------------------
(* Starting. *)
LifeAt(step) == life' = [life EXCEPT !.at = step]
Exit == life' = NoProcess(life.starts) /\ web' = {} /\ written' = NoTransaction /\ UNCHANGED directory
LoadConfig ==
  /\ life.at = "off" /\ life.starts < StartMax /\ UNCHANGED <<directory, written, web>>
  /\ \E release \in Releases, e \in Environment :
       life' = IF Issues(e) # {} THEN NoProcess(life.starts + 1)
               ELSE [at |-> "opening", starts |-> life.starts + 1, release |-> release, runs |-> e,
                     store |-> "closed", vault |-> "none", ready |-> FALSE]
OpenStore == life.at = "opening" /\ life' = [life EXCEPT !.at = "migrating", !.store = "open"] /\ UNCHANGED <<directory, written, web>>
OpenFails == life.at = "opening" /\ Exit
RefusesStart == life.at = "migrating" /\ ~written.open /\ ~IsContinued(directory.registry, life.release) /\ Exit
(* apply(): the migration's SQL and its row in schema_migrations, in one transaction. *)
NextMigration == life.release[Len(directory.registry) + 1]
IsPending == IsContinued(directory.registry, life.release) /\ Len(directory.registry) < Len(life.release)
ApplySqlAutocommit ==
  /\ life.at = "migrating" /\ ~written.open /\ IsPending
  /\ directory' = [directory EXCEPT !.schema = Append(@, NextMigration)] /\ written' = [open |-> TRUE, disk |-> directory']
  /\ UNCHANGED <<life, web>>
ApplySql ==
  /\ life.at = "migrating" /\ ~written.open /\ IsPending
  /\ written' = [open |-> TRUE, disk |-> [directory EXCEPT !.schema = Append(@, NextMigration)]]
  /\ UNCHANGED <<directory, life, web>>
ApplyRow ==
  /\ written.open /\ written.disk.registry = directory.registry
  /\ written' = [written EXCEPT !.disk.registry = Append(@, NextMigration)]
  /\ UNCHANGED <<directory, life, web>>
CommitMigration ==
  /\ written.open /\ written.disk.registry # directory.registry
  /\ directory' = written.disk /\ written' = NoTransaction /\ UNCHANGED <<life, web>>
(* The migration's SQL fails: rolled back, and the exception ends the process. *)
ApplyFails == written.open /\ Exit
Migrated ==
  /\ life.at = "migrating" /\ ~written.open /\ ~IsPending /\ IsContinued(directory.registry, life.release)
  /\ life' = [life EXCEPT !.at = "starting", !.vault = "started"] /\ UNCHANGED <<directory, written, web>>
(* A pre-registered client the authorization server refuses. *)
ClientsRefused == life.at = "starting" /\ Exit
Listen == life.at = "starting" /\ LifeAt("serving") /\ UNCHANGED <<directory, written, web>>

-----------------------------------------------------------------------------
(* Serving. *)
VaultTurns ==
  /\ life.at \in {"starting", "serving", "draining"} /\ UNCHANGED <<directory, written, web>>
  /\ life.vault = "started" /\ life' = [life EXCEPT !.ready = ~@]
RequestArrives(w) ==
  /\ life.at = "serving" /\ w \notin web
  /\ web' = web \cup {w} /\ UNCHANGED <<directory, written, life>>
RequestAnswered(w) == w \in web /\ web' = web \ {w} /\ UNCHANGED <<directory, written, life>>

(* Stopping: SIGTERM or SIGINT closes the listeners; server.close calls back once every request has been answered. *)
StopListening == life.at = "serving" /\ LifeAt("draining") /\ UNCHANGED <<directory, written, web>>
IsDrainedAtOnce == TRUE
IsDrainedReady == web = {} /\ life.ready
IsDrained == web = {}
StopVault ==
  /\ life.at = "draining" /\ IsDrained
  /\ life' = [life EXCEPT !.at = "stopping", !.vault = "stopped", !.ready = FALSE] /\ UNCHANGED <<directory, written, web>>
CloseStore ==
  /\ life.at = "stopping" /\ life.store = "open"
  /\ life' = [life EXCEPT !.store = "closed"] /\ UNCHANGED <<directory, written, web>>
Stopped == life.at = "stopping" /\ life.store = "closed" /\ Exit
(* Killed, at any step: by a second signal of the same kind, by the platform, or by an exception nobody handles. *)
Killed == life.at # "off" /\ Exit

LifeStep ==
  \/ OpenStore \/ RefusesStart \/ ApplySql \/ ApplyRow \/ CommitMigration \/ Migrated \/ Listen
  \/ StopVault \/ CloseStore \/ Stopped
LifeNext ==
  \/ LoadConfig \/ OpenFails \/ ApplyFails \/ ClientsRefused \/ VaultTurns \/ StopListening \/ Killed \/ LifeStep
  \/ \E w \in WebRequest : RequestArrives(w) \/ RequestAnswered(w)
LifeSpec == LifeInit /\ [][LifeNext]_lifeVars
LifeFairness == WF_lifeVars(LifeStep) /\ \A w \in WebRequest : WF_lifeVars(RequestAnswered(w))

-----------------------------------------------------------------------------
LifeTypeOK ==
  /\ life.at \in {"off", "opening", "migrating", "starting", "serving", "draining", "stopping"}
  /\ life.starts \in 0..StartMax /\ web \subseteq WebRequest
(* A crash between two statements never leaves a schema that schema_migrations does not tell of. *)
RegistryTells == directory.schema = directory.registry
(* A release serves on its own migrations and no others, whatever ran over the directory before (STORE-3, OPS-8). *)
ServesItsSchema ==
  life.at \in {"starting", "serving", "draining", "stopping"} => directory.registry = life.release
(* A request that is being answered has its store and its vault: a shutdown takes them only afterwards. *)
RequestsKeepTheirs ==
  web # {} => life.at \in {"serving", "draining"} /\ life.store = "open" /\ life.vault = "started"
(* What runs was configured whole: a relay with nobody to admit or nothing to give never listens, nor one on every network. *)
RunsConfigured ==
  life.at = "serving" =>
    /\ life.runs.listen # "outside" /\ (life.runs.listen # "unset" => life.runs.tags /\ life.runs.scoped)
    /\ life.runs.codeOn => life.runs.code = "inside"
LifeSafe == LifeTypeOK /\ RegistryTells /\ ServesItsSchema /\ RequestsKeepTheirs /\ RunsConfigured

(* A signalled process ends, once its requests have been answered. *)
ShutdownEnds == [](life.at = "draining" => <>(life.at = "off"))
=============================================================================
