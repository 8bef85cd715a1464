----------------------------- MODULE MCWorkEnds -----------------------------
(* Whoever waits on the vault, the engine or the sidecar is answered: a     *)
(* sync, a call on an item, a build of an index, a call of the engine, a    *)
(* request to the sidecar.  Each on an instance small enough for liveness,  *)
(* without symmetry: "part" is the one that runs, the others rest at one of *)
(* their initial states, where nothing that fairness asks for can happen.   *)
EXTENDS VaultSync, VaultItems, BuildFlight, ActionCalls, CodeSidecar, TLC

CONSTANTS n1, n2, k1, policy1, policy2
VARIABLE part

Scopes == "plain" :> {"read", "write", "generate"} @@ "trusted" :> {"read", "write", "reveal"}
FirstFields == <<[name |-> "token", kind |-> "hidden", value |-> "sealed"], [name |-> "note", kind |-> "text", value |-> "shown"]>>
Patches == {
  [password |-> "generate", renamed |-> FALSE, set |-> Missing, rename |-> Missing, remove |-> Missing],
  [password |-> "none", renamed |-> FALSE, set |-> Missing, rename |-> [from |-> "token", to |-> "note"], remove |-> Missing]}

ARequest(ns, op) == [client |-> k1, names |-> ns, op |-> op]
SomeRequests == {ARequest(<<n1>>, "write"), ARequest(<<n1, n2>>, "read")}
FirstTargets == [name : {n1, n2}, enabled : {TRUE}, docs : {policy1}]
Permitted == [d \in Docs |-> IF d = policy1 THEN {"read", "write"} ELSE {"read"}]

EndsInit ==
  /\ part \in {"sync", "items", "builds", "calls", "sidecar"}
  /\ IF part = "sidecar" THEN TRUE ELSE lru = <<>> /\ disk = [k \in SKey |-> None]
  /\ indexed = {}
  /\ SyncInit /\ ItemsInit /\ FlightsInit /\ CallsInit /\ SidecarInit

(* What the run leaves out: once every call was made, no grant is given or revoked any more, as nothing reads it, and  *)
(* once they are over the targets stay; and of two requests to the sidecar, which are alike, the first named queries   *)
(* only when both do and the other puts only when both do.  It starts with no index on disk.                           *)
GrantsInTime == (\A c \in Calls : call[c].at # "idle") => grant' = grant \/ target' # target
TargetsInTime == (\A c \in Calls : call[c].at \in {"ended", "cut"}) => UNCHANGED targetVars

Ranked ==
  LET one == CHOOSE r \in Req : TRUE IN
  \A r \in Req \ {one} :
    /\ req'[r].op = "put" => req'[one].op \in {"none", "put"}
    /\ req'[one].op = "query" => req'[r].op \in {"none", "query"}

SyncGoes == part = "sync" /\ SyncNext /\ UNCHANGED <<itemVars, flightVars, vars, sidecarVars>>
ItemsGo == part = "items" /\ ItemsNext /\ UNCHANGED <<runnerVars, flightVars, vars, sidecarVars>>
BuildsGo == part = "builds" /\ FlightsNext /\ UNCHANGED <<runnerVars, itemVars, vars, sidecarVars>>
CallsGo == part = "calls" /\ CallsNext /\ GrantsInTime /\ TargetsInTime /\ UNCHANGED <<runnerVars, itemVars, flightVars, sidecarVars>>
SidecarGoes == part = "sidecar" /\ SidecarNext /\ Ranked /\ UNCHANGED <<runnerVars, itemVars, flightVars, vars>>
EndsNext == UNCHANGED part /\ (SyncGoes \/ ItemsGo \/ BuildsGo \/ CallsGo \/ SidecarGoes)
EndsSpec ==
  /\ EndsInit /\ [][EndsNext]_<<part, runnerVars, itemVars, flightVars, vars, sidecarVars>>
  /\ Fairness /\ ItemFairness /\ FlightsFairness /\ CallsFairness /\ SidecarFairness

(* Syncs, calls on items, builds, calls of tools and requests to the sidecar all end, although the vault may time out,  *)
(* a connector may never come back and a build may fail.                                                               *)
WorkEnds == SyncAnswered /\ ItemCallsEnd /\ EveryBuildEnds /\ CallsEnd /\ RequestsEnd
=============================================================================
