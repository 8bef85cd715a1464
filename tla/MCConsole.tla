------------------------------ MODULE MCConsole ------------------------------
(* What the operator does in the console - the setup, logging in, choosing  *)
(* the vault's connection and syncing it, reading the audit trail - each on *)
(* a small instance: "part" is the one that runs, the others rest at one of *)
(* their initial states.                                                    *)
EXTENDS Bootstrap, OperatorLogin, VaultSync, VaultConnection, AuditTrail, TLC

VARIABLE part
consoleVars == <<part, setupVars, vars, runnerVars, connectionVars, trailVars>>

ConsoleInit ==
  /\ part \in {"setup", "login", "sync", "connection", "trail"}
  /\ SetupInit /\ Init /\ SyncInit /\ ConnectionInit /\ TrailInit
  /\ part # "login" =>
       /\ ~operator.weak /\ chosen = CHOOSE p \in Password : TRUE
       /\ operator.secret = CHOOSE s \in Secret : TRUE
       /\ unused = {CHOOSE c \in RecoveryCode : TRUE}
  /\ part # "connection" => seed = NoAccount
ConsoleNext ==
  /\ UNCHANGED part
  /\ \/ part = "setup" /\ SetupNext /\ UNCHANGED <<vars, runnerVars, connectionVars, trailVars>>
     \/ part = "login" /\ Next /\ UNCHANGED <<setupVars, runnerVars, connectionVars, trailVars>>
     \/ part = "sync" /\ SyncNext /\ UNCHANGED <<setupVars, vars, connectionVars, trailVars>>
     \/ part = "connection" /\ ConnectionNext /\ UNCHANGED <<setupVars, vars, runnerVars, trailVars>>
     \/ part = "trail" /\ TrailNext /\ UNCHANGED <<setupVars, vars, runnerVars, connectionVars>>
ConsoleSpec == ConsoleInit /\ [][ConsoleNext]_consoleVars

(* VAULT-8, 9, 17 and connection.ts: one schedule while the vault is served, syncs about the child they were asked of; *)
(* and what is stored is what runs, in a directory that is logged in to no other account.                              *)
VaultSound == SyncOwned /\ OneSchedule /\ ConnectionKept /\ OldSessionUnused

(* Requests are alike, and so are the sessions they open. *)
Symmetry == Permutations(Request) \cup Permutations(Session)
=============================================================================
