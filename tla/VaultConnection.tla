----------------------------- MODULE VaultConnection -----------------------------
(***************************************************************************)
(* The vault connection across restarts: "save then switch" of             *)
(* src/src/bitwarden/connection.ts, the stored row of settings.ts, and the *)
(* choice of credentials at boot (credential-source.ts), over the backend  *)
(* that VaultLifecycle promises and VaultSupervisor implements.            *)
(*                                                                         *)
(* What outlives a process is the row and the app-data directories bw/<n>, *)
(* each logged in to an account or to none; generation numbers, and so     *)
(* directories, start over with every process.                             *)
(***************************************************************************)
EXTENDS Naturals

CONSTANTS
    Accounts, NoAccount,
    MaxGenerations,    \* bound: generations of one process
    DiesSwitching      \* whether a process may end in the middle of a switch

ASSUME ConnectionAssumption ==
    /\ NoAccount \notin Accounts
    /\ MaxGenerations \in Nat \ {0}
    /\ DiesSwitching \in BOOLEAN

VARIABLES
    row,         \* the stored connection, or none
    seed,        \* the environment's, or none
    session,     \* what each directory is logged in to
    isUp,        \* the process runs
    names,       \* what each generation's credentials name
    created,     \* generations of this process
    step,        \* of configure(): "idle", "halting", "starting", "cleaning"
    wanted,      \* ... what it was asked for
    replaced,    \* ... and the row it replaced
    leftover,    \* ... and the generation it has yet to clean up after
    inForce, trying, retired, serving    \* the backend

Generations == 1..MaxGenerations
Connection == Accounts \cup {NoAccount}

Backend == INSTANCE VaultLifecycle WITH Connections <- Generations

backendVars == <<inForce, trying, retired, serving>>
processVars == <<isUp, names, created, step, wanted, replaced, leftover>>
connectionVars == <<row, seed, session, processVars, backendVars>>

ConnectionTypeOK ==
    /\ row \in Connection /\ seed \in Connection
    /\ session \in [Generations -> Connection]
    /\ isUp \in BOOLEAN
    /\ names \in [Generations -> Connection]
    /\ created \in 0..MaxGenerations
    /\ step \in {"idle", "halting", "starting", "cleaning"}
    /\ wanted \in Connection /\ replaced \in Connection
    /\ leftover \in 0..MaxGenerations
    /\ inForce \in 0..MaxGenerations /\ trying \in 0..MaxGenerations
    /\ retired \subseteq Generations /\ serving \in BOOLEAN

IsConfiguring == step # "idle"

Removed(d) == [session EXCEPT ![d] = NoAccount]

\* ensureLoggedIn: a directory that is logged in, to whatever, is used as is.
LoggedIn(d) ==
    [session EXCEPT ![d] = IF session[d] = NoAccount THEN names[d] ELSE session[d]]

\* resolveCredentials: the stored connection, else the seed, else nothing.
Resolved == IF row # NoAccount THEN row ELSE seed

\* A process starts; what is configured becomes generation 1.
BootWith(a) ==
    /\ ~isUp
    /\ isUp' = TRUE
    /\ inForce' = IF a = NoAccount THEN 0 ELSE 1
    /\ created' = inForce'
    /\ names' = [g \in Generations |-> IF g = inForce' THEN a ELSE NoAccount]
    /\ UNCHANGED <<row, seed, session, step, wanted, replaced, leftover,
                   trying, retired, serving>>

Boot == BootWith(Resolved)

\* The generation in force comes up in its directory.
Serve ==
    /\ isUp /\ ~IsConfiguring /\ ~serving
    /\ Backend!Up
    /\ session' = LoggedIn(inForce)
    /\ UNCHANGED <<row, seed, processVars>>

\* It crashes; the restart loop will bring it up again.
Fall ==
    /\ isUp /\ serving
    /\ Backend!Down
    /\ UNCHANGED <<row, seed, session, processVars>>

\* configure(), up to the backend's first await: the row is replaced, and the
\* backend begins to halt.  A call that finds another in progress puts the row
\* back before anything else runs, and changes nothing.
Configure(a) ==
    /\ isUp /\ ~IsConfiguring
    /\ created < MaxGenerations
    /\ row' = a /\ replaced' = row /\ wanted' = a
    /\ step' = "halting"
    /\ Backend!Down
    /\ UNCHANGED <<seed, session, isUp, names, created, leftover>>

\* Mutant: what an earlier process left under the number is kept.
TryKeeping ==
    /\ step = "halting" /\ step' = "starting"
    /\ created' = created + 1
    /\ Backend!Try(created')
    /\ names' = [names EXCEPT ![created'] = wanted]
    /\ UNCHANGED <<row, seed, session, isUp, wanted, replaced, leftover>>

\* The next generation, in a directory emptied first.
Try ==
    /\ step = "halting" /\ step' = "starting"
    /\ created' = created + 1
    /\ Backend!Try(created')
    /\ names' = [names EXCEPT ![created'] = wanted]
    /\ session' = Removed(created')
    /\ UNCHANGED <<row, seed, isUp, wanted, replaced, leftover>>

LogIn ==
    /\ step = "starting"
    /\ session' = LoggedIn(trying)
    /\ session' # session
    /\ UNCHANGED <<row, seed, processVars, backendVars>>

\* It is up: from here on the old one is only cleaned up.
Adopt ==
    /\ step = "starting" /\ step' = "cleaning"
    /\ session[trying] # NoAccount
    /\ leftover' = inForce
    /\ Backend!Adopt /\ ~serving'
    /\ UNCHANGED <<row, seed, session, isUp, names, created, wanted, replaced>>

\* The old one's directory is gone, and configure() returns.
Clean ==
    /\ step = "cleaning" /\ step' = "idle"
    /\ session' = IF leftover = 0 THEN session ELSE Removed(leftover)
    /\ leftover' = 0 /\ wanted' = NoAccount /\ replaced' = NoAccount
    /\ UNCHANGED <<row, seed, isUp, names, created, backendVars>>

\* Mutant: the row is left as saved.
GiveUpKeepingRow ==
    /\ step = "starting" /\ step' = "idle"
    /\ Backend!GiveUp
    /\ session' = Removed(trying)
    /\ wanted' = NoAccount /\ replaced' = NoAccount
    /\ UNCHANGED <<row, seed, isUp, names, created, leftover>>

\* The switch failed: its directory is removed and the row put back.
GiveUp ==
    /\ step = "starting" /\ step' = "idle"
    /\ Backend!GiveUp
    /\ session' = Removed(trying)
    /\ row' = replaced
    /\ wanted' = NoAccount /\ replaced' = NoAccount
    /\ UNCHANGED <<seed, isUp, names, created, leftover>>

\* The process ends: on its own terms, or killed.
End ==
    /\ isUp
    /\ IsConfiguring => DiesSwitching
    /\ isUp' = FALSE
    /\ names' = [g \in Generations |-> NoAccount] /\ created' = 0
    /\ step' = "idle"
    /\ wanted' = NoAccount /\ replaced' = NoAccount /\ leftover' = 0
    /\ inForce' = 0 /\ trying' = 0 /\ retired' = {} /\ serving' = FALSE
    /\ UNCHANGED <<row, seed, session>>

ConnectionInit ==
    /\ row = NoAccount /\ seed \in Connection
    /\ session = [g \in Generations |-> NoAccount]
    /\ isUp = FALSE
    /\ names = [g \in Generations |-> NoAccount] /\ created = 0
    /\ step = "idle" /\ wanted = NoAccount /\ replaced = NoAccount /\ leftover = 0
    /\ inForce = 0 /\ trying = 0 /\ retired = {} /\ serving = FALSE

ConnectionNext ==
    \/ Boot \/ Serve \/ Fall
    \/ \E a \in Accounts : Configure(a)
    \/ Try \/ LogIn \/ Adopt \/ Clean \/ GiveUp
    \/ End

ConnectionSpec == ConnectionInit /\ [][ConnectionNext]_connectionVars

-----------------------------------------------------------------------------
(* Safety.                                                                 *)

\* connection.ts:4, "what is stored is always what runs": outside a switch the
\* generation in force is the stored connection's, or the seed's when nothing
\* is stored - after failed switches and restarts too.
StoredRuns ==
    isUp /\ ~IsConfiguring =>
        IF Resolved = NoAccount THEN inForce = 0
                                ELSE inForce # 0 /\ names[inForce] = Resolved

\* The row, the seed and the processes keep their types, and agree.
ConnectionKept == ConnectionTypeOK /\ StoredRuns

\* VAULT-8, "an old session is never reused": the generation in force works in
\* a directory that is logged in to its own account or to none, although
\* directory numbers start over and bw/1 survives restarts.
OldSessionUnused ==
    inForce # 0 => session[inForce] \in {NoAccount, names[inForce]}
=============================================================================
