-------------------------- MODULE GenerationStarter --------------------------
(***************************************************************************)
(* How one generation of vault credentials is brought up:                  *)
(* src/src/bitwarden/supervisor-start.ts over the `bw` commands and the    *)
(* `bw serve` child of serve-process.ts, with the state of the supervisor  *)
(* (supervisor.ts) and the steps of its restart loop (supervisor-loop.ts)  *)
(* that a start returns into.  VaultSupervisor adds the rest.              *)
(*                                                                         *)
(* Node runs one thread, so the unit of interleaving is the stretch of     *)
(* code between two awaits of something outside the process: a reply, a    *)
(* timer, a child's exit, a removed directory.  Three activities wait at   *)
(* such points and run in between one another:                             *)
(*   "loop"    RestartLoop.run,                                            *)
(*   "switch"  Supervisor.#switch (one reconfiguration),                   *)
(*   "stop"    Supervisor.stop.                                            *)
(* pc[p] is the await p is parked at, target[p] the child it deals with    *)
(* and gen[p] the generation it is starting.  Chains of microtasks (a      *)
(* return into an awaiting caller) are part of the action that resumes     *)
(* them.  Durations are left out: a timer may fire at any time.            *)
(***************************************************************************)
EXTENDS Naturals, FiniteSets

CONSTANTS
    Accounts,        \* Bitwarden accounts that credentials can name
    NoAccount,       \* an app-data directory that is logged in to none
    MaxGenerations,  \* bound: generations one process creates
    MaxChildren,     \* bound: `bw serve` children that exist at once
    MaxFailures,     \* bound: where the failure count stops being told apart
    MaxFaults,       \* bound: failures the environment may inflict
    RemovalMayFail   \* whether removing an app-data directory can fail

ASSUME NoAccountAssumption == NoAccount \notin Accounts
ASSUME BoundsAssumption ==
    /\ MaxGenerations \in Nat \ {0}
    /\ MaxChildren \in Nat \ {0}
    /\ MaxFailures \in Nat \ {0}
    /\ MaxFaults \in Nat
    /\ RemovalMayFail \in BOOLEAN

VARIABLES
    generation,  \* #generation: the one in use, 0 while unconfigured
    created,     \* GenerationFactory.#count
    account,     \* what each generation's credentials name
    disposed,    \* generations whose credentials are zeroed
    session,     \* the account each app-data directory is logged in to
    serve,       \* #serve: the attached child, 0 for none
    child,       \* every `bw serve` process
    isReady,
    isHalted,
    isStopping,
    failures,    \* RestartLoop.#failures
    previous,    \* #switch's `previous`
    pc, target, gen,
    faults,      \* environment failures so far
    overran      \* history: #switch cleared isHalted after stop() had set it

generationVars == <<generation, created, account, disposed, session, previous>>
flagVars == <<isReady, isHalted, isStopping>>
controlVars == <<pc, target, gen>>
vars == <<generationVars, serve, child, flagVars, failures, controlVars,
          faults, overran>>

Generations == 1..MaxGenerations
Children == 1..MaxChildren
None == 0

Starters == {"loop", "switch"}   \* activities that run GenerationStarter.start
Halters == {"switch", "stop"}    \* activities that run #halt
Activities == Starters \cup Halters

StartPhases == {"version", "login", "port", "poll", "status", "unlock",
                "settle", "detach", "sync"}
HaltPhases == {"lock", "term", "await", "woken"}
LoopPhases == StartPhases \cup {"ended", "serving", "backoff"}
SwitchPhases == StartPhases \cup HaltPhases
                  \cup {"idle", "rmNext", "retire", "failStop", "failRetire"}
StopPhases == HaltPhases \cup {"idle", "done"}

Phases == LoopPhases \cup SwitchPhases \cup StopPhases

\* #switch past its halt: it, and not the loop, runs the starter.
SwitchStarting == SwitchPhases \ (HaltPhases \cup {"idle"})

ChildStates == {"free", "locked", "unlocked", "exited"}

TypeOK ==
    /\ generation \in 0..MaxGenerations
    /\ created \in 0..MaxGenerations
    /\ account \in [Generations -> Accounts \cup {NoAccount}]
    /\ disposed \subseteq Generations
    /\ session \in [Generations -> Accounts \cup {NoAccount}]
    /\ serve \in 0..MaxChildren
    /\ child \in [Children -> [state : ChildStates, gen : 0..MaxGenerations]]
    /\ isReady \in BOOLEAN /\ isHalted \in BOOLEAN /\ isStopping \in BOOLEAN
    /\ failures \in 0..MaxFailures
    /\ previous \in 0..MaxGenerations
    /\ pc \in [Activities -> Phases]
    /\ pc["loop"] \in LoopPhases
    /\ pc["switch"] \in SwitchPhases
    /\ pc["stop"] \in StopPhases
    /\ target \in [Activities -> 0..MaxChildren]
    /\ gen \in [Starters -> 0..MaxGenerations]
    /\ faults \in 0..MaxFaults
    /\ overran \in BOOLEAN

-----------------------------------------------------------------------------
(* The world outside: children and faults.                                 *)

IsUp(c) == c \in Children /\ child[c].state \in {"locked", "unlocked"}

\* main.ts calls process.exit as soon as stop() has resolved; a loop that throws
\* is an unhandled rejection, which ends the process too.
IsRunning == pc["stop"] # "done"

Fault == faults < MaxFaults /\ faults' = faults + 1

\* A child slot that no activity can still be looking at.
IsUnused(c) ==
    /\ ~IsUp(c)
    /\ serve # c
    /\ \A p \in Activities : target[p] # c

(* A child's exit, and a promise settled by another activity, are noticed   *)
(* before anything else happens: those continuations are microtasks.        *)

Notices(p, phase) == IsRunning /\ pc[p] = phase /\ ~IsUp(target[p])

\* #halt has seen the loop end; stop() then also awaits #switching.
Resumes(p) ==
    /\ IsRunning
    /\ pc[p] = "woken"
    /\ p = "stop" => pc["switch"] = "idle"

IsDue ==
    \/ \E p \in Activities :
         \E phase \in {"serving", "detach", "term", "failStop"} : Notices(p, phase)
    \/ \E p \in Halters : Resumes(p)

\* Activity p resumes from `phase` because of something outside the process.
At(p, phase) == IsRunning /\ pc[p] = phase /\ ~IsDue

\* A call needs an endpoint: the child attached when the call is made.
Reaches(p) == serve = target[p] /\ IsUp(target[p])

-----------------------------------------------------------------------------
(* Pieces of a handler.                                                    *)

\* pc once the loop's promise has settled: whoever awaits it moves on.
WithLoopEnded(pcs) ==
    [p \in Activities |->
        IF p = "loop" THEN "ended"
        ELSE IF pcs[p] = "await" THEN "woken" ELSE pcs[p]]

\* Mutant: the loop does not look whether it was halted.
LoopHeadUnchecked(pcs, halted, current) ==
    /\ pc' = [pcs EXCEPT !["loop"] = IF current = None THEN "ended" ELSE "version"]
    /\ gen' = [gen EXCEPT !["loop"] = current]

\* The head of `while (!isHalted())` in RestartLoop.run, nothing being served.
LoopHead(pcs, halted, current) ==
    IF halted \/ current = None
      THEN pc' = WithLoopEnded(pcs) /\ gen' = [gen EXCEPT !["loop"] = None]
      ELSE /\ pc' = [pcs EXCEPT !["loop"] = "version"]
           /\ gen' = [gen EXCEPT !["loop"] = current]

\* Mutant: the count runs on past its bound.
RecordFailureUncapped(from) ==
    /\ target' = [target EXCEPT !["loop"] = None]
    /\ failures' = from + 1
    /\ pc' = [pc EXCEPT !["loop"] = "backoff"]
    /\ gen' = [gen EXCEPT !["loop"] = None]

\* #recordFailure: count and back off, unless halted (then the loop ends).
RecordFailure(from) ==
    /\ target' = [target EXCEPT !["loop"] = None]
    /\ IF isHalted
         THEN /\ LoopHead(pc, TRUE, generation)
              /\ UNCHANGED failures
         ELSE /\ failures' = IF from < MaxFailures THEN from + 1 ELSE from
              /\ pc' = [pc EXCEPT !["loop"] = "backoff"]
              /\ gen' = [gen EXCEPT !["loop"] = None]

\* #stopServe by p: forget the child, SIGTERM it and wait for its exit at
\* `phase`.  Whether anything is attached is the caller's guard.
StopServe(p, phase) ==
    /\ serve' = None
    /\ target' = [target EXCEPT ![p] = serve]
    /\ pc' = [pc EXCEPT ![p] = phase]

\* Mutant: #halt does not wait for the loop to notice.
AwaitNothing(p) ==
    /\ pc' = [pc EXCEPT ![p] = "woken"]
    /\ target' = [target EXCEPT ![p] = None]

\* #halt's `await this.#loop`.
AwaitLoop(p) ==
    /\ pc' = [pc EXCEPT ![p] = IF pc["loop"] = "ended" THEN "woken" ELSE "await"]
    /\ target' = [target EXCEPT ![p] = None]

\* #switch's failure path: stop what is attached, then #retire(next).
SwitchFails ==
    /\ gen' = [gen EXCEPT !["switch"] = None]
    /\ IF serve # None
         THEN StopServe("switch", "failStop") /\ UNCHANGED disposed
         ELSE /\ disposed' = disposed \cup {generation}
              /\ pc' = [pc EXCEPT !["switch"] = "failRetire"]
              /\ target' = [target EXCEPT !["switch"] = None]
              /\ UNCHANGED serve

\* A failed start returns to its caller: the loop backs off, #switch undoes.
StartFailed(p) ==
    \/ /\ p = "loop"
       /\ RecordFailure(failures)
       /\ UNCHANGED <<serve, disposed>>
    \/ /\ p = "switch"
       /\ SwitchFails
       /\ UNCHANGED failures

\* The starter's `await detach()`: immediate when nothing is attached.
Detach(p) ==
    IF serve = None
      THEN StartFailed(p)
      ELSE StopServe(p, "detach") /\ UNCHANGED <<gen, failures, disposed>>

\* A call of RestartLoop.run by #switch: with a child already unlocked (c), or
\* with none.  Nothing awaits the new promise yet.
RunServing(c) ==
    /\ isReady' = IF isHalted THEN isReady ELSE TRUE
    /\ pc' = [pc EXCEPT !["switch"] = "idle",
                        !["loop"] = IF isHalted THEN "ended" ELSE "serving"]
    /\ target' = [target EXCEPT !["switch"] = None,
                                !["loop"] = IF isHalted THEN None ELSE c]
    /\ gen' = [gen EXCEPT !["switch"] = None]

\* The synchronous head of #halt for p, up to its first await.  What it does to
\* a CLI command in flight (SIGKILL) is CommandFails, below.
BeginHalt(p) ==
    /\ isHalted' = TRUE
    /\ isReady' = FALSE
    /\ IF serve # None
         THEN /\ pc' = [pc EXCEPT ![p] = "lock"]
              /\ target' = [target EXCEPT ![p] = serve]
         ELSE AwaitLoop(p)

-----------------------------------------------------------------------------
(* GenerationStarter.start, run by the loop or by #switch.                 *)

Goto(p, phase) ==
    /\ pc' = [pc EXCEPT ![p] = phase]
    /\ UNCHANGED <<target, gen>>

\* One-shot CLI commands fail on their own, or because #halt killed them.
CommandFails == \/ isHalted /\ UNCHANGED faults
                \/ Fault

\* `bw --version` passes the gate.
VersionOk(p) ==
    /\ At(p, "version")
    /\ Goto(p, "login")
    /\ UNCHANGED <<generationVars, serve, child, flagVars, failures, faults, overran>>

VersionFails(p) ==
    /\ At(p, "version")
    /\ CommandFails
    /\ StartFailed(p)
    /\ UNCHANGED <<generation, created, account, session, previous, child,
                   flagVars, overran>>

\* VersionRefusedError: the loop gives up for good; a switch fails.
VersionRefused(p) ==
    /\ At(p, "version")
    /\ Fault
    /\ \/ /\ p = "loop"
          /\ LoopHead(pc, TRUE, generation)
          /\ UNCHANGED <<target, serve, disposed>>
       \/ /\ p = "switch"
          /\ SwitchFails
    /\ UNCHANGED <<generation, created, account, session, previous, child,
                   flagVars, failures, overran>>

\* Credentials.#read: the API key is read to log in, the master password to
\* unlock; disposed credentials throw, and the start goes no further.
ReadsDisposed(p) ==
    /\ gen[p] \in disposed
    /\ pc[p] = "login" => session[gen[p]] = NoAccount

\* ensureLoggedIn: a directory that is logged in, to whatever, is used as is.
LogsIn(d) == IF session[d] = NoAccount THEN account[d] ELSE session[d]

LoginOk(p) ==
    /\ At(p, "login")
    /\ ~ReadsDisposed(p)
    /\ session' = [session EXCEPT ![gen[p]] = LogsIn(gen[p])]
    /\ Goto(p, "port")
    /\ UNCHANGED <<generation, created, account, disposed, previous, serve, child,
                   flagVars, failures, faults, overran>>

\* A login that is killed may have taken effect before that.
LoginFails(p) ==
    /\ At(p, "login")
    /\ CommandFails
    /\ session' \in {session, [session EXCEPT ![gen[p]] = LogsIn(gen[p])]}
    /\ StartFailed(p)
    /\ UNCHANGED <<generation, created, account, previous, child, flagVars, overran>>

\* A port is free: spawn and attach; a start halted by now polls no /status.
Spawn(p) ==
    /\ At(p, "port")
    /\ \E c \in Children :
         /\ IsUnused(c)
         /\ \A d \in Children : d < c => ~IsUnused(d)
         /\ child' = [child EXCEPT ![c] = [state |-> "locked", gen |-> gen[p]]]
         /\ target' = [target EXCEPT ![p] = c]
         /\ IF isHalted
              THEN serve' = None /\ pc' = [pc EXCEPT ![p] = "detach"]
              ELSE serve' = c /\ pc' = [pc EXCEPT ![p] = "status"]
    /\ UNCHANGED <<generationVars, flagVars, failures, gen, faults, overran>>

\* `GET /status` answers.
StatusOk(p) ==
    /\ At(p, "status")
    /\ Reaches(p)
    /\ Goto(p, "unlock")
    /\ UNCHANGED <<generationVars, serve, child, flagVars, failures, faults, overran>>

\* It does not, and the starter waits 250 ms.
StatusFails(p) ==
    /\ At(p, "status")
    /\ \/ Reaches(p) /\ Fault
       \/ ~Reaches(p) /\ UNCHANGED faults
    /\ Goto(p, "poll")
    /\ UNCHANGED <<generationVars, serve, child, flagVars, failures, overran>>

PollAgain(p) ==
    /\ At(p, "poll")
    /\ ~isHalted
    /\ Goto(p, "status")
    /\ UNCHANGED <<generationVars, serve, child, flagVars, failures, faults, overran>>

\* Halted, or 30 s are over.
PollEnds(p) ==
    /\ At(p, "poll")
    /\ \/ (isHalted \/ ~Reaches(p)) /\ UNCHANGED faults
       \/ Fault
    /\ Detach(p)
    /\ UNCHANGED <<generation, created, account, session, previous, child,
                   flagVars, overran>>

\* `POST /unlock` is accepted.
UnlockOk(p) ==
    /\ At(p, "unlock")
    /\ ~ReadsDisposed(p)
    /\ Reaches(p)
    /\ child' = [child EXCEPT ![serve].state = "unlocked"]
    /\ Goto(p, "sync")
    /\ UNCHANGED <<generationVars, serve, flagVars, failures, faults, overran>>

\* A reply without its envelope inside the settle window: wait, then retry.
\* The vault may have been unlocked all the same.
UnlockSettles(p) ==
    /\ At(p, "unlock")
    /\ ~ReadsDisposed(p)
    /\ Reaches(p)
    /\ Fault
    /\ child' \in {child, [child EXCEPT ![serve].state = "unlocked"]}
    /\ Goto(p, "settle")
    /\ UNCHANGED <<generationVars, serve, flagVars, failures, overran>>

UnlockAgain(p) ==
    /\ At(p, "settle")
    /\ ~isHalted
    /\ Goto(p, "unlock")
    /\ UNCHANGED <<generationVars, serve, child, flagVars, failures, faults, overran>>

\* Rejected, refused, reset or timed out - or halted while settling.
UnlockFails(p) ==
    /\ \/ /\ At(p, "unlock")
          /\ ~ReadsDisposed(p)
          /\ \/ Reaches(p) /\ Fault
             \/ ~Reaches(p) /\ UNCHANGED faults
       \/ /\ At(p, "settle")
          /\ isHalted
          /\ UNCHANGED faults
    /\ Detach(p)
    /\ UNCHANGED <<generation, created, account, session, previous, child,
                   flagVars, overran>>

\* The child a failed start detached has exited.
Detached(p) ==
    /\ Notices(p, "detach")
    /\ StartFailed(p)
    /\ UNCHANGED <<generation, created, account, session, previous, child,
                   flagVars, faults, overran>>

\* Everything a start in progress can do next.
Start(p) ==
    \/ VersionOk(p) \/ VersionFails(p) \/ VersionRefused(p)
    \/ LoginOk(p) \/ LoginFails(p)
    \/ Spawn(p)
    \/ StatusOk(p) \/ StatusFails(p) \/ PollAgain(p) \/ PollEnds(p)
    \/ UnlockOk(p) \/ UnlockSettles(p) \/ UnlockAgain(p) \/ UnlockFails(p)
    \/ Detached(p)
=============================================================================
