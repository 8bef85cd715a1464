--------------------------- MODULE VaultSupervisor ---------------------------
(***************************************************************************)
(* The vault backend's supervisor: src/src/bitwarden/supervisor.ts with    *)
(* its restart loop (supervisor-loop.ts).  GenerationStarter holds the     *)
(* state and brings a generation up; here are the loop that keeps a child  *)
(* serving, the halt, the switch to new credentials, the stop, and what    *)
(* the whole promises.  The sync runner is module VaultSync.               *)
(***************************************************************************)
EXTENDS GenerationStarter

-----------------------------------------------------------------------------
(* RestartLoop.                                                            *)

\* Mutant: an unlocked child clears the failure count.
LoopStartsAfresh ==
    /\ At("loop", "sync")
    /\ isReady' = TRUE
    /\ failures' = 0
    /\ pc' = [pc EXCEPT !["loop"] = "serving"]
    /\ gen' = [gen EXCEPT !["loop"] = None]
    /\ UNCHANGED <<generationVars, serve, child, isHalted, isStopping, target,
                   faults, overran>>

\* The initial sync is over, whatever its outcome, and the loop serves: it is
\* told it is ready without another look at isHalted.
LoopStarts ==
    /\ At("loop", "sync")
    /\ isReady' = TRUE
    /\ pc' = [pc EXCEPT !["loop"] = "serving"]
    /\ gen' = [gen EXCEPT !["loop"] = None]
    /\ UNCHANGED <<generationVars, serve, child, isHalted, isStopping, failures,
                   target, faults, overran>>

\* The child has exited: onExit, then back off unless this was our own halt.
\* A child that was healthy for five minutes clears the failure count.
ChildExitSeen ==
    /\ Notices("loop", "serving")
    /\ isReady' = FALSE
    /\ serve' = None
    /\ \E healthy \in BOOLEAN : RecordFailure(IF healthy THEN 0 ELSE failures)
    /\ UNCHANGED <<generationVars, child, isHalted, isStopping, faults, overran>>

BackoffEnds ==
    /\ At("loop", "backoff")
    /\ LoopHead(pc, isHalted, generation)
    /\ UNCHANGED <<generationVars, serve, child, flagVars, failures, target,
                   faults, overran>>

-----------------------------------------------------------------------------
(* Supervisor.#halt, run by #switch and by stop.                           *)

\* `POST /lock` is answered or fails; then the child is stopped.
LockAnswered(p) ==
    /\ At(p, "lock")
    /\ child' \in IF IsUp(target[p])
                    THEN {child, [child EXCEPT ![target[p]].state = "locked"]}
                    ELSE {child}
    /\ IF serve # None
         THEN StopServe(p, "term")
         ELSE AwaitLoop(p) /\ UNCHANGED serve
    /\ UNCHANGED <<generationVars, flagVars, failures, gen, faults, overran>>

ChildStopped(p) ==
    /\ Notices(p, "term")
    /\ AwaitLoop(p)
    /\ UNCHANGED <<generationVars, serve, child, flagVars, failures, gen,
                   faults, overran>>

-----------------------------------------------------------------------------
(* Supervisor.reconfigure and #switch.                                     *)

Reconfigure ==
    /\ At("switch", "idle")
    /\ ~isStopping
    /\ created < MaxGenerations
    /\ previous' = generation
    /\ BeginHalt("switch")
    /\ UNCHANGED <<generation, created, account, disposed, session, serve, child,
                   isStopping, failures, gen, faults, overran>>

\* Mutant: the previous generation is retired before the next is up.
CreateNextRetiring ==
    /\ Resumes("switch")
    /\ disposed' = disposed \cup ({generation} \ {None})
    /\ created' = created + 1
    /\ generation' = created'
    /\ \E a \in Accounts : account' = [account EXCEPT ![created'] = a]
    /\ Goto("switch", "rmNext")
    /\ UNCHANGED <<session, previous, serve, child, flagVars, failures, faults,
                   overran>>

\* Halted: the next generation, whose directory an earlier process may have
\* left behind.
CreateNext ==
    /\ Resumes("switch")
    /\ created' = created + 1
    /\ generation' = created'
    /\ \E a \in Accounts : account' = [account EXCEPT ![created'] = a]
    /\ Goto("switch", "rmNext")
    /\ UNCHANGED <<disposed, session, previous, serve, child, flagVars, failures,
                   faults, overran>>

\* Mutant: the new generation starts over whatever its directory holds.
RemovedNothing(d) == session

\* #removeDirectory of generation d.
Removed(d) == [session EXCEPT ![d] = NoAccount]

\* The directory is gone: clear the halt and start.
StartNext ==
    /\ At("switch", "rmNext")
    /\ session' = Removed(generation)
    /\ isHalted' = FALSE
    /\ overran' = (overran \/ isStopping)
    /\ failures' = 0
    /\ pc' = [pc EXCEPT !["switch"] = "version"]
    /\ gen' = [gen EXCEPT !["switch"] = generation]
    /\ UNCHANGED <<generation, created, account, disposed, previous, serve, child,
                   isReady, isStopping, target, faults>>

\* The new generation is up and nothing halted it meanwhile: retire the old
\* one and hand the child to the loop.
SwitchStarts ==
    /\ At("switch", "sync")
    /\ ~isHalted
    /\ IF previous = None
         THEN RunServing(target["switch"]) /\ UNCHANGED disposed
         ELSE /\ disposed' = disposed \cup {previous}
              /\ Goto("switch", "retire")
              /\ UNCHANGED isReady
    /\ UNCHANGED <<generation, created, account, session, previous, serve, child,
                   isHalted, isStopping, failures, faults, overran>>

\* `stopped while reconfiguring`
SwitchStopped ==
    /\ At("switch", "sync")
    /\ isHalted
    /\ SwitchFails
    /\ UNCHANGED <<generation, created, account, session, previous, child,
                   flagVars, failures, faults, overran>>

PreviousRetired ==
    /\ At("switch", "retire")
    /\ session' = Removed(previous)
    /\ RunServing(target["switch"])
    /\ previous' = None
    /\ UNCHANGED <<generation, created, account, disposed, serve, child,
                   isHalted, isStopping, failures, faults, overran>>

\* removeDirectory rejects, and nothing in #switch catches it: reconfigure
\* rejects with whatever was reached so far.
RemovalFails ==
    /\ RemovalMayFail
    /\ \E phase \in {"rmNext", "retire", "failRetire"} : At("switch", phase)
    /\ Fault
    /\ previous' = None
    /\ pc' = [pc EXCEPT !["switch"] = "idle"]
    /\ target' = [target EXCEPT !["switch"] = None]
    /\ gen' = [gen EXCEPT !["switch"] = None]
    /\ UNCHANGED <<generation, created, account, disposed, session, serve, child,
                   flagVars, failures, overran>>

FailedChildStopped ==
    /\ Notices("switch", "failStop")
    /\ SwitchFails
    /\ UNCHANGED <<generation, created, account, session, previous, child,
                   flagVars, failures, faults, overran>>

\* The failed generation's directory is gone: resume the previous one, unless
\* shutting down.
SwitchUndone ==
    /\ At("switch", "failRetire")
    /\ session' = Removed(generation)
    /\ generation' = previous
    /\ previous' = None
    /\ IF isStopping
         THEN /\ pc' = [pc EXCEPT !["switch"] = "idle"]
              /\ UNCHANGED <<isHalted, gen>>
         ELSE /\ isHalted' = FALSE
              /\ LoopHead([pc EXCEPT !["switch"] = "idle"], FALSE, previous)
    /\ UNCHANGED <<created, account, disposed, serve, child, isReady,
                   isStopping, failures, target, faults, overran>>

-----------------------------------------------------------------------------
(* Supervisor.stop: halt, await a switch in progress, zero the credentials. *)

Stop ==
    /\ At("stop", "idle")
    /\ isStopping' = TRUE
    /\ BeginHalt("stop")
    /\ UNCHANGED <<generationVars, serve, child, failures, gen, faults, overran>>

StopCompletes ==
    /\ Resumes("stop")
    /\ disposed' = IF generation = None THEN disposed
                                        ELSE disposed \cup {generation}
    /\ Goto("stop", "done")
    /\ UNCHANGED <<generation, created, account, session, previous, serve, child,
                   flagVars, failures, faults, overran>>

-----------------------------------------------------------------------------
(* `bw serve` itself.                                                      *)

\* Sent SIGTERM (or SIGKILL five seconds later), a child exits.
IsTerminated(c) ==
    \E p \in Activities : pc[p] \in {"detach", "term", "failStop"} /\ target[p] = c

ChildExits(c) ==
    /\ IsRunning /\ ~IsDue
    /\ IsUp(c)
    /\ (IsTerminated(c) /\ UNCHANGED faults) \/ Fault
    /\ child' = [child EXCEPT ![c].state = "exited"]
    /\ UNCHANGED <<generationVars, serve, flagVars, failures, controlVars, overran>>

-----------------------------------------------------------------------------
\* A configured process boots generation 1 over the directory bw/1 that an
\* earlier process may have left logged in to the same account; an unconfigured
\* one has nothing to start.
Init ==
    /\ generation \in {None, 1}
    /\ created = generation
    /\ account \in [Generations -> Accounts \cup {NoAccount}]
    /\ \A g \in Generations : (account[g] = NoAccount) <=> g > created
    /\ disposed = {}
    /\ session \in [Generations -> Accounts \cup {NoAccount}]
    /\ generation = 1 => session[1] \in {NoAccount, account[1]}
    /\ serve = None
    /\ child = [c \in Children |-> [state |-> "free", gen |-> None]]
    /\ isReady = FALSE /\ isHalted = FALSE /\ isStopping = FALSE
    /\ failures = 0
    /\ previous = None
    /\ pc = [p \in Activities |->
                IF p # "loop" THEN "idle"
                ELSE IF generation = None THEN "ended" ELSE "version"]
    /\ target = [p \in Activities |-> None]
    /\ gen = [p \in Starters |-> IF p = "loop" THEN generation ELSE None]
    /\ faults = 0
    /\ overran = FALSE

Loop == LoopStarts \/ ChildExitSeen \/ BackoffEnds

Switch ==
    \/ CreateNext \/ StartNext \/ SwitchStarts \/ SwitchStopped
    \/ PreviousRetired \/ RemovalFails \/ FailedChildStopped \/ SwitchUndone

Halt(p) == LockAnswered(p) \/ ChildStopped(p)

\* The process is gone; nothing steps any more.
Gone == ~IsRunning /\ UNCHANGED vars

Next ==
    \/ \E p \in Starters : Start(p)
    \/ Loop
    \/ Switch
    \/ Reconfigure
    \/ \E p \in Halters : Halt(p)
    \/ Stop
    \/ StopCompletes
    \/ \E c \in Children : ChildExits(c)
    \/ Gone

Spec == Init /\ [][Next]_vars

-----------------------------------------------------------------------------
(* Safety.                                                                 *)

Undecided == pc["switch"] \in SwitchStarting \ {"retire"}

\* The restart loop and a switch never run the starter at the same time: they
\* share #serve, so each would attach over and detach the other's child.
OneStarter ==
    pc["switch"] \in SwitchStarting => pc["loop"] = "ended"

\* Never two `bw serve` processes at once: whoever starts one has first seen
\* the exit of the one before (#halt and the starter's detach await it).  Holds
\* unless a reconfiguration went on under a stop().
OneChild == overran \/ Cardinality({c \in Children : IsUp(c)}) <= 1

\* VAULT-5: while the backend reports itself ready and is not being halted, the
\* child it would talk to is unlocked and belongs to the generation in use.
ReadyMeansUnlocked ==
    IsRunning /\ isReady /\ ~isHalted /\ ~overran /\ ~IsDue =>
        /\ serve # None
        /\ child[serve] = [state |-> "unlocked", gen |-> generation]

\* VAULT-8: the vault that answers calls is in a directory logged in to the
\* account the generation's own credentials name, whatever earlier processes
\* left on disk.
OwnSession ==
    serve # None /\ child[serve].state = "unlocked" =>
        session[child[serve].gen] = account[child[serve].gen]

\* VAULT-15: no start ever reads credentials that were disposed; the throw
\* would take the process down.
NoReadAfterDispose ==
    \A p \in Starters : At(p, "login") \/ At(p, "unlock") => ~ReadsDisposed(p)

\* VAULT-8: until the next generation is up, the one a failure would resume
\* keeps its secrets and its CLI session.
PreviousResumable ==
    [][ Undecided /\ Undecided' /\ previous # None =>
            previous \notin disposed' /\ session'[previous] = session[previous] ]_vars

\* VAULT-6: the failure count falls only when a child that had been healthy
\* exits or a switch starts afresh, so a child that dies right after every
\* unlock still escalates.
FailuresClear ==
    [][ failures' < failures => ChildExitSeen \/ StartNext ]_vars

\* VAULT-7: a stop that has completed leaves no child running, unless a
\* reconfiguration went on under it.
StoppedUnlessOverrun ==
    pc["stop"] = "done" /\ ~overran => \A c \in Children : ~IsUp(c)

\* VAULT-5, 7: what holds at every await of the loop, a switch and a stop, a
\* switch whose clean-up of a directory fails included.
ChildInUse ==
    /\ OneChild
    /\ ReadyMeansUnlocked
    /\ StoppedUnlessOverrun

\* VAULT-5, 7, 8, 15: what holds of the child and of the credentials at every
\* await, whichever of the loop, a switch and a stop run in between.
SupervisorSafe ==
    /\ ChildInUse
    /\ OwnSession
    /\ NoReadAfterDispose

\* Every variable keeps its type and the loop and a switch never start a
\* generation at the same time.
StartersSound == TypeOK /\ OneStarter

\* VAULT-6, 8: until a switch is decided nothing of the generation it would
\* resume is taken from it, and failures are forgotten only after a child that
\* had been healthy.
SwitchSafe == PreviousResumable /\ FailuresClear

-----------------------------------------------------------------------------
(* The supervisor implements VaultLifecycle.  Its state is read off #switch:  *)
(* until that has decided, the previous generation is the one in force.    *)

\* Generations given up for good: switched away from or failed to switch to.
Retired == 1..created \ {generation, previous}

Lifecycle == INSTANCE VaultLifecycle WITH
    Connections <- Generations,
    inForce <- IF Undecided THEN previous ELSE generation,
    trying <- IF Undecided THEN generation ELSE None,
    retired <- IF pc["switch"] = "retire" THEN Retired \cup {previous} ELSE Retired,
    serving <- isReady /\ ~isHalted

LifecycleSpec == Lifecycle!Spec

-----------------------------------------------------------------------------
(* Liveness.  Replies come within CALL_TIMEOUT_MS, commands end within      *)
(* their own bound, timers fire and a terminated child is killed, so every  *)
(* parked activity goes on; requests to reconfigure or stop and the child's *)
(* own crashes need not happen.  A poll or a retry that keeps failing meets *)
(* its deadline (strong fairness).                                          *)

Fairness ==
    /\ \A p \in Starters :
         /\ WF_vars(Start(p))
         /\ SF_vars(PollEnds(p)) /\ SF_vars(UnlockOk(p) \/ UnlockFails(p))
    /\ WF_vars(Loop) /\ WF_vars(Switch) /\ WF_vars(StopCompletes)
    /\ \A p \in Halters : WF_vars(Halt(p))
    /\ \A c \in Children : WF_vars(IsTerminated(c) /\ ChildExits(c))

FairSpec == Spec /\ Fairness

\* VAULT-7: a stop comes to an end.  Holds unless a reconfiguration went on
\* under it.
StopEnds == pc["stop"] # "idle" ~> (pc["stop"] = "done" \/ overran)

\* VAULT-18: reconfigure answers its caller.
SwitchReturns == pc["switch"] # "idle" ~> (pc["switch"] = "idle" \/ ~IsRunning)

\* A CLI that was refused ends the retries (VAULT-2).
Refused ==
    /\ pc["loop"] = "ended" /\ pc["switch"] = "idle"
    /\ generation # None /\ ~isHalted

\* VAULT-6, VAULT-18: while something is configured the backend comes (back)
\* up, after failed starts, crashes and failed switches alike, once the
\* environment stops failing.  (A first configuration that fails leaves the
\* backend unconfigured again.)
Recovers ==
    generation # None ~> (isReady \/ isStopping \/ Refused \/ generation = None)

\* VAULT-6, 7, 18: stop() and reconfigure() answer, and the backend recovers.
Progress == StopEnds /\ SwitchReturns /\ Recovers

=============================================================================
