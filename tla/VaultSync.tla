------------------------------- MODULE VaultSync -------------------------------
(***************************************************************************)
(* The sync runner, src/src/bitwarden/supervisor-sync.ts: the initial sync *)
(* of every unlocked child, the scheduled ones after it, the operator's,   *)
(* and the one retry after two seconds.  The supervisor is its             *)
(* environment, cut down to what the runner sees of it: children come and  *)
(* go, a starter awaits initial(), onReady calls start() and becoming      *)
(* unready calls stop().                                                   *)
(*                                                                         *)
(* A promise settling runs its reactions at once, so the end of a sync is  *)
(* one step with everything that awaits it.  Durations are left out; a     *)
(* call on a child that has exited fails before the next child is up.      *)
(***************************************************************************)
EXTENDS Naturals, FiniteSets

CONSTANTS
    MaxChildren,  \* bound: `bw serve` children in turn
    MaxTimers,    \* bound: interval timers pending at once
    MaxCallers    \* bound: operators asking at the same time

ASSUME SyncBounds ==
    /\ MaxChildren \in Nat \ {0}
    /\ MaxTimers \in Nat \ {0}
    /\ MaxCallers \in Nat \ {0}

VARIABLES
    serve,         \* #serve: the attached child's number, 0 for none
    spawned,       \* the latest child's number
    hasExited,     \* whether that child has exited
    stage,         \* of the loop: what it awaits of that child
    isHalted, isReady,
    isScheduling,
    timers,        \* interval timers pending
    cancels,       \* the timer #cancelScheduled cancels, 0 for undefined
    inFlight,      \* the sync running: what it awaits, the child of its last call
    first,         \* the child its first call went to
    lastFailed,    \* #lastSyncError is not null
    chained,       \* interval callbacks that await it
    callers        \* operators that await it

supervisorVars == <<serve, spawned, hasExited, isHalted, isReady>>
scheduleVars == <<isScheduling, timers, cancels>>
waiterVars == <<chained, callers>>
syncVars == <<inFlight, first, lastFailed>>
runnerVars == <<supervisorVars, stage, scheduleVars, waiterVars, syncVars>>

NoChild == 0
Timers == 1..MaxTimers
SyncIdle == [at |-> "none", child |-> NoChild]

SyncTypeOK ==
    /\ serve \in 0..MaxChildren /\ spawned \in 0..MaxChildren
    /\ stage \in {"none", "starting", "initial", "started", "serving"}
    /\ hasExited \in BOOLEAN /\ isHalted \in BOOLEAN /\ isReady \in BOOLEAN
    /\ isScheduling \in BOOLEAN /\ lastFailed \in BOOLEAN
    /\ timers \subseteq Timers /\ cancels \in 0..MaxTimers
    /\ inFlight \in [at : {"none", "first", "pause", "second"},
                     child : 0..MaxChildren]
    /\ first \in 0..MaxChildren
    /\ chained \in 0..MaxTimers /\ callers \in 0..MaxCallers

-----------------------------------------------------------------------------
(* Pieces of the runner.                                                   *)

IsRunning == inFlight.at # "none"

\* Supervisor's isChildAlive.
IsChildAlive == serve # NoChild /\ ~isHalted

\* The endpoint's child, when it can still answer.
SyncAnswers(c) == c # NoChild /\ c = spawned /\ ~hasExited

\* #schedule.
Schedule ==
    \E t \in Timers \ timers :
        /\ \A u \in Timers \ timers : t <= u
        /\ timers' = timers \cup {t}
        /\ cancels' = t

\* #sync: join what runs, or start one.  The call goes to the child attached now.
Sync ==
    IF IsRunning
      THEN UNCHANGED syncVars
      ELSE /\ inFlight' = [at |-> "first", child |-> serve]
           /\ first' = serve
           /\ UNCHANGED lastFailed

\* The sync's promise settles: the record is written, the starter goes on,
\* operators get their answer, the interval callback goes on with its chain.
Settle(ok) ==
    /\ inFlight' = SyncIdle /\ first' = NoChild /\ lastFailed' = ~ok
    /\ chained' = 0 /\ callers' = 0
    /\ stage' = IF stage = "initial" THEN "started" ELSE stage
    /\ IF chained > 0 /\ isScheduling
         THEN Schedule ELSE UNCHANGED <<timers, cancels>>

\* Mutant: the timer is left pending.
EndScheduleOnly ==
    /\ isScheduling' = FALSE
    /\ UNCHANGED timers
    /\ cancels' = NoChild

\* The half of stop() that ends the schedule.
EndSchedule ==
    /\ isScheduling' = FALSE
    /\ timers' = timers \ {cancels}
    /\ cancels' = NoChild

\* Mutant: cancelling the pause does not wake what awaits it.
AbandonUnwoken ==
    IF inFlight.at = "pause"
      THEN /\ inFlight' = SyncIdle /\ first' = NoChild
           /\ UNCHANGED <<lastFailed, waiterVars>>
      ELSE UNCHANGED <<syncVars, waiterVars>>

\* Mutant: a retry that still waits goes on waiting.
AbandonNothing == UNCHANGED <<syncVars, waiterVars>>

\* The other half: a retry that still waits is given up, and the sync has
\* failed with the first answer.
Abandon ==
    IF inFlight.at = "pause"
      THEN /\ inFlight' = SyncIdle /\ first' = NoChild /\ lastFailed' = TRUE
           /\ chained' = 0 /\ callers' = 0
      ELSE UNCHANGED <<syncVars, waiterVars>>

-----------------------------------------------------------------------------
(* A sync in flight.                                                       *)

\* `POST /sync` ends well, or fails in a way that is not retried.
CallEnds ==
    /\ inFlight.at \in {"first", "second"}
    /\ \E ok \in BOOLEAN : (ok => SyncAnswers(inFlight.child)) /\ Settle(ok)
    /\ UNCHANGED <<supervisorVars, isScheduling>>

\* A reply without its envelope, while the child is alive: pause.
Malformed ==
    /\ inFlight.at = "first"
    /\ SyncAnswers(inFlight.child) /\ IsChildAlive
    /\ inFlight' = [inFlight EXCEPT !.at = "pause"]
    /\ UNCHANGED <<supervisorVars, stage, scheduleVars, waiterVars, first, lastFailed>>

\* Two seconds later: the one retry.
Retry ==
    /\ inFlight.at = "pause"
    /\ inFlight' = [at |-> "second", child |-> serve]
    /\ UNCHANGED <<supervisorVars, stage, scheduleVars, waiterVars, first, lastFailed>>

\* The interval is over.
TimerFires(t) ==
    /\ t \in timers
    /\ timers' = timers \ {t}
    /\ Sync
    /\ chained' = chained + 1
    /\ UNCHANGED <<supervisorVars, stage, isScheduling, cancels, callers>>

\* Supervisor.syncNow.
SyncNow ==
    /\ isReady
    /\ callers < MaxCallers
    /\ Sync
    /\ callers' = callers + 1
    /\ UNCHANGED <<supervisorVars, stage, scheduleVars, chained>>

-----------------------------------------------------------------------------
(* The supervisor.                                                         *)

\* The next child is attached; calls on the one before have failed by now.
ChildUp ==
    /\ stage = "none" /\ serve = NoChild
    /\ spawned < MaxChildren
    /\ inFlight.at \notin {"first", "second"}
    /\ spawned' = spawned + 1 /\ serve' = spawned'
    /\ hasExited' = FALSE /\ isHalted' = FALSE
    /\ stage' = "starting"
    /\ UNCHANGED <<isReady, scheduleVars, waiterVars, syncVars>>

\* It is unlocked, and the starter awaits initial().
Unlocked ==
    /\ stage = "starting" /\ SyncAnswers(serve)
    /\ stage' = "initial"
    /\ Sync
    /\ UNCHANGED <<supervisorVars, scheduleVars, waiterVars>>

\* initial() is over and the loop serves: onReady, which calls start().
LoopServes ==
    /\ stage = "started"
    /\ stage' = "serving"
    /\ isReady' = TRUE
    /\ isScheduling' = TRUE
    /\ Schedule
    /\ UNCHANGED <<serve, spawned, hasExited, isHalted, waiterVars, syncVars>>

\* #halt, up to its first await.
BeginHalt ==
    /\ ~isHalted
    /\ isHalted' = TRUE /\ isReady' = FALSE
    /\ EndSchedule /\ Abandon
    /\ stage' = IF stage = "initial" /\ inFlight.at = "pause" THEN "started" ELSE stage
    /\ UNCHANGED <<serve, spawned, hasExited>>

\* #stopServe of a halt, or of a start that has failed.
Detach ==
    /\ serve # NoChild
    /\ isHalted \/ stage = "starting"
    /\ serve' = NoChild
    /\ UNCHANGED <<spawned, hasExited, stage, isHalted, isReady, scheduleVars,
                   waiterVars, syncVars>>

ChildExits ==
    /\ spawned # NoChild /\ ~hasExited
    /\ hasExited' = TRUE
    /\ UNCHANGED <<serve, spawned, isHalted, isReady, stage, scheduleVars,
                   waiterVars, syncVars>>

\* The loop sees the exit of the child it serves: onExit, which calls stop().
ExitSeen ==
    /\ stage = "serving" /\ hasExited
    /\ isReady' = FALSE /\ serve' = NoChild
    /\ EndSchedule /\ Abandon
    /\ stage' = "none"
    /\ UNCHANGED <<spawned, hasExited, isHalted>>

\* A start that failed, or a switch that was stopped: nothing was ever served.
StartEnds ==
    /\ serve = NoChild /\ hasExited
    /\ stage = "starting" \/ (stage = "started" /\ isHalted)
    /\ stage' = "none"
    /\ UNCHANGED <<supervisorVars, scheduleVars, waiterVars, syncVars>>

SyncInit ==
    /\ serve = NoChild /\ spawned = NoChild /\ hasExited = FALSE
    /\ stage = "none"
    /\ isHalted = FALSE /\ isReady = FALSE /\ isScheduling = FALSE
    /\ timers = {} /\ cancels = NoChild
    /\ inFlight = SyncIdle /\ first = NoChild /\ lastFailed = FALSE
    /\ chained = 0 /\ callers = 0

SyncNext ==
    \/ CallEnds \/ Malformed \/ Retry \/ SyncNow
    \/ \E t \in Timers : TimerFires(t)
    \/ ChildUp \/ Unlocked \/ LoopServes \/ BeginHalt \/ Detach \/ ChildExits
    \/ ExitSeen \/ StartEnds

SyncSpec == SyncInit /\ [][SyncNext]_runnerVars

-----------------------------------------------------------------------------
(* Safety.                                                                 *)

\* VAULT-9: while the backend serves there is exactly one schedule, a timer or
\* a sync that will set the next one - whatever children came and went - and
\* none is left when it does not.
OneSchedule ==
    /\ Cardinality(timers) + chained <= 1
    /\ isScheduling => Cardinality(timers) + chained = 1
    /\ ~isScheduling => timers = {}

\* VAULT-17: the retry goes to the child whose answer was malformed, never to
\* one that has replaced it.
RetryStays == inFlight.at = "second" => inFlight.child \in {first, NoChild}

\* VAULT-9: the initial sync of a child is its own, not one joined that was
\* asked of an earlier child.
InitialIsOwn == stage = "initial" => IsRunning /\ first = spawned

\* A sync and its retry are about the child they were asked of.
SyncOwned == SyncTypeOK /\ RetryStays /\ InitialIsOwn

-----------------------------------------------------------------------------
(* Liveness: every call is bounded (CALL_TIMEOUT_MS) and timers fire.      *)

Fairness == WF_runnerVars(CallEnds) /\ WF_runnerVars(Retry)
SyncFairSpec == SyncSpec /\ Fairness

\* VAULT-19: everyone who asked for a sync, or joined one, is answered, also
\* when it is abandoned.
CallersAnswered == callers > 0 ~> callers = 0

\* The starter is not left waiting for the initial sync.
InitialReturns == stage = "initial" ~> stage # "initial"

\* Whoever awaits a sync - an operator, a starter - is answered.
SyncAnswered == CallersAnswered /\ InitialReturns
=============================================================================
