----------------------------- MODULE BuildFlight -----------------------------
(***************************************************************************)
(* The snapshot builds of the code connector in one vaultgate process      *)
(* (src/actions/connectors/code/build-slots.ts and build-flight.ts): a map *)
(* from a snapshot's key to the one build of it that can be joined, a      *)
(* count of the slots taken, and a queue of the builds that wait for one.  *)
(*                                                                         *)
(* The program is one thread; an action is what happens between two awaits.*)
(* What a build does with its slot is left out: it works until it ends.    *)
(***************************************************************************)
EXTENDS Integers, FiniteSets, Sequences

CONSTANTS
  Target, Extraction, Commit, \* what a snapshot's key is made of
  Build,                      \* the builds of a run of the process
  NoBuild, NoKey,             \* no build under a key; a build not launched yet
  Total, PerTarget            \* BUILD_LIMITS

\* snapshotKey(): a target at a commit under an extraction policy.
Key == Target \X Extraction \X Commit
Owner(k) == k[1]

ASSUME LimitsAssumption == Total \in Nat /\ PerTarget \in Nat
ASSUME BuildAssumption == IsFiniteSet(Build) /\ NoBuild \notin Build /\ NoKey \notin Key

VARIABLES
  flights,   \* the map of launch(): what a trigger of a key joins
  phase,     \* where the function of each build stands
  key,       \* the key each build was launched under
  forRef,    \* the builds that calls launched for a ref they named
  abandoned, \* the builds whose entry is isAbandoned
  running,   \* createBuildSlots(): slots taken
  named,     \* createBuildSlots(): those of forRef builds, per target
  waiting    \* createBuildSlots(): the builds waiting for a slot

slotVars == <<running, named, waiting>>
flightVars == <<flights, phase, key, forRef, abandoned, slotVars>>

\* The slot of a build is pending while it is "waiting" and settled once it is
\* "given"; it then works and is "ended".
Phase == {"new", "waiting", "given", "working", "ended"}

\* Each variable holds what its declaration says.
FlightsTypeOK ==
  /\ flights \in [Key -> Build \cup {NoBuild}]
  /\ phase \in [Build -> Phase]
  /\ key \in [Build -> Key \cup {NoKey}]
  /\ forRef \in SUBSET Build
  /\ abandoned \in SUBSET Build
  /\ running \in Nat
  /\ named \in [Target -> Nat]
  /\ waiting \in Seq(Build)

FlightsInit ==
  /\ flights = [k \in Key |-> NoBuild]
  /\ phase = [b \in Build |-> "new"]
  /\ key = [b \in Build |-> NoKey]
  /\ forRef = {}
  /\ abandoned = {}
  /\ running = 0
  /\ named = [t \in Target |-> 0]
  /\ waiting = <<>>

Holding == {b \in Build : phase[b] \in {"given", "working"}}
NamedHolding(t) == {b \in Holding : b \in forRef /\ Owner(key[b]) = t}
Flying == {b \in Build : phase[b] \in {"waiting", "given", "working"}}

-----------------------------------------------------------------------------
(* Launching.  A trigger of a key that is in flight joins it instead.      *)

Launch(b, k, stage) ==
  /\ phase[b] = "new"
  /\ flights[k] = NoBuild
  /\ flights' = [flights EXCEPT ![k] = b]
  /\ phase' = [phase EXCEPT ![b] = stage]
  /\ key' = [key EXCEPT ![b] = k]
  /\ UNCHANGED abandoned

\* start(): take() gives a free slot at once or appends to the queue.
StartFree(b, k) ==
  /\ running < Total
  /\ Launch(b, k, "given")
  /\ running' = running + 1
  /\ UNCHANGED <<forRef, named, waiting>>

StartQueued(b, k) ==
  /\ running >= Total
  /\ Launch(b, k, "waiting")
  /\ waiting' = Append(waiting, b)
  /\ UNCHANGED <<forRef, running, named>>

Start(b, k) == StartFree(b, k) \/ StartQueued(b, k)

\* Mutant: only the target's own cap is looked at.
BusyForTarget(t) == named[t] >= PerTarget

\* tryTake() gives nothing: the process or the target is at its cap.
Busy(t) == running >= Total \/ named[t] >= PerTarget

\* tryStart(): a ref that a call named.
TryStart(b, k) ==
  /\ ~Busy(Owner(k))
  /\ Launch(b, k, "given")
  /\ forRef' = forRef \cup {b}
  /\ running' = running + 1
  /\ named' = [named EXCEPT ![Owner(k)] = @ + 1]
  /\ UNCHANGED waiting

-----------------------------------------------------------------------------
(* Running.                                                                *)

\* Mutants: the slot is freed and given to the next build as well; the queue is
\* not looked at; the count of the target is not.
ReleaseTwice(b) ==
  /\ named' = IF b \in forRef THEN [named EXCEPT ![Owner(key[b])] = @ - 1] ELSE named
  /\ running' = running - 1
  /\ waiting' = IF waiting = <<>> THEN waiting ELSE Tail(waiting)
  /\ phase' = IF waiting = <<>>
                THEN [phase EXCEPT ![b] = "ended"]
                ELSE [phase EXCEPT ![b] = "ended", ![Head(waiting)] = "given"]

ReleaseToNobody(b) ==
  /\ named' = IF b \in forRef THEN [named EXCEPT ![Owner(key[b])] = @ - 1] ELSE named
  /\ running' = running - 1
  /\ phase' = [phase EXCEPT ![b] = "ended"]
  /\ UNCHANGED waiting
ReleaseUncounted(b) ==
  /\ running' = running - 1
  /\ phase' = [phase EXCEPT ![b] = "ended"]
  /\ waiting = <<>>
  /\ UNCHANGED <<named, waiting>>

\* The releaser of a build's slot: the first build waiting takes the slot over.
Release(b) ==
  /\ named' = IF b \in forRef THEN [named EXCEPT ![Owner(key[b])] = @ - 1] ELSE named
  /\ IF waiting = <<>>
       THEN /\ running' = running - 1
            /\ phase' = [phase EXCEPT ![b] = "ended"]
            /\ UNCHANGED waiting
       ELSE /\ waiting' = Tail(waiting)
            /\ phase' = [phase EXCEPT ![b] = "ended", ![Head(waiting)] = "given"]
            /\ UNCHANGED running

\* Mutant: the entry goes whoever's it is by now.
DeleteAny(b) == [flights EXCEPT ![key[b]] = NoBuild]

\* The entry of a build that is over is deleted, if it still is its own.
Deleted(b) == IF flights[key[b]] = b THEN [flights EXCEPT ![key[b]] = NoBuild] ELSE flights

\* The slot came.  A build that was forgotten meanwhile never works.
Begin(b) ==
  /\ phase[b] = "given"
  /\ b \notin abandoned
  /\ phase' = [phase EXCEPT ![b] = "working"]
  /\ UNCHANGED <<flights, key, forRef, abandoned, slotVars>>

\* What follows the end of the work, and of a build that never works.
FlightEnds(b) ==
  /\ phase[b] = "working" \/ (phase[b] = "given" /\ b \in abandoned)
  /\ Release(b)
  /\ flights' = Deleted(b)
  /\ UNCHANGED <<key, forRef, abandoned>>

\* forget(): every build of the target that can be joined is abandoned.
Forget(t) ==
  LET mine == {k \in Key : Owner(k) = t} IN
  /\ abandoned' = abandoned \cup ({flights[k] : k \in mine} \ {NoBuild})
  /\ flights' = [k \in Key |-> IF k \in mine THEN NoBuild ELSE flights[k]]
  /\ UNCHANGED <<phase, key, forRef, slotVars>>

FlightsNext ==
  \/ \E b \in Build, k \in Key : Start(b, k) \/ TryStart(b, k)
  \/ \E b \in Build : Begin(b) \/ FlightEnds(b)
  \/ \E t \in Target : Forget(t)

FlightsSpec == FlightsInit /\ [][FlightsNext]_flightVars

\* A promise that is settled runs its continuation, and the work of a build is
\* bounded: download() has a timer and the loan of a credential ends.
FlightsFairness == \A b \in Build : WF_flightVars(Begin(b)) /\ WF_flightVars(FlightEnds(b))
FlightsFairSpec == FlightsSpec /\ FlightsFairness

-----------------------------------------------------------------------------
(* What the caps and the map promise.                                      *)

\* The count of createBuildSlots() is the number of builds that hold a slot,
\* through every hand-over and every build that is forgotten.
SlotsExact ==
  /\ running = Cardinality(Holding)
  /\ \A t \in Target :
       named[t] = Cardinality(NamedHolding(t))

\* ACT-108: at most Total builds run, and at most PerTarget of a target's are of
\* refs that calls named, although a build that waits is given its slot without
\* looking at either count.
WithinLimits == Cardinality(Holding) <= Total /\ \A t \in Target : named[t] <= PerTarget

\* A build waits only while every slot is taken: a release never leaves a slot
\* free beside the queue, so tryTake() cannot overtake a build that waits.
NoIdleSlot ==
  /\ waiting # <<>> => running = Total
  /\ \A b \in Build : phase[b] = "waiting" => \E i \in 1..Len(waiting) : waiting[i] = b

\* ACT-108: of the builds of one key that were not forgotten, at most one is in
\* flight, and it is the one a further trigger joins.
OneToJoin ==
  \A b \in Flying \ abandoned : flights[key[b]] = b

\* What holds of the slots and of the queue, as one invariant.
SlotsSound == FlightsTypeOK /\ SlotsExact /\ WithinLimits /\ NoIdleSlot

\* ACT-108: "One build runs per target and commit at a time."
OneBuildPerKey ==
  \A b, c \in Build : phase[b] = "working" /\ phase[c] = "working" /\ key[b] = key[c] => b = c

\* ACT-108: a build that waits for its slot "is never refused", and every build
\* ends: none is lost in the queue.
EveryBuildEnds == \A b \in Build : phase[b] # "new" ~> phase[b] = "ended"
=============================================================================
