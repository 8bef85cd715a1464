------------------------ MODULE VaultSupervisorProofs ------------------------
(***************************************************************************)
(* Theorems about VaultSupervisor, for every set of accounts and every     *)
(* bound: the types, and that the loop and a switch never start a child at *)
(* the same time.                                                          *)
(*                                                                         *)
(* The invariant that makes both inductive says what the await at the end  *)
(* of #halt is for: a switch that has been woken has seen the loop end.    *)
(***************************************************************************)
EXTENDS VaultSupervisor, TLAPS

\* The positions of the three activities, taken together.
PcInv(pcs) ==
    /\ pcs \in [Activities -> Phases]
    /\ pcs["loop"] \in LoopPhases
    /\ pcs["switch"] \in SwitchPhases
    /\ pcs["stop"] \in StopPhases
    /\ pcs["switch"] \in SwitchStarting \cup {"woken"} => pcs["loop"] = "ended"

\* A switch that is halting has a generation number left to give out; one that
\* has halted is working on a generation it has created.
GenerationInv ==
    /\ pc["switch"] \in HaltPhases => created < MaxGenerations
    /\ pc["switch"] \in SwitchStarting => generation \in Generations

IInv == TypeOK /\ PcInv(pc) /\ GenerationInv

-----------------------------------------------------------------------------
(* The positions.                                                          *)

LEMMA PhaseFacts ==
    /\ StartPhases \subseteq LoopPhases \ {"ended"}
    /\ StartPhases \subseteq SwitchStarting
    /\ {"ended", "serving", "backoff"} \subseteq LoopPhases
    /\ {"rmNext", "retire", "failStop", "failRetire"} \subseteq SwitchStarting
    /\ SwitchStarting \subseteq SwitchPhases
    /\ SwitchStarting \cap HaltPhases = {}
    /\ "idle" \notin SwitchStarting \cup HaltPhases
    /\ "idle" \in SwitchPhases \cap StopPhases /\ "done" \in StopPhases
    /\ HaltPhases = {"lock", "term", "await", "woken"}
    /\ HaltPhases \subseteq SwitchPhases \cap StopPhases
    /\ LoopPhases \cup SwitchPhases \cup StopPhases \subseteq Phases
    /\ {"version", "login", "port", "poll", "status", "unlock", "settle",
        "detach", "sync"} = StartPhases
  BY DEF StartPhases, LoopPhases, SwitchPhases, StopPhases, HaltPhases,
         SwitchStarting, Phases

\* The loop moves while no switch has begun to start anything.
LEMMA LoopMoves ==
    ASSUME NEW pcs, PcInv(pcs), NEW x \in LoopPhases,
           x = "ended" \/ pcs["switch"] \notin SwitchStarting \cup {"woken"}
    PROVE  /\ PcInv([pcs EXCEPT !["loop"] = x])
           /\ [pcs EXCEPT !["loop"] = x]["switch"] = pcs["switch"]
  BY PhaseFacts DEF PcInv, Activities, Starters, Halters

\* The loop ends and wakes whoever awaits it.
LEMMA LoopEnds ==
    ASSUME NEW pcs, PcInv(pcs)
    PROVE  /\ PcInv(WithLoopEnded(pcs))
           /\ WithLoopEnded(pcs)["switch"] \in SwitchStarting <=>
                  pcs["switch"] \in SwitchStarting
           /\ WithLoopEnded(pcs)["switch"] \in HaltPhases <=>
                  pcs["switch"] \in HaltPhases
  BY PhaseFacts DEF PcInv, WithLoopEnded, Activities, Starters, Halters

\* #switch moves on, the loop being over, or begins or goes on halting.
LEMMA SwitchMoves ==
    ASSUME NEW pcs, PcInv(pcs), NEW x \in SwitchPhases,
           x \notin SwitchStarting \cup {"woken"} \/ pcs["loop"] = "ended"
    PROVE  /\ PcInv([pcs EXCEPT !["switch"] = x])
           /\ [pcs EXCEPT !["switch"] = x]["switch"] = x
           /\ [pcs EXCEPT !["switch"] = x]["loop"] = pcs["loop"]
  BY PhaseFacts DEF PcInv, Activities, Starters, Halters

LEMMA StopMoves ==
    ASSUME NEW pcs, PcInv(pcs), NEW x \in StopPhases
    PROVE  /\ PcInv([pcs EXCEPT !["stop"] = x])
           /\ [pcs EXCEPT !["stop"] = x]["switch"] = pcs["switch"]
  BY PhaseFacts DEF PcInv, Activities, Starters, Halters

-----------------------------------------------------------------------------
(* The pieces of a handler.  Each lemma says that the piece keeps its own     *)
(* variables in their types and #switch on its side of the halt.              *)

\* #switch stays where it was relative to its halt.
SameSide ==
    /\ pc'["switch"] \in SwitchStarting => pc["switch"] \in SwitchStarting
    /\ pc'["switch"] \in HaltPhases => pc["switch"] \in HaltPhases

\* What a start and its caller may change.
StartVarsOK ==
    /\ target \in [Activities -> 0..MaxChildren]
    /\ gen \in [Starters -> 0..MaxGenerations]
    /\ serve \in 0..MaxChildren
    /\ failures \in 0..MaxFailures
    /\ disposed \subseteq Generations

\* What the switch alone changes, and what only its own step types matter to.
NumbersOK ==
    /\ generation \in 0..MaxGenerations
    /\ created \in 0..MaxGenerations
    /\ previous \in 0..MaxGenerations

RestOK ==
    /\ account \in [Generations -> Accounts \cup {NoAccount}]
    /\ session \in [Generations -> Accounts \cup {NoAccount}]
    /\ child \in [Children -> [state : ChildStates, gen : 0..MaxGenerations]]
    /\ isReady \in BOOLEAN /\ isHalted \in BOOLEAN /\ isStopping \in BOOLEAN
    /\ faults \in 0..MaxFaults
    /\ overran \in BOOLEAN

LEMMA IInvFacts ==
    ASSUME IInv
    PROVE  /\ PcInv(pc) /\ GenerationInv /\ StartVarsOK
           /\ NumbersOK /\ RestOK
           /\ generation \in 0..MaxGenerations /\ created \in 0..MaxGenerations
           /\ previous \in 0..MaxGenerations
  BY DEF IInv, TypeOK, StartVarsOK, NumbersOK, RestOK

LEMMA IInvFromParts ==
    ASSUME PcInv(pc'), GenerationInv', StartVarsOK', NumbersOK', RestOK'
    PROVE  IInv'
  BY DEF IInv, TypeOK, StartVarsOK, NumbersOK, RestOK, PcInv

\* A step that leaves the generation numbers alone and #switch on its side.
LEMMA SameSideStep ==
    ASSUME IInv, PcInv(pc'), SameSide, StartVarsOK', RestOK',
           UNCHANGED <<generation, created, previous>>
    PROVE  IInv'
  <1>1. GenerationInv' /\ NumbersOK'
    BY IInvFacts DEF GenerationInv, NumbersOK, SameSide
  <1> QED
    BY <1>1, IInvFromParts

LEMMA ZeroInRange == 0 \in 0..MaxChildren /\ 0 \in 0..MaxGenerations /\ 0 \in 0..MaxFailures
  BY BoundsAssumption

LEMMA LoopHeadOK ==
    ASSUME IInv, NEW pcs, PcInv(pcs), NEW halted \in BOOLEAN,
           NEW current \in 0..MaxGenerations, LoopHead(pcs, halted, current),
           pcs["switch"] \notin SwitchStarting \cup {"woken"}
    PROVE  /\ PcInv(pc') /\ gen' \in [Starters -> 0..MaxGenerations]
           /\ pc'["switch"] \in SwitchStarting => pcs["switch"] \in SwitchStarting
           /\ pc'["switch"] \in HaltPhases => pcs["switch"] \in HaltPhases
  <1>1. gen' \in [Starters -> 0..MaxGenerations]
    BY IInvFacts, ZeroInRange DEF StartVarsOK, LoopHead, None
  <1>2. CASE halted \/ current = None
    <2>1. pc' = WithLoopEnded(pcs)
      BY <1>2 DEF LoopHead
    <2> QED
      BY <1>1, <2>1, LoopEnds
  <1>3. CASE ~(halted \/ current = None)
    <2>1. pc' = [pcs EXCEPT !["loop"] = "version"] /\ "version" \in LoopPhases
      BY <1>3, PhaseFacts DEF LoopHead
    <2> QED
      BY <1>1, <2>1, LoopMoves
  <1> QED
    BY <1>2, <1>3

LEMMA RecordFailureOK ==
    ASSUME IInv, NEW from \in 0..MaxFailures, RecordFailure(from),
           pc["loop"] # "ended"
    PROVE  /\ PcInv(pc') /\ SameSide
           /\ target' \in [Activities -> 0..MaxChildren]
           /\ gen' \in [Starters -> 0..MaxGenerations]
           /\ failures' \in 0..MaxFailures
  <1>1. pc["switch"] \notin SwitchStarting \cup {"woken"}
    BY DEF IInv, PcInv
  <1>2. target' \in [Activities -> 0..MaxChildren]
    BY IInvFacts, ZeroInRange DEF RecordFailure, None, StartVarsOK
  <1>3. CASE isHalted
    <2>1. generation \in 0..MaxGenerations /\ PcInv(pc)
      BY IInvFacts
    <2>2. LoopHead(pc, TRUE, generation) /\ failures' = failures
      BY <1>3 DEF RecordFailure
    <2>3. failures \in 0..MaxFailures
      BY IInvFacts DEF StartVarsOK
    <2> QED
      BY <1>1, <1>2, <2>1, <2>2, <2>3, LoopHeadOK DEF SameSide
  <1>4. CASE ~isHalted
    <2>1. pc' = [pc EXCEPT !["loop"] = "backoff"]
      BY <1>4 DEF RecordFailure
    <2>2. gen' \in [Starters -> 0..MaxGenerations]
      BY <1>4, IInvFacts, ZeroInRange DEF RecordFailure, StartVarsOK, None
    <2>3. failures' \in 0..MaxFailures
      BY <1>4, BoundsAssumption DEF RecordFailure
    <2>4. PcInv(pc) /\ "backoff" \in LoopPhases
      BY IInvFacts, PhaseFacts
    <2> QED
      BY <1>1, <1>2, <2>1, <2>2, <2>3, <2>4, LoopMoves DEF SameSide
  <1> QED
    BY <1>3, <1>4

LEMMA SwitchFailsOK ==
    ASSUME IInv, SwitchFails, pc["switch"] \in SwitchStarting
    PROVE  /\ PcInv(pc') /\ SameSide
           /\ serve' \in 0..MaxChildren
           /\ target' \in [Activities -> 0..MaxChildren]
           /\ gen' \in [Starters -> 0..MaxGenerations]
           /\ disposed' \subseteq Generations
  <1>1. /\ PcInv(pc) /\ pc["loop"] = "ended" /\ generation \in Generations
        /\ StartVarsOK
    BY IInvFacts DEF PcInv, GenerationInv
  <1>2. PICK x \in {"failStop", "failRetire"} :
            /\ pc' = [pc EXCEPT !["switch"] = x]
            /\ target' \in {[target EXCEPT !["switch"] = None],
                            [target EXCEPT !["switch"] = serve]}
            /\ serve' \in {None, serve}
            /\ disposed' \in {disposed, disposed \cup {generation}}
    BY DEF SwitchFails, StopServe
  <1>3. x \in SwitchStarting /\ x \in SwitchPhases /\ x \notin HaltPhases
    BY PhaseFacts
  <1>4. PcInv(pc') /\ SameSide
    BY <1>1, <1>2, <1>3, SwitchMoves DEF SameSide
  <1>5. gen' \in [Starters -> 0..MaxGenerations]
    BY <1>1, ZeroInRange DEF SwitchFails, StartVarsOK, None
  <1>6. target' \in [Activities -> 0..MaxChildren] /\ serve' \in 0..MaxChildren
    BY <1>1, <1>2, ZeroInRange DEF StartVarsOK, None
  <1>7. disposed' \subseteq Generations
    BY <1>1, <1>2 DEF StartVarsOK
  <1> QED
    BY <1>4, <1>5, <1>6, <1>7

LEMMA StartFailedOK ==
    ASSUME IInv, NEW p \in Starters, pc[p] \in StartPhases, StartFailed(p)
    PROVE  PcInv(pc') /\ SameSide /\ StartVarsOK'
  <1>1. CASE p = "loop" /\ RecordFailure(failures) /\ UNCHANGED <<serve, disposed>>
    <2>1. failures \in 0..MaxFailures /\ pc["loop"] # "ended"
      BY <1>1, IInvFacts, PhaseFacts DEF StartVarsOK
    <2>2. /\ PcInv(pc') /\ SameSide
          /\ target' \in [Activities -> 0..MaxChildren]
          /\ gen' \in [Starters -> 0..MaxGenerations]
          /\ failures' \in 0..MaxFailures
      BY <1>1, <2>1, RecordFailureOK
    <2> QED
      BY <1>1, <2>2, IInvFacts DEF StartVarsOK
  <1>2. CASE p = "switch" /\ SwitchFails /\ UNCHANGED failures
    <2>1. pc["switch"] \in SwitchStarting
      BY <1>2, PhaseFacts
    <2> QED
      BY <1>2, <2>1, SwitchFailsOK, IInvFacts DEF StartVarsOK
  <1> QED
    BY <1>1, <1>2 DEF StartFailed

\* A starter at work moves on within the start.
LEMMA StarterMoves ==
    ASSUME IInv, NEW p \in Starters, NEW x \in StartPhases,
           pc[p] \in StartPhases, pc' = [pc EXCEPT ![p] = x]
    PROVE  PcInv(pc') /\ SameSide
  <1>1. CASE p = "loop"
    <2>1. x \in LoopPhases /\ pc["loop"] # "ended"
      BY <1>1, PhaseFacts
    <2>2. PcInv(pc) /\ pc["switch"] \notin SwitchStarting \cup {"woken"}
      BY <2>1, IInvFacts DEF PcInv
    <2> QED
      BY <1>1, <2>1, <2>2, LoopMoves DEF SameSide
  <1>2. CASE p = "switch"
    <2>1. /\ PcInv(pc) /\ x \in SwitchPhases
          /\ pc["switch"] \in SwitchStarting /\ pc["loop"] = "ended"
      BY <1>2, IInvFacts, PhaseFacts DEF PcInv
    <2>2. x \in SwitchStarting /\ x \notin HaltPhases
      BY PhaseFacts
    <2>3. /\ PcInv([pc EXCEPT !["switch"] = x])
          /\ [pc EXCEPT !["switch"] = x]["switch"] = x
      BY <2>1, SwitchMoves
    <2>4. PcInv(pc') /\ pc'["switch"] = x
      BY <1>2, <2>3
    <2> QED
      BY <2>1, <2>2, <2>4 DEF SameSide
  <1> QED
    BY <1>1, <1>2 DEF Starters

LEMMA DetachOK ==
    ASSUME IInv, NEW p \in Starters, pc[p] \in StartPhases, Detach(p)
    PROVE  PcInv(pc') /\ SameSide /\ StartVarsOK'
  <1>1. CASE serve = None
    BY <1>1, StartFailedOK DEF Detach
  <1>2. CASE serve # None
    <2>1. /\ pc' = [pc EXCEPT ![p] = "detach"] /\ "detach" \in StartPhases
          /\ serve' = None /\ target' = [target EXCEPT ![p] = serve]
          /\ UNCHANGED <<gen, failures, disposed>>
      BY <1>2 DEF Detach, StopServe, StartPhases
    <2>2. StartVarsOK'
      BY <2>1, IInvFacts, ZeroInRange DEF StartVarsOK, None
    <2> QED
      BY <2>1, <2>2, StarterMoves
  <1> QED
    BY <1>1, <1>2

LEMMA FaultOK ==
    ASSUME IInv, Fault \/ UNCHANGED faults
    PROVE  faults' \in 0..MaxFaults
  BY BoundsAssumption, IInvFacts DEF Fault, RestOK

\* #halt parks p at one of its awaits: the switch for the first time or again.
LEMMA HalterMoves ==
    ASSUME IInv, NEW p \in Halters, NEW x \in HaltPhases,
           pc' = [pc EXCEPT ![p] = x], x # "woken" \/ pc["loop"] = "ended"
    PROVE  /\ PcInv(pc')
           /\ p = "stop" => SameSide
           /\ p = "switch" => pc'["switch"] \in HaltPhases
  <1>1. CASE p = "switch"
    <2>1. x \in SwitchPhases /\ x \notin SwitchStarting /\ PcInv(pc)
      BY PhaseFacts, IInvFacts
    <2>2. x \notin SwitchStarting \cup {"woken"} \/ pc["loop"] = "ended"
      BY <2>1
    <2>3. /\ PcInv([pc EXCEPT !["switch"] = x])
          /\ [pc EXCEPT !["switch"] = x]["switch"] = x
      BY <2>1, <2>2, SwitchMoves
    <2>4. PcInv(pc') /\ pc'["switch"] = x
      BY <1>1, <2>3
    <2> QED
      BY <1>1, <2>4
  <1>2. CASE p = "stop"
    <2>1. x \in StopPhases /\ PcInv(pc)
      BY PhaseFacts, IInvFacts
    <2>2. /\ PcInv([pc EXCEPT !["stop"] = x])
          /\ [pc EXCEPT !["stop"] = x]["switch"] = pc["switch"]
      BY <2>1, StopMoves
    <2>3. PcInv(pc') /\ pc'["switch"] = pc["switch"]
      BY <1>2, <2>2
    <2> QED
      BY <1>2, <2>3 DEF SameSide
  <1> QED
    BY <1>1, <1>2 DEF Halters

LEMMA AwaitLoopOK ==
    ASSUME IInv, NEW p \in Halters, AwaitLoop(p)
    PROVE  /\ PcInv(pc')
           /\ p = "stop" => SameSide
           /\ p = "switch" => pc'["switch"] \in HaltPhases
           /\ target' \in [Activities -> 0..MaxChildren]
  <1>1. target' \in [Activities -> 0..MaxChildren]
    BY IInvFacts, ZeroInRange DEF AwaitLoop, StartVarsOK, None
  <1>2. CASE pc["loop"] = "ended"
    <2>1. pc' = [pc EXCEPT ![p] = "woken"] /\ "woken" \in HaltPhases
      BY <1>2, PhaseFacts DEF AwaitLoop
    <2> QED
      BY <1>1, <1>2, <2>1, HalterMoves
  <1>3. CASE pc["loop"] # "ended"
    <2>1. pc' = [pc EXCEPT ![p] = "await"] /\ "await" \in HaltPhases
      BY <1>3, PhaseFacts DEF AwaitLoop
    <2> QED
      BY <1>1, <2>1, HalterMoves
  <1> QED
    BY <1>2, <1>3

LEMMA BeginHaltOK ==
    ASSUME IInv, NEW p \in Halters, BeginHalt(p)
    PROVE  /\ PcInv(pc')
           /\ p = "stop" => SameSide
           /\ p = "switch" => pc'["switch"] \in HaltPhases
           /\ target' \in [Activities -> 0..MaxChildren]
  <1>1. CASE serve # None
    <2>1. /\ pc' = [pc EXCEPT ![p] = "lock"] /\ "lock" \in HaltPhases
          /\ target' = [target EXCEPT ![p] = serve]
      BY <1>1, PhaseFacts DEF BeginHalt
    <2>2. target' \in [Activities -> 0..MaxChildren]
      BY <2>1, IInvFacts DEF StartVarsOK
    <2> QED
      BY <2>1, <2>2, HalterMoves
  <1>2. CASE serve = None
    BY <1>2, AwaitLoopOK DEF BeginHalt
  <1> QED
    BY <1>1, <1>2

\* The loop is started over: #switch is done.
LEMMA RunServingOK ==
    ASSUME IInv, pc["switch"] \in SwitchStarting, NEW c \in 0..MaxChildren,
           RunServing(c)
    PROVE  /\ PcInv(pc') /\ SameSide
           /\ target' \in [Activities -> 0..MaxChildren]
           /\ gen' \in [Starters -> 0..MaxGenerations]
           /\ isReady' \in BOOLEAN
  <1> DEFINE idle == [pc EXCEPT !["switch"] = "idle"]
             x == IF isHalted THEN "ended" ELSE "serving"
  <1>1. /\ PcInv(pc) /\ StartVarsOK /\ RestOK
        /\ pc \in [Activities -> Phases]
    BY IInvFacts DEF PcInv
  <1>2. /\ "idle" \in SwitchPhases /\ "idle" \notin SwitchStarting \cup {"woken"}
        /\ "idle" \notin HaltPhases /\ x \in LoopPhases
    BY PhaseFacts
  <1>3. PcInv(idle) /\ idle["switch"] = "idle"
    BY <1>1, <1>2, SwitchMoves
  <1>4. pc' = [idle EXCEPT !["loop"] = x]
    BY <1>1 DEF RunServing, Activities, Starters, Halters
  <1>5. PcInv(pc') /\ SameSide
    BY <1>2, <1>3, <1>4, LoopMoves DEF SameSide
  <1>6. target' \in [Activities -> 0..MaxChildren]
    BY <1>1, ZeroInRange DEF RunServing, StartVarsOK, None
  <1>7. gen' \in [Starters -> 0..MaxGenerations] /\ isReady' \in BOOLEAN
    BY <1>1, ZeroInRange DEF RunServing, StartVarsOK, RestOK, None
  <1> QED
    BY <1>5, <1>6, <1>7

-----------------------------------------------------------------------------
(* The initial states.                                                     *)

LEMMA InitIInv == Init => IInv
  <1> SUFFICES ASSUME Init PROVE IInv
    OBVIOUS
  <1>1. pc = [p \in Activities |->
                IF p # "loop" THEN "idle"
                ELSE IF generation = None THEN "ended" ELSE "version"]
    BY DEF Init
  <1>2. PcInv(pc)
    BY <1>1, PhaseFacts DEF PcInv, Activities, Starters, Halters
  <1>3. GenerationInv
    BY <1>1, PhaseFacts DEF GenerationInv, Activities, Starters, Halters
  <1>4. NumbersOK
    BY BoundsAssumption DEF Init, None, NumbersOK
  <1>5. StartVarsOK
    <2>1. gen \in [Starters -> 0..MaxGenerations]
      BY <1>4, ZeroInRange DEF Init, None, NumbersOK
    <2>2. target \in [Activities -> 0..MaxChildren]
      BY ZeroInRange DEF Init, None
    <2>3. serve \in 0..MaxChildren /\ failures \in 0..MaxFailures
      BY ZeroInRange DEF Init, None
    <2>4. disposed \subseteq Generations
      BY DEF Init
    <2> QED
      BY <2>1, <2>2, <2>3, <2>4 DEF StartVarsOK
  <1>6. RestOK
    <2>1. child \in [Children -> [state : ChildStates, gen : 0..MaxGenerations]]
      BY ZeroInRange DEF Init, None, ChildStates
    <2>2. faults \in 0..MaxFaults
      BY BoundsAssumption DEF Init
    <2> QED
      BY <2>1, <2>2 DEF Init, RestOK
  <1>7. TypeOK
    BY <1>2, <1>4, <1>5, <1>6 DEF TypeOK, PcInv, NumbersOK, StartVarsOK, RestOK
  <1> QED
    BY <1>2, <1>3, <1>7 DEF IInv

-----------------------------------------------------------------------------
(* The steps.                                                              *)

\* A step of a start that moves to another of its awaits.
LEMMA StartGoesOn ==
    ASSUME IInv, NEW p \in Starters, NEW x \in StartPhases,
           pc[p] \in StartPhases, pc' = [pc EXCEPT ![p] = x],
           target' \in [Activities -> 0..MaxChildren], serve' \in 0..MaxChildren,
           UNCHANGED <<gen, failures, disposed, generation, created, previous>>,
           RestOK'
    PROVE  IInv'
  <1>1. PcInv(pc') /\ SameSide
    BY StarterMoves
  <1>2. StartVarsOK'
    BY IInvFacts DEF StartVarsOK
  <1> QED
    BY <1>1, <1>2, SameSideStep

\* A step of a start that hands its failure to its caller.
LEMMA StartGivesUp ==
    ASSUME IInv, NEW p \in Starters, pc[p] \in StartPhases,
           StartFailed(p) \/ Detach(p),
           UNCHANGED <<generation, created, previous>>, RestOK'
    PROVE  IInv'
  <1>1. PcInv(pc') /\ SameSide /\ StartVarsOK'
    BY StartFailedOK, DetachOK
  <1> QED
    BY <1>1, SameSideStep

LEMMA StartKeeps ==
    ASSUME IInv, NEW p \in Starters, Start(p)
    PROVE  IInv'
  <1> USE PhaseFacts
  <1>a. PcInv(pc) /\ StartVarsOK /\ NumbersOK /\ RestOK
    BY IInvFacts
  <1>1. CASE VersionOk(p)
    <2>1. RestOK'
      BY <1>a, <1>1 DEF VersionOk, RestOK, generationVars, flagVars
    <2>2. /\ target' \in [Activities -> 0..MaxChildren] /\ serve' \in 0..MaxChildren
          /\ UNCHANGED <<gen, failures, disposed, generation, created, previous>>
          /\ pc[p] \in StartPhases /\ pc' = [pc EXCEPT ![p] = "login"]
      BY <1>a, <1>1 DEF VersionOk, At, Goto, StartVarsOK, generationVars
    <2> QED
      BY <2>1, <2>2, StartGoesOn
  <1>2. CASE VersionFails(p)
    <2>1. RestOK'
      <3>1. faults' \in 0..MaxFaults
        BY <1>2, FaultOK DEF VersionFails, CommandFails
      <3> QED
        BY <3>1, <1>a, <1>2 DEF VersionFails, RestOK, generationVars, flagVars
    <2>2. /\ StartFailed(p) /\ pc[p] \in StartPhases
          /\ UNCHANGED <<generation, created, previous>>
      BY <1>2 DEF VersionFails, At
    <2> QED
      BY <2>1, <2>2, StartGivesUp
  <1>3. CASE VersionRefused(p)
    <2>1. RestOK'
      <3>1. faults' \in 0..MaxFaults
        BY <1>3, FaultOK DEF VersionRefused
      <3> QED
        BY <3>1, <1>a, <1>3 DEF VersionRefused, RestOK, flagVars
    <2>2. pc[p] = "version" /\ UNCHANGED <<generation, created, previous, failures>>
      BY <1>3 DEF VersionRefused, At
    <2>3. CASE p = "loop"
      <3>1. /\ LoopHead(pc, TRUE, generation)
            /\ UNCHANGED <<target, serve, disposed>>
        BY <1>3, <2>3 DEF VersionRefused
      <3>2. pc["switch"] \notin SwitchStarting \cup {"woken"}
        BY <1>a, <2>2, <2>3 DEF PcInv
      <3>3. generation \in 0..MaxGenerations
        BY <1>a DEF NumbersOK
      <3>4. PcInv(pc') /\ SameSide /\ gen' \in [Starters -> 0..MaxGenerations]
        BY <1>a, <3>1, <3>2, <3>3, LoopHeadOK DEF SameSide
      <3>5. StartVarsOK'
        BY <1>a, <2>2, <3>1, <3>4 DEF StartVarsOK
      <3> QED
        BY <2>1, <2>2, <3>4, <3>5, SameSideStep
    <2>4. CASE p = "switch"
      <3>1. SwitchFails /\ pc["switch"] \in SwitchStarting
        BY <1>3, <2>2, <2>4 DEF VersionRefused
      <3>2. PcInv(pc') /\ SameSide /\ StartVarsOK'
        BY <1>a, <2>2, <3>1, SwitchFailsOK DEF StartVarsOK
      <3> QED
        BY <2>1, <2>2, <3>2, SameSideStep
    <2> QED
      BY <2>3, <2>4 DEF Starters
  <1>4. CASE LoginOk(p)
    <2>1. RestOK'
      <3>1. session' \in [Generations -> Accounts \cup {NoAccount}]
        BY <1>a, <1>4 DEF LoginOk, LogsIn, RestOK
      <3>2. faults' \in 0..MaxFaults
        BY <1>4, FaultOK DEF LoginOk, CommandFails
      <3> QED
        BY <3>1, <3>2, <1>a, <1>4 DEF LoginOk, RestOK, flagVars
    <2>2. /\ target' \in [Activities -> 0..MaxChildren] /\ serve' \in 0..MaxChildren
          /\ UNCHANGED <<gen, failures, disposed, generation, created, previous>>
          /\ pc[p] \in StartPhases /\ pc' = [pc EXCEPT ![p] = "port"]
      BY <1>a, <1>4 DEF LoginOk, At, Goto, StartVarsOK, generationVars
    <2> QED
      BY <2>1, <2>2, StartGoesOn
  <1>5. CASE LoginFails(p)
    <2>1. RestOK'
      <3>1. session' \in [Generations -> Accounts \cup {NoAccount}]
        BY <1>a, <1>5 DEF LoginFails, LogsIn, RestOK
      <3>2. faults' \in 0..MaxFaults
        BY <1>5, FaultOK DEF LoginFails, CommandFails
      <3> QED
        BY <3>1, <3>2, <1>a, <1>5 DEF LoginFails, RestOK, flagVars
    <2>2. /\ StartFailed(p) /\ pc[p] \in StartPhases
          /\ UNCHANGED <<generation, created, previous>>
      BY <1>5 DEF LoginFails, At
    <2> QED
      BY <2>1, <2>2, StartGivesUp
  <1>6. CASE Spawn(p)
    <2>1. PICK c \in Children :
            /\ child' = [child EXCEPT ![c] = [state |-> "locked", gen |-> gen[p]]]
            /\ target' = [target EXCEPT ![p] = c]
            /\ \/ serve' = None /\ pc' = [pc EXCEPT ![p] = "detach"]
               \/ serve' = c /\ pc' = [pc EXCEPT ![p] = "status"]
      BY <1>6 DEF Spawn
    <2>2. /\ target' \in [Activities -> 0..MaxChildren] /\ serve' \in 0..MaxChildren
          /\ UNCHANGED <<gen, failures, disposed, generation, created, previous>>
          /\ pc[p] \in StartPhases
      <3>1. c \in 0..MaxChildren
        BY DEF Children
      <3> QED
        BY <1>a, <1>6, <2>1, <3>1, ZeroInRange
        DEF Spawn, At, StartVarsOK, generationVars, None
    <2>3. RestOK'
      <3>1. gen[p] \in 0..MaxGenerations
        BY <1>a DEF StartVarsOK
      <3>2. child' \in [Children -> [state : ChildStates, gen : 0..MaxGenerations]]
        BY <1>a, <2>1, <3>1 DEF RestOK, ChildStates
      <3> QED
        BY <1>a, <1>6, <3>2 DEF Spawn, RestOK, generationVars, flagVars
    <2>4. CASE pc' = [pc EXCEPT ![p] = "detach"]
      BY <2>2, <2>3, <2>4, StartGoesOn
    <2>5. CASE pc' = [pc EXCEPT ![p] = "status"]
      BY <2>2, <2>3, <2>5, StartGoesOn
    <2> QED
      BY <2>1, <2>4, <2>5
  <1>7. CASE StatusOk(p)
    <2>1. RestOK'
      BY <1>a, <1>7 DEF StatusOk, RestOK, generationVars, flagVars
    <2>2. /\ target' \in [Activities -> 0..MaxChildren] /\ serve' \in 0..MaxChildren
          /\ UNCHANGED <<gen, failures, disposed, generation, created, previous>>
          /\ pc[p] \in StartPhases /\ pc' = [pc EXCEPT ![p] = "unlock"]
      BY <1>a, <1>7 DEF StatusOk, At, Goto, StartVarsOK, generationVars
    <2> QED
      BY <2>1, <2>2, StartGoesOn
  <1>8. CASE StatusFails(p)
    <2>1. RestOK'
      <3>1. faults' \in 0..MaxFaults
        BY <1>8, FaultOK DEF StatusFails, CommandFails
      <3> QED
        BY <3>1, <1>a, <1>8 DEF StatusFails, RestOK, generationVars, flagVars
    <2>2. /\ target' \in [Activities -> 0..MaxChildren] /\ serve' \in 0..MaxChildren
          /\ UNCHANGED <<gen, failures, disposed, generation, created, previous>>
          /\ pc[p] \in StartPhases /\ pc' = [pc EXCEPT ![p] = "poll"]
      BY <1>a, <1>8 DEF StatusFails, At, Goto, StartVarsOK, generationVars
    <2> QED
      BY <2>1, <2>2, StartGoesOn
  <1>9. CASE PollAgain(p)
    <2>1. RestOK'
      BY <1>a, <1>9 DEF PollAgain, RestOK, generationVars, flagVars
    <2>2. /\ target' \in [Activities -> 0..MaxChildren] /\ serve' \in 0..MaxChildren
          /\ UNCHANGED <<gen, failures, disposed, generation, created, previous>>
          /\ pc[p] \in StartPhases /\ pc' = [pc EXCEPT ![p] = "status"]
      BY <1>a, <1>9 DEF PollAgain, At, Goto, StartVarsOK, generationVars
    <2> QED
      BY <2>1, <2>2, StartGoesOn
  <1>10. CASE PollEnds(p)
    <2>1. RestOK'
      <3>1. faults' \in 0..MaxFaults
        BY <1>10, FaultOK DEF PollEnds, CommandFails
      <3> QED
        BY <3>1, <1>a, <1>10 DEF PollEnds, RestOK, generationVars, flagVars
    <2>2. /\ Detach(p) /\ pc[p] \in StartPhases
          /\ UNCHANGED <<generation, created, previous>>
      BY <1>10 DEF PollEnds, At
    <2> QED
      BY <2>1, <2>2, StartGivesUp
  <1>11. CASE UnlockOk(p)
    <2>1. RestOK'
      <3>1. serve \in Children
        BY <1>11 DEF UnlockOk, Reaches, IsUp
      <3>2. child' \in [Children -> [state : ChildStates, gen : 0..MaxGenerations]]
        BY <1>a, <1>11, <3>1 DEF UnlockOk, RestOK, ChildStates
      <3>3. faults' \in 0..MaxFaults
        BY <1>11, FaultOK DEF UnlockOk
      <3> QED
        BY <3>2, <3>3, <1>a, <1>11 DEF UnlockOk, RestOK, generationVars, flagVars
    <2>2. /\ target' \in [Activities -> 0..MaxChildren] /\ serve' \in 0..MaxChildren
          /\ UNCHANGED <<gen, failures, disposed, generation, created, previous>>
          /\ pc[p] \in StartPhases /\ pc' = [pc EXCEPT ![p] = "sync"]
      BY <1>a, <1>11 DEF UnlockOk, At, Goto, StartVarsOK, generationVars
    <2> QED
      BY <2>1, <2>2, StartGoesOn
  <1>12. CASE UnlockSettles(p)
    <2>1. RestOK'
      <3>1. serve \in Children
        BY <1>12 DEF UnlockSettles, Reaches, IsUp
      <3>2. child' \in [Children -> [state : ChildStates, gen : 0..MaxGenerations]]
        BY <1>a, <1>12, <3>1 DEF UnlockSettles, RestOK, ChildStates
      <3>3. faults' \in 0..MaxFaults
        BY <1>12, FaultOK DEF UnlockSettles
      <3> QED
        BY <3>2, <3>3, <1>a, <1>12 DEF UnlockSettles, RestOK, generationVars, flagVars
    <2>2. /\ target' \in [Activities -> 0..MaxChildren] /\ serve' \in 0..MaxChildren
          /\ UNCHANGED <<gen, failures, disposed, generation, created, previous>>
          /\ pc[p] \in StartPhases /\ pc' = [pc EXCEPT ![p] = "settle"]
      BY <1>a, <1>12 DEF UnlockSettles, At, Goto, StartVarsOK, generationVars
    <2> QED
      BY <2>1, <2>2, StartGoesOn
  <1>13. CASE UnlockAgain(p)
    <2>1. RestOK'
      BY <1>a, <1>13 DEF UnlockAgain, RestOK, generationVars, flagVars
    <2>2. /\ target' \in [Activities -> 0..MaxChildren] /\ serve' \in 0..MaxChildren
          /\ UNCHANGED <<gen, failures, disposed, generation, created, previous>>
          /\ pc[p] \in StartPhases /\ pc' = [pc EXCEPT ![p] = "unlock"]
      BY <1>a, <1>13 DEF UnlockAgain, At, Goto, StartVarsOK, generationVars
    <2> QED
      BY <2>1, <2>2, StartGoesOn
  <1>14. CASE UnlockFails(p)
    <2>1. RestOK'
      <3>1. faults' \in 0..MaxFaults
        BY <1>14, FaultOK DEF UnlockFails, CommandFails
      <3> QED
        BY <3>1, <1>a, <1>14 DEF UnlockFails, RestOK, generationVars, flagVars
    <2>2. /\ Detach(p) /\ pc[p] \in StartPhases
          /\ UNCHANGED <<generation, created, previous>>
      BY <1>14 DEF UnlockFails, At
    <2> QED
      BY <2>1, <2>2, StartGivesUp
  <1>15. CASE Detached(p)
    <2>1. RestOK'
      BY <1>a, <1>15 DEF Detached, RestOK, generationVars, flagVars
    <2>2. /\ StartFailed(p) /\ pc[p] \in StartPhases
          /\ UNCHANGED <<generation, created, previous>>
      BY <1>15 DEF Detached, Notices
    <2> QED
      BY <2>1, <2>2, StartGivesUp
  <1> QED
    BY <1>1, <1>2, <1>3, <1>4, <1>5, <1>6, <1>7, <1>8, <1>9, <1>10, <1>11, <1>12, <1>13, <1>14, <1>15 DEF Start

\* The loop's own steps: none is taken once a switch has been woken.
LEMMA LoopKeeps ==
    ASSUME IInv, Loop
    PROVE  IInv'
  <1> USE PhaseFacts
  <1>a. PcInv(pc) /\ StartVarsOK /\ NumbersOK /\ RestOK
    BY IInvFacts
  <1>1. CASE LoopStarts
    <2>1. /\ pc["switch"] \notin SwitchStarting \cup {"woken"}
          /\ pc' = [pc EXCEPT !["loop"] = "serving"]
      BY <1>a, <1>1 DEF LoopStarts, At, PcInv
    <2>2. PcInv(pc') /\ SameSide
      BY <1>a, <2>1, LoopMoves DEF SameSide
    <2>3. StartVarsOK' /\ RestOK' /\ UNCHANGED <<generation, created, previous>>
      BY <1>a, <1>1, ZeroInRange
      DEF LoopStarts, StartVarsOK, RestOK, generationVars, None
    <2> QED
      BY <2>2, <2>3, SameSideStep
  <1>3. CASE ChildExitSeen
    <2>1. PICK healthy \in BOOLEAN : RecordFailure(IF healthy THEN 0 ELSE failures)
      BY <1>3 DEF ChildExitSeen
    <2>2. (IF healthy THEN 0 ELSE failures) \in 0..MaxFailures
      BY <1>a, ZeroInRange DEF StartVarsOK
    <2>3. pc["loop"] # "ended"
      BY <1>3 DEF ChildExitSeen, Notices
    <2>4. /\ PcInv(pc') /\ SameSide
          /\ target' \in [Activities -> 0..MaxChildren]
          /\ gen' \in [Starters -> 0..MaxGenerations]
          /\ failures' \in 0..MaxFailures
      BY <2>1, <2>2, <2>3, RecordFailureOK
    <2>5. StartVarsOK' /\ RestOK' /\ UNCHANGED <<generation, created, previous>>
      BY <1>a, <1>3, <2>4, ZeroInRange
      DEF ChildExitSeen, StartVarsOK, RestOK, generationVars, None
    <2> QED
      BY <2>4, <2>5, SameSideStep
  <1>4. CASE BackoffEnds
    <2>1. /\ LoopHead(pc, isHalted, generation)
          /\ pc["switch"] \notin SwitchStarting \cup {"woken"}
          /\ isHalted \in BOOLEAN /\ generation \in 0..MaxGenerations
      BY <1>a, <1>4 DEF BackoffEnds, At, PcInv, RestOK, NumbersOK
    <2>2. PcInv(pc') /\ SameSide /\ gen' \in [Starters -> 0..MaxGenerations]
      BY <1>a, <2>1, LoopHeadOK DEF SameSide
    <2>3. StartVarsOK' /\ RestOK' /\ UNCHANGED <<generation, created, previous>>
      BY <1>a, <1>4, <2>2
      DEF BackoffEnds, StartVarsOK, RestOK, generationVars, flagVars
    <2> QED
      BY <2>2, <2>3, SameSideStep
  <1> QED
    BY <1>1, <1>3, <1>4 DEF Loop

\* A halt in progress: the switch cannot be past it.
LEMMA HaltKeeps ==
    ASSUME IInv, NEW p \in Halters, Halt(p)
    PROVE  IInv'
  <1> USE PhaseFacts
  <1>a. PcInv(pc) /\ StartVarsOK /\ NumbersOK /\ RestOK /\ GenerationInv
    BY IInvFacts
  <1>b. SUFFICES /\ PcInv(pc')
                 /\ p = "stop" => SameSide
                 /\ p = "switch" => pc'["switch"] \in HaltPhases
                 /\ StartVarsOK' /\ RestOK'
    <2>1. pc[p] \in HaltPhases /\ UNCHANGED <<generation, created, previous>>
      BY DEF Halt, LockAnswered, ChildStopped, At, Notices, generationVars
    <2>2. SameSide
      BY <1>b, <2>1 DEF SameSide, Halters
    <2> QED
      BY <1>b, <2>1, <2>2, SameSideStep
  <1>1. CASE LockAnswered(p)
    <2>1. RestOK'
      <3>1. child' \in [Children -> [state : ChildStates, gen : 0..MaxGenerations]]
        BY <1>a, <1>1 DEF LockAnswered, RestOK, ChildStates, IsUp
      <3> QED
        BY <1>a, <1>1, <3>1 DEF LockAnswered, RestOK, generationVars, flagVars
    <2>2. CASE serve # None
      <3>1. /\ pc' = [pc EXCEPT ![p] = "term"] /\ "term" \in HaltPhases
            /\ serve' = None /\ target' = [target EXCEPT ![p] = serve]
        BY <1>1, <2>2 DEF LockAnswered, StopServe
      <3>2. StartVarsOK'
        BY <1>a, <1>1, <3>1, ZeroInRange
        DEF LockAnswered, StartVarsOK, generationVars, None
      <3> QED
        BY <2>1, <3>1, <3>2, HalterMoves
    <2>3. CASE serve = None
      <3>1. AwaitLoop(p) /\ UNCHANGED serve
        BY <1>1, <2>3 DEF LockAnswered
      <3>2. /\ PcInv(pc')
            /\ p = "stop" => SameSide
            /\ p = "switch" => pc'["switch"] \in HaltPhases
            /\ target' \in [Activities -> 0..MaxChildren]
        BY <3>1, AwaitLoopOK
      <3>3. StartVarsOK'
        BY <1>a, <1>1, <3>1, <3>2 DEF LockAnswered, StartVarsOK, generationVars
      <3> QED
        BY <2>1, <3>2, <3>3
    <2> QED
      BY <2>2, <2>3
  <1>2. CASE ChildStopped(p)
    <2>1. /\ PcInv(pc')
          /\ p = "stop" => SameSide
          /\ p = "switch" => pc'["switch"] \in HaltPhases
          /\ target' \in [Activities -> 0..MaxChildren]
      BY <1>2, AwaitLoopOK DEF ChildStopped
    <2>2. StartVarsOK' /\ RestOK'
      BY <1>a, <1>2, <2>1
      DEF ChildStopped, StartVarsOK, RestOK, generationVars, flagVars
    <2> QED
      BY <2>1, <2>2
  <1> QED
    BY <1>1, <1>2 DEF Halt

\* A step of #switch past its halt that leaves it there or ends it.
LEMMA SwitchGoesOn ==
    ASSUME IInv, pc["switch"] \in SwitchStarting,
           NEW x \in SwitchStarting \cup {"idle"},
           pc' = [pc EXCEPT !["switch"] = x]
    PROVE  PcInv(pc') /\ SameSide
  <1>1. PcInv(pc) /\ pc["loop"] = "ended"
    BY IInvFacts DEF PcInv
  <1>2. x \in SwitchPhases /\ x \notin HaltPhases
    BY PhaseFacts
  <1>3. /\ PcInv([pc EXCEPT !["switch"] = x])
        /\ [pc EXCEPT !["switch"] = x]["switch"] = x
    BY <1>1, <1>2, SwitchMoves
  <1>4. PcInv(pc') /\ pc'["switch"] = x
    BY <1>3
  <1> QED
    BY <1>2, <1>4 DEF SameSide

LEMMA SwitchKeeps ==
    ASSUME IInv, Switch
    PROVE  IInv'
  <1> USE PhaseFacts
  <1>a. PcInv(pc) /\ StartVarsOK /\ NumbersOK /\ RestOK /\ GenerationInv
    BY IInvFacts
  <1>1. CASE CreateNext
    <2>1. /\ pc["switch"] = "woken" /\ pc["loop"] = "ended"
          /\ created < MaxGenerations
      BY <1>a, <1>1 DEF CreateNext, Resumes, PcInv, GenerationInv
    <2>2. pc' = [pc EXCEPT !["switch"] = "rmNext"] /\ UNCHANGED <<target, gen>>
      BY <1>1 DEF CreateNext, Goto
    <2>3. PcInv(pc') /\ pc'["switch"] = "rmNext"
      <3>1. /\ PcInv([pc EXCEPT !["switch"] = "rmNext"])
            /\ [pc EXCEPT !["switch"] = "rmNext"]["switch"] = "rmNext"
        BY <1>a, <2>1, SwitchMoves
      <3> QED
        BY <2>2, <3>1
    <2>4. created' \in Generations /\ generation' = created'
      BY <1>a, <1>1, <2>1, BoundsAssumption DEF CreateNext, NumbersOK, Generations
    <2>5. GenerationInv'
      BY <2>3, <2>4 DEF GenerationInv
    <2>6. NumbersOK'
      BY <1>a, <1>1, <2>4 DEF CreateNext, NumbersOK, Generations
    <2>7. StartVarsOK'
      BY <1>a, <1>1, <2>2 DEF CreateNext, StartVarsOK
    <2>8. RestOK'
      <3>1. \E a \in Accounts : account' = [account EXCEPT ![created'] = a]
        BY <1>1 DEF CreateNext
      <3>2. account' \in [Generations -> Accounts \cup {NoAccount}]
        BY <1>a, <3>1 DEF RestOK
      <3>3. UNCHANGED <<session, child, isReady, isHalted, isStopping, faults, overran>>
        BY <1>1 DEF CreateNext, flagVars
      <3> QED
        BY <1>a, <3>2, <3>3 DEF RestOK
    <2> QED
      BY <2>3, <2>5, <2>6, <2>7, <2>8, IInvFromParts
  <1>2. CASE StartNext
    <2>1. /\ pc["switch"] \in SwitchStarting
          /\ pc' = [pc EXCEPT !["switch"] = "version"]
      BY <1>2 DEF StartNext, At
    <2>2. PcInv(pc') /\ SameSide
      BY <2>1, SwitchGoesOn
    <2>3. StartVarsOK'
      BY <1>a, <1>2, ZeroInRange DEF StartNext, StartVarsOK, NumbersOK
    <2>4. RestOK'
      BY <1>a, <1>2 DEF StartNext, Removed, RestOK
    <2> QED
      BY <1>2, <2>2, <2>3, <2>4, SameSideStep DEF StartNext
  <1>3. CASE SwitchStarts
    <2>1. /\ pc["switch"] \in SwitchStarting
          /\ target["switch"] \in 0..MaxChildren
          /\ UNCHANGED <<generation, created, previous>>
      BY <1>a, <1>3
      DEF SwitchStarts, At, StartVarsOK, Activities, Starters, Halters
    <2>2. CASE previous = None
      <3>1. RunServing(target["switch"]) /\ UNCHANGED disposed
        BY <1>3, <2>2 DEF SwitchStarts
      <3>2. /\ PcInv(pc') /\ SameSide
            /\ target' \in [Activities -> 0..MaxChildren]
            /\ gen' \in [Starters -> 0..MaxGenerations]
            /\ isReady' \in BOOLEAN
        BY <2>1, <3>1, RunServingOK
      <3>3. StartVarsOK' /\ RestOK'
        BY <1>a, <1>3, <3>1, <3>2 DEF SwitchStarts, StartVarsOK, RestOK
      <3> QED
        BY <2>1, <3>2, <3>3, SameSideStep
    <2>3. CASE previous # None
      <3>1. /\ disposed' = disposed \cup {previous}
            /\ pc' = [pc EXCEPT !["switch"] = "retire"]
            /\ UNCHANGED <<target, gen, isReady>>
        BY <1>3, <2>3 DEF SwitchStarts, Goto
      <3>2. PcInv(pc') /\ SameSide
        BY <2>1, <3>1, SwitchGoesOn
      <3>3. previous \in Generations
        BY <1>a, <2>3 DEF NumbersOK, Generations, None
      <3>4. StartVarsOK' /\ RestOK'
        BY <1>a, <1>3, <3>1, <3>3 DEF SwitchStarts, StartVarsOK, RestOK
      <3> QED
        BY <2>1, <3>2, <3>4, SameSideStep
    <2> QED
      BY <2>2, <2>3
  <1>4. CASE SwitchStopped
    <2>1. SwitchFails /\ pc["switch"] \in SwitchStarting
      BY <1>4 DEF SwitchStopped, At
    <2>2. /\ PcInv(pc') /\ SameSide
          /\ serve' \in 0..MaxChildren
          /\ target' \in [Activities -> 0..MaxChildren]
          /\ gen' \in [Starters -> 0..MaxGenerations]
          /\ disposed' \subseteq Generations
      BY <2>1, SwitchFailsOK
    <2>3. StartVarsOK' /\ RestOK' /\ UNCHANGED <<generation, created, previous>>
      BY <1>a, <1>4, <2>2 DEF SwitchStopped, StartVarsOK, RestOK, flagVars
    <2> QED
      BY <2>2, <2>3, SameSideStep
  <1>5. CASE PreviousRetired
    <2>1. /\ pc["switch"] \in SwitchStarting
          /\ target["switch"] \in 0..MaxChildren
      BY <1>a, <1>5
      DEF PreviousRetired, At, StartVarsOK, Activities, Starters, Halters
    <2>2. /\ PcInv(pc') /\ SameSide
          /\ target' \in [Activities -> 0..MaxChildren]
          /\ gen' \in [Starters -> 0..MaxGenerations]
          /\ isReady' \in BOOLEAN
      BY <1>5, <2>1, RunServingOK DEF PreviousRetired
    <2>3. StartVarsOK'
      BY <1>a, <1>5, <2>2 DEF PreviousRetired, StartVarsOK
    <2>4. RestOK'
      BY <1>a, <1>5, <2>2 DEF PreviousRetired, Removed, RestOK
    <2>5. GenerationInv' /\ NumbersOK'
      BY <1>a, <1>5, <2>2, ZeroInRange
      DEF PreviousRetired, GenerationInv, NumbersOK, SameSide, None
    <2> QED
      BY <2>2, <2>3, <2>4, <2>5, IInvFromParts
  <1>6. CASE RemovalFails
    <2>1. /\ pc["switch"] \in SwitchStarting
          /\ pc' = [pc EXCEPT !["switch"] = "idle"]
      BY <1>6 DEF RemovalFails, At
    <2>2. PcInv(pc') /\ SameSide
      BY <2>1, SwitchGoesOn
    <2>3. StartVarsOK'
      BY <1>a, <1>6, ZeroInRange DEF RemovalFails, StartVarsOK, None
    <2>4. faults' \in 0..MaxFaults
      BY <1>6, FaultOK DEF RemovalFails
    <2>5. RestOK'
      BY <1>a, <1>6, <2>4 DEF RemovalFails, RestOK, flagVars
    <2>6. GenerationInv' /\ NumbersOK'
      BY <1>a, <1>6, <2>2, ZeroInRange
      DEF RemovalFails, GenerationInv, NumbersOK, SameSide, None
    <2> QED
      BY <2>2, <2>3, <2>5, <2>6, IInvFromParts
  <1>7. CASE FailedChildStopped
    <2>1. SwitchFails /\ pc["switch"] \in SwitchStarting
      BY <1>7 DEF FailedChildStopped, Notices
    <2>2. /\ PcInv(pc') /\ SameSide
          /\ serve' \in 0..MaxChildren
          /\ target' \in [Activities -> 0..MaxChildren]
          /\ gen' \in [Starters -> 0..MaxGenerations]
          /\ disposed' \subseteq Generations
      BY <2>1, SwitchFailsOK
    <2>3. StartVarsOK' /\ RestOK' /\ UNCHANGED <<generation, created, previous>>
      BY <1>a, <1>7, <2>2 DEF FailedChildStopped, StartVarsOK, RestOK, flagVars
    <2> QED
      BY <2>2, <2>3, SameSideStep
  <1>8. CASE SwitchUndone
    <2> DEFINE idle == [pc EXCEPT !["switch"] = "idle"]
    <2>1. pc["switch"] \in SwitchStarting
      BY <1>8 DEF SwitchUndone, At
    <2>2. /\ PcInv(idle) /\ idle["switch"] = "idle"
          /\ "idle" \notin SwitchStarting \cup {"woken"} /\ "idle" \notin HaltPhases
      BY <1>a, SwitchMoves
    <2>3. /\ PcInv(pc') /\ gen' \in [Starters -> 0..MaxGenerations]
          /\ isHalted' \in BOOLEAN
          /\ pc'["switch"] \notin SwitchStarting /\ pc'["switch"] \notin HaltPhases
      <3>1. CASE isStopping
        BY <1>a, <1>8, <2>2, <3>1 DEF SwitchUndone, StartVarsOK, RestOK
      <3>2. CASE ~isStopping
        <4>1. LoopHead(idle, FALSE, previous) /\ previous \in 0..MaxGenerations
              /\ isHalted' = FALSE
          BY <1>a, <1>8, <3>2 DEF SwitchUndone, NumbersOK
        <4> QED
          BY <2>2, <4>1, LoopHeadOK
      <3> QED
        BY <3>1, <3>2
    <2>4. StartVarsOK'
      BY <1>a, <1>8, <2>3 DEF SwitchUndone, StartVarsOK
    <2>5. RestOK'
      BY <1>a, <1>8, <2>3 DEF SwitchUndone, Removed, RestOK
    <2>6. GenerationInv' /\ NumbersOK'
      BY <1>a, <1>8, <2>3, ZeroInRange DEF SwitchUndone, GenerationInv, NumbersOK, None
    <2> QED
      BY <2>3, <2>4, <2>5, <2>6, IInvFromParts
  <1> QED
    BY <1>1, <1>2, <1>3, <1>4, <1>5, <1>6, <1>7, <1>8 DEF Switch

LEMMA NextIInv == IInv /\ [Next]_vars => IInv'
  <1> SUFFICES ASSUME IInv, [Next]_vars PROVE IInv'
    OBVIOUS
  <1>a. PcInv(pc) /\ StartVarsOK /\ NumbersOK /\ RestOK /\ GenerationInv
    BY IInvFacts
  <1>1. CASE \E p \in Starters : Start(p)
    BY <1>1, StartKeeps
  <1>2. CASE Loop
    BY <1>2, LoopKeeps
  <1>3. CASE Switch
    BY <1>3, SwitchKeeps
  <1>4. CASE Reconfigure
    <2>1. BeginHalt("switch") /\ created < MaxGenerations
      BY <1>4 DEF Reconfigure
    <2>2. /\ PcInv(pc') /\ pc'["switch"] \in HaltPhases
          /\ target' \in [Activities -> 0..MaxChildren]
      BY <2>1, BeginHaltOK DEF Halters
    <2>3. GenerationInv' /\ NumbersOK'
      BY <1>a, <1>4, <2>1, <2>2, PhaseFacts DEF Reconfigure, GenerationInv, NumbersOK
    <2>4. StartVarsOK' /\ RestOK'
      BY <1>a, <1>4, <2>1, <2>2 DEF Reconfigure, BeginHalt, StartVarsOK, RestOK
    <2> QED
      BY <2>2, <2>3, <2>4, IInvFromParts
  <1>5. CASE \E p \in Halters : Halt(p)
    BY <1>5, HaltKeeps
  <1>6. CASE Stop
    <2>1. BeginHalt("stop")
      BY <1>6 DEF Stop
    <2>2. PcInv(pc') /\ SameSide /\ target' \in [Activities -> 0..MaxChildren]
      BY <2>1, BeginHaltOK DEF Halters
    <2>3. StartVarsOK' /\ RestOK' /\ UNCHANGED <<generation, created, previous>>
      BY <1>a, <1>6, <2>1, <2>2
      DEF Stop, BeginHalt, StartVarsOK, RestOK, generationVars
    <2> QED
      BY <2>2, <2>3, SameSideStep
  <1>7. CASE StopCompletes
    <2>1. pc' = [pc EXCEPT !["stop"] = "done"] /\ "done" \in StopPhases
      BY <1>7, PhaseFacts DEF StopCompletes, Goto
    <2>2. PcInv(pc') /\ SameSide
      BY <1>a, <2>1, StopMoves DEF SameSide
    <2>3. disposed' \subseteq Generations
      BY <1>a, <1>7 DEF StopCompletes, StartVarsOK, NumbersOK, Generations, None
    <2>4. StartVarsOK' /\ RestOK' /\ UNCHANGED <<generation, created, previous>>
      BY <1>a, <1>7, <2>3 DEF StopCompletes, Goto, StartVarsOK, RestOK, flagVars
    <2> QED
      BY <2>2, <2>4, SameSideStep
  <1>8. CASE \E c \in Children : ChildExits(c)
    <2>1. PICK c \in Children : ChildExits(c)
      BY <1>8
    <2>2. child' \in [Children -> [state : ChildStates, gen : 0..MaxGenerations]]
      BY <1>a, <2>1 DEF ChildExits, RestOK, ChildStates
    <2>3. faults' \in 0..MaxFaults
      BY <2>1, FaultOK DEF ChildExits
    <2>4. StartVarsOK' /\ RestOK' /\ UNCHANGED <<generation, created, previous, pc>>
      BY <1>a, <2>1, <2>2, <2>3
      DEF ChildExits, StartVarsOK, RestOK, generationVars, flagVars, controlVars
    <2>5. PcInv(pc') /\ SameSide
      BY <1>a, <2>4 DEF SameSide
    <2> QED
      BY <2>4, <2>5, SameSideStep
  <1>9. CASE UNCHANGED vars
    <2>1. /\ UNCHANGED <<generation, created, previous, pc>>
          /\ StartVarsOK' /\ RestOK'
      BY <1>a, <1>9
      DEF vars, generationVars, flagVars, controlVars, StartVarsOK, RestOK
    <2>2. PcInv(pc') /\ SameSide
      BY <1>a, <2>1 DEF SameSide
    <2> QED
      BY <2>1, <2>2, SameSideStep
  <1> QED
    BY <1>1, <1>2, <1>3, <1>4, <1>5, <1>6, <1>7, <1>8, <1>9 DEF Next, Gone

-----------------------------------------------------------------------------
(* The theorems.                                                           *)

LEMMA Invariance == Spec => []IInv
  BY InitIInv, NextIInv, PTL DEF Spec

\* Every variable keeps its type, through every interleaving of the loop, a
\* reconfiguration and a stop (supervisor.ts, supervisor-loop.ts).
THEOREM TypeCorrect == Spec => []TypeOK
  <1>1. IInv => TypeOK
    BY DEF IInv
  <1> QED
    BY <1>1, Invariance, PTL

\* The restart loop and a reconfiguration never run GenerationStarter.start at
\* the same time: #switch awaits the loop's promise in #halt before it goes on
\* (supervisor.ts).
THEOREM StartersExclusive == Spec => []OneStarter
  <1>1. IInv => OneStarter
    BY DEF IInv, PcInv, OneStarter
  <1> QED
    BY <1>1, Invariance, PTL

\* Both, as the run of the supervisor checks them (supervisor.ts,
\* supervisor-loop.ts, supervisor-start.ts).
THEOREM StartersAreSound == Spec => []StartersSound
  <1>1. TypeOK /\ OneStarter => StartersSound
    BY DEF StartersSound
  <1> QED
    BY <1>1, TypeCorrect, StartersExclusive, PTL

=============================================================================
