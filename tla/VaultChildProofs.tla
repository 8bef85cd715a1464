---------------------------- MODULE VaultChildProofs ----------------------------
(***************************************************************************)
(* Theorems about the child and the credentials of the vault's supervisor, *)
(* for every set of accounts and every bound.  VaultSupervisorProofs has   *)
(* the types and the positions of the three activities; here is what the   *)
(* attached child, the generation numbers and the flags have to do with    *)
(* those positions.                                                        *)
(*                                                                         *)
(* Supervised is inductive.  The step it exists for is the spawn of a      *)
(* child: it is safe because whoever starts has nothing attached, every    *)
(* child that is up and not attached is being stopped by somebody, and no  *)
(* halt is stopping one while a start has none of its own.                 *)
(***************************************************************************)
EXTENDS VaultSupervisorProofs, FiniteSetTheorems

\* A start that has no child yet, and one that has.
BeforeChild == {"version", "login", "port"}
WithChild == {"status", "poll", "unlock", "settle", "sync"}

\* Awaits of a starter at which nothing is attached.
Unattached == BeforeChild \cup
    {"detach", "backoff", "rmNext", "failStop", "failRetire"}

\* Awaits of a starter that has a child: it was spawned, or is being served.
Attached == WithChild \cup {"serving", "retire"}

\* What the flags say of the positions.
Flags ==
    /\ pc["stop"] = "idle" <=> ~isStopping
    /\ pc["stop"] = "done" => pc["switch"] = "idle"
    /\ pc["switch"] \in HaltPhases \cup {"rmNext"} => isHalted
    /\ isStopping => isHalted \/ overran
    /\ isReady => pc["loop"] = "serving"

\* What the generation numbers say of the positions.
Numbers ==
    /\ generation <= created /\ previous <= created
    /\ pc["switch"] = "idle" => previous = None
    /\ pc["switch"] \in HaltPhases => previous = generation
    /\ pc["switch"] \in SwitchStarting => previous < generation /\ generation = created
    /\ pc["switch"] = "retire" => previous # None
    /\ \A p \in Starters :
         pc[p] \in StartPhases => gen[p] = generation /\ generation # None
    /\ pc["loop"] = "serving" => generation # None

\* Nothing is attached before a start has spawned its child nor once it has
\* given it up, nor while a switch that has stopped a child waits for the loop.
Detachments ==
    /\ \A p \in Starters : pc[p] \in Unattached => serve = None
    /\ pc["switch"] \in {"term", "await", "woken"} => serve = None

\* The child p has started is of the generation in use, and still attached
\* unless a halt has taken it.
HasChild(p) ==
    /\ target[p] \in Children
    /\ child[target[p]].gen = generation
    /\ child[target[p]].state # "free"
    /\ serve = target[p] \/ (serve = None /\ (isHalted \/ overran))

Attachments == \A p \in Starters : pc[p] \in Attached => HasChild(p)

\* Every child that is up is attached or being stopped.
Owned == \A c \in Children : IsUp(c) => c = serve \/ IsTerminated(c)

\* What a stop that no reconfiguration went on under can rely on.
Halted ==
    /\ \A p \in Starters :
         pc[p] \in BeforeChild \cup {"detach", "backoff"} =>
             pc["stop"] # "term" /\ (p = "loop" => pc["switch"] # "term")
    /\ pc["stop"] \in {"term", "await", "woken", "done"} => serve = None
    /\ pc["stop"] \in {"woken", "done"} => pc["loop"] = "ended"

\* A child past its unlock is unlocked, unless it exited or is being halted.
Unlocked ==
    \A p \in Starters :
        pc[p] \in {"sync", "serving", "retire"} =>
            child[target[p]].state \in {"unlocked", "exited"} \/ isHalted

Single == \A c, d \in Children : IsUp(c) /\ IsUp(d) => c = d

Supervised ==
    /\ IInv
    /\ Flags
    /\ Numbers
    /\ Detachments
    /\ Attachments
    /\ Owned
    /\ overran \/ (Halted /\ Unlocked /\ Single)

-----------------------------------------------------------------------------
(* What can be said of directories and secrets while every removal of a       *)
(* directory succeeds.                                                        *)

\* Generation g's directory is logged in to nobody, or as g's credentials say.
Sess(g) == session[g] \in {NoAccount, account[g]}

Directories ==
    /\ generation # None /\ pc["switch"] # "rmNext" => Sess(generation)
    /\ previous # None => Sess(previous)
    /\ \A p \in Starters :
         pc[p] = "port" => session[generation] = account[generation]
    /\ serve # None => session[child[serve].gen] = account[child[serve].gen]

\* Only a generation given up, or about to be, has had its secrets zeroed.
Secrets ==
    /\ \A g \in disposed : g <= created
    /\ IsRunning /\ pc["switch"] # "failRetire" => generation \notin disposed
    /\ IsRunning /\ pc["switch"] # "retire" => previous \notin disposed

Kept == Directories /\ Secrets

-----------------------------------------------------------------------------
(* Positions.                                                                 *)

LEMMA Names ==
    /\ Starters = {"loop", "switch"} /\ Halters = {"switch", "stop"}
    /\ Activities = {"loop", "switch", "stop"}
  BY DEF Activities, Starters, Halters

LEMMA Typed ==
    ASSUME IInv
    PROVE  /\ pc \in [Activities -> Phases]
           /\ target \in [Activities -> 0..MaxChildren]
           /\ gen \in [Starters -> 0..MaxGenerations]
           /\ child \in [Children -> [state : ChildStates, gen : 0..MaxGenerations]]
           /\ generation \in Nat /\ created \in Nat /\ previous \in Nat
           /\ serve \in Children \cup {None}
  BY DEF IInv, TypeOK, Children, None

\* Where pc has moved at one place.
LEMMA PcAt ==
    ASSUME IInv, NEW p \in Activities, NEW x, pc' = [pc EXCEPT ![p] = x]
    PROVE  pc'[p] = x /\ \A q \in Activities : q # p => pc'[q] = pc[q]
  BY Typed

\* While one starter is at work the other is idle, halting or over.
LEMMA OneBusy ==
    ASSUME IInv, NEW p \in Starters, NEW q \in Starters, p # q,
           pc[p] \in Unattached \cup Attached
    PROVE  /\ pc[q] \notin Unattached \cup Attached \cup StartPhases
           /\ p = "loop" => pc["switch"] \in {"idle", "lock", "term", "await"}
           /\ p = "switch" => pc["loop"] = "ended"
  BY Names, PhaseFacts
  DEF IInv, PcInv, Unattached, Attached, BeforeChild, WithChild, SwitchPhases, LoopPhases

\* A child that is up stays accounted for when nobody who is stopping a child
\* that is up lets go of it.
LEMMA OwnedStep ==
    ASSUME Owned, \A c \in Children : IsUp(c)' => IsUp(c),
           \A c \in Children : IsUp(c)' /\ c = serve => c = serve' \/ IsTerminated(c)',
           \A q \in Activities, c \in Children :
              pc[q] \in {"detach", "term", "failStop"} /\ target[q] = c /\ IsUp(c)' =>
                 pc'[q] \in {"detach", "term", "failStop"} /\ target'[q] = c
    PROVE  Owned'
  <1> SUFFICES ASSUME NEW c \in Children, IsUp(c)'
               PROVE  c = serve' \/ IsTerminated(c)'
    BY DEF Owned
  <1>1. CASE c = serve
    BY <1>1
  <1>2. CASE c # serve
    <2>1. PICK q \in Activities : pc[q] \in {"detach", "term", "failStop"} /\ target[q] = c
      BY <1>2 DEF Owned, IsTerminated
    <2>2. pc'[q] \in {"detach", "term", "failStop"} /\ target'[q] = c
      BY <2>1
    <2> QED
      BY <2>2 DEF IsTerminated
  <1> QED
    BY <1>1, <1>2

\* Children only go down.
LEMMA SingleStep ==
    ASSUME Single, \A c \in Children : IsUp(c)' => IsUp(c)
    PROVE  Single'
  BY DEF Single

-----------------------------------------------------------------------------
(* A start.                                                                   *)

\* A start goes on without touching its child.
LEMMA QuietMove ==
    ASSUME Supervised, IInv', NEW p \in Starters, NEW x,
           \/ pc[p] \in BeforeChild /\ x \in BeforeChild
           \/ pc[p] \in WithChild \ {"sync"} /\ x \in WithChild \ {"sync"},
           pc' = [pc EXCEPT ![p] = x],
           UNCHANGED <<generation, created, previous, serve, child, flagVars,
                       target, gen, overran>>
    PROVE  Supervised'
  <1>a. /\ pc[p] \in StartPhases /\ x \in StartPhases
        /\ pc[p] \in Unattached \cup Attached
        /\ x \notin {"detach", "term", "failStop"}
        /\ pc[p] \notin {"detach", "term", "failStop"}
    BY PhaseFacts DEF BeforeChild, WithChild, Unattached, Attached
  <1>b. pc'[p] = x /\ \A q \in Activities : q # p => pc'[q] = pc[q]
    BY PcAt, Names DEF Supervised
  <1>c. \A c : IsUp(c)' <=> IsUp(c)
    BY DEF IsUp
  <1>1. Flags'
    BY <1>a, <1>b, Names, PhaseFacts DEF Supervised, Flags, flagVars
  <1>2. Numbers'
    BY <1>a, <1>b, Names, PhaseFacts DEF Supervised, Numbers
  <1>3. Detachments'
    BY <1>a, <1>b, Names, PhaseFacts
    DEF Supervised, Detachments, Unattached, BeforeChild, WithChild
  <1>4. Attachments'
    BY <1>a, <1>b, Names, PhaseFacts
    DEF Supervised, Attachments, HasChild, Attached, BeforeChild, WithChild, flagVars
  <1>5. Owned'
    BY <1>a, <1>b, <1>c, OwnedStep DEF Supervised
  <1>6. overran' \/ (Halted' /\ Unlocked' /\ Single')
    <2>1. CASE overran
      BY <2>1
    <2>2. CASE ~overran
      <3>1. Halted'
        BY <1>a, <1>b, <2>2, Names, PhaseFacts
        DEF Supervised, Halted, BeforeChild, WithChild
      <3>2. Unlocked'
        BY <1>a, <1>b, <2>2, Names DEF Supervised, Unlocked, BeforeChild, WithChild, flagVars
      <3>3. Single'
        BY <1>c, <2>2, SingleStep DEF Supervised
      <3> QED
        BY <3>1, <3>2, <3>3
    <2> QED
      BY <2>1, <2>2
  <1> QED
    BY <1>1, <1>2, <1>3, <1>4, <1>5, <1>6 DEF Supervised

\* The loop lets go of its child, which is down or for others to stop, and ends,
\* backs off or starts over.
LEMMA LoopLetsGo ==
    ASSUME Supervised, IInv', pc["loop"] \in Unattached \cup Attached,
           \/ pc' = WithLoopEnded(pc)
           \/ ~isHalted /\ pc' = [pc EXCEPT !["loop"] = "backoff"]
           \/ /\ ~isHalted /\ pc' = [pc EXCEPT !["loop"] = "version"]
              /\ gen'["loop"] = generation /\ generation # None,
           serve' = None, serve # None => ~IsUp(serve),
           pc["loop"] = "detach" => ~IsUp(target["loop"]),
           \A q \in Halters : target'[q] = target[q],
           gen'["switch"] = gen["switch"], ~isReady',
           UNCHANGED <<generation, created, previous, child, isHalted, isStopping,
                       overran>>
    PROVE  Supervised'
  <1>a. /\ pc["switch"] \in {"idle", "lock", "term", "await"}
        /\ pc["switch"] \notin Unattached \cup Attached \cup StartPhases \cup SwitchStarting
    BY OneBusy, Names, PhaseFacts DEF Supervised, IInv, PcInv
  <1>b. /\ pc'["loop"] \in {"ended", "backoff", "version"}
        /\ \A h \in Halters :
             pc'[h] = pc[h] \/ (pc[h] = "await" /\ pc'[h] = "woken" /\ pc'["loop"] = "ended")
        /\ pc'["loop"] = "version" => gen'["loop"] = generation /\ generation # None
        /\ isHalted => pc'["loop"] = "ended"
    BY Typed, Names DEF Supervised, WithLoopEnded
  <1>c. \A c : IsUp(c)' <=> IsUp(c)
    BY DEF IsUp
  <1>1. Flags'
    BY <1>a, <1>b, Names, PhaseFacts DEF Supervised, Flags
  <1>2. Numbers'
    BY <1>a, <1>b, Names, PhaseFacts DEF Supervised, Numbers
  <1>3. Detachments'
    BY DEF Detachments
  <1>4. Attachments'
    BY <1>a, <1>b, Names DEF Attachments, Attached, WithChild
  <1>5. Owned'
    <2>1. pc["loop"] \notin {"term", "failStop"}
      BY PhaseFacts DEF Supervised, IInv, PcInv, LoopPhases
    <2>2. \A q \in Activities, c \in Children :
            pc[q] \in {"detach", "term", "failStop"} /\ target[q] = c /\ IsUp(c)' =>
                pc'[q] \in {"detach", "term", "failStop"} /\ target'[q] = c
      BY <1>b, <1>c, <2>1, Names
    <2>3. \A c \in Children : IsUp(c)' => IsUp(c) /\ c # serve
      BY <1>c DEF Children, None
    <2> QED
      BY <2>2, <2>3, OwnedStep DEF Supervised
  <1>6. overran' \/ (Halted' /\ Unlocked' /\ Single')
    <2>1. CASE overran
      BY <2>1
    <2>2. CASE ~overran
      <3>1. Halted'
        BY <1>a, <1>b, <2>2, Names, PhaseFacts
        DEF Supervised, Halted, Flags, BeforeChild, WithChild
      <3>2. Unlocked'
        BY <1>a, <1>b, Names DEF Unlocked, Attached, WithChild
      <3>3. Single'
        BY <1>c, <2>2, SingleStep DEF Supervised
      <3> QED
        BY <3>1, <3>2, <3>3
    <2> QED
      BY <2>1, <2>2
  <1> QED
    BY <1>1, <1>2, <1>3, <1>4, <1>5, <1>6 DEF Supervised

\* #switch gives the generation up: it stops what is attached, or goes on to
\* remove the directory.
LEMMA SwitchGivesUp ==
    ASSUME Supervised, IInv', SwitchFails, pc["switch"] \in SwitchStarting \ {"retire"},
           pc["switch"] \in {"detach", "failStop"} => ~IsUp(target["switch"]),
           UNCHANGED <<generation, created, previous, child, flagVars, overran>>
    PROVE  Supervised'
  <1>a. pc["loop"] = "ended"
    BY DEF Supervised, IInv, PcInv
  <1>b. PICK x \in {"failStop", "failRetire"} :
            /\ pc' = [pc EXCEPT !["switch"] = x]
            /\ target' = [target EXCEPT !["switch"] = serve]
            /\ serve' = None /\ gen' = [gen EXCEPT !["switch"] = None]
            /\ serve # None => x = "failStop"
    BY DEF SwitchFails, StopServe, None
  <1>c. /\ pc'["switch"] = x
        /\ pc'["loop"] = pc["loop"] /\ pc'["stop"] = pc["stop"]
        /\ target'["switch"] = serve /\ target'["stop"] = target["stop"]
        /\ target'["loop"] = target["loop"] /\ gen'["loop"] = gen["loop"]
    BY <1>b, Typed, Names DEF Supervised
  <1>d. \A c : IsUp(c)' <=> IsUp(c)
    BY DEF IsUp
  <1>e. /\ x \in SwitchStarting /\ x \notin HaltPhases /\ x \notin StartPhases
        /\ x \in Unattached /\ x \notin Attached
        /\ "ended" \notin Unattached \cup Attached \cup StartPhases
        /\ pc["switch"] \notin {"idle", "term"}
    BY PhaseFacts DEF Unattached, Attached, BeforeChild, WithChild
  <1>1. Flags'
    BY <1>a, <1>c, <1>e, PhaseFacts DEF Supervised, Flags, flagVars
  <1>2. Numbers'
    BY <1>a, <1>c, <1>e, Names DEF Supervised, Numbers
  <1>3. Detachments'
    BY <1>b DEF Detachments
  <1>4. Attachments'
    BY <1>a, <1>c, <1>e, Names DEF Attachments
  <1>5. Owned'
    <2>1. \A c \in Children : IsUp(c)' /\ c = serve => IsTerminated(c)'
      BY <1>b, <1>c, Names DEF IsTerminated, None, Children
    <2>2. \A q \in Activities, c \in Children :
            pc[q] \in {"detach", "term", "failStop"} /\ target[q] = c /\ IsUp(c)' =>
                pc'[q] \in {"detach", "term", "failStop"} /\ target'[q] = c
      BY <1>c, <1>d, <1>e, Names
    <2> QED
      BY <1>d, <2>1, <2>2, OwnedStep DEF Supervised
  <1>6. overran' \/ (Halted' /\ Unlocked' /\ Single')
    <2>1. CASE overran
      BY <2>1
    <2>2. CASE ~overran
      <3>1. Halted'
        BY <1>a, <1>b, <1>c, <2>2, Names DEF Supervised, Halted, BeforeChild
      <3>2. Unlocked'
        BY <1>a, <1>c, Names DEF Unlocked
      <3>3. Single'
        BY <1>d, <2>2, SingleStep DEF Supervised
      <3> QED
        BY <3>1, <3>2, <3>3
    <2> QED
      BY <2>1, <2>2
  <1> QED
    BY <1>1, <1>2, <1>3, <1>4, <1>5, <1>6 DEF Supervised

\* A start gives its child up, if it has one, or hands its failure on.
LEMMA GivesUp ==
    ASSUME Supervised, IInv', NEW p \in Starters, pc[p] \in StartPhases,
           \/ StartFailed(p) /\ pc[p] \in {"version", "login"}
           \/ StartFailed(p) /\ pc[p] = "detach" /\ ~IsUp(target[p])
           \/ Detach(p) /\ pc[p] \in WithChild,
           UNCHANGED <<generation, created, previous, child, flagVars, overran>>
    PROVE  Supervised'
  <1>a. pc[p] \in Unattached \cup Attached
    BY DEF WithChild, Unattached, Attached, BeforeChild
  <1>c. \A c : IsUp(c)' <=> IsUp(c)
    BY DEF IsUp
  <1>1. CASE Detach(p) /\ pc[p] \in WithChild /\ serve # None
    <2>a. /\ serve' = None /\ target' = [target EXCEPT ![p] = serve]
          /\ pc' = [pc EXCEPT ![p] = "detach"] /\ UNCHANGED gen
      BY <1>1 DEF Detach, StopServe
    <2>b. pc'[p] = "detach" /\ \A q \in Activities : q # p => pc'[q] = pc[q]
      BY <2>a, PcAt, Names DEF Supervised
    <2>c. target'[p] = serve /\ \A q \in Activities : q # p => target'[q] = target[q]
      BY <2>a, Typed, Names DEF Supervised
    <2>1. Flags'
      BY <1>1, <2>b, Names, PhaseFacts DEF Supervised, Flags, flagVars, WithChild
    <2>2. Numbers'
      BY <1>1, <2>a, <2>b, Names, PhaseFacts DEF Supervised, Numbers, WithChild
    <2>3. Detachments'
      BY <2>a DEF Detachments
    <2>4. Attachments'
      BY <1>1, <1>a, <2>b, OneBusy, Names
      DEF Supervised, Attachments, Attached, WithChild
    <2>5. Owned'
      BY <1>1, <1>c, <2>b, <2>c, OwnedStep, Names
      DEF Supervised, IsTerminated, WithChild
    <2>6. overran' \/ (Halted' /\ Unlocked' /\ Single')
      <3>1. CASE overran
        BY <3>1
      <3>2. CASE ~overran
        <4>1. Halted'
          BY <1>1, <1>a, <2>a, <2>b, <3>2, OneBusy, Names, PhaseFacts
          DEF Supervised, Halted, Detachments, BeforeChild, WithChild
        <4>2. Unlocked'
          BY <1>a, <2>b, <3>2, OneBusy, Names
          DEF Supervised, Unlocked, Attached, WithChild, flagVars
        <4>3. Single'
          BY <1>c, <3>2, SingleStep DEF Supervised
        <4> QED
          BY <4>1, <4>2, <4>3
      <3> QED
        BY <3>1, <3>2
    <2> QED
      BY <2>1, <2>2, <2>3, <2>4, <2>5, <2>6 DEF Supervised
  <1>2. CASE StartFailed(p) /\ serve = None /\ (pc[p] = "detach" => ~IsUp(target[p]))
    <2>1. CASE p = "loop"
      <3>1. RecordFailure(failures) /\ UNCHANGED serve /\ pc["loop"] # "serving"
        BY <1>2, <2>1, PhaseFacts DEF StartFailed
      <3>2. /\ \/ pc' = WithLoopEnded(pc)
               \/ ~isHalted /\ pc' = [pc EXCEPT !["loop"] = "backoff"]
            /\ \A q \in Halters : target'[q] = target[q]
            /\ gen'["switch"] = gen["switch"]
        BY <3>1, Typed, Names DEF Supervised, RecordFailure, LoopHead
      <3>3. ~isReady'
        BY <3>1 DEF Supervised, Flags, flagVars
      <3> QED
        BY <1>2, <1>a, <2>1, <3>1, <3>2, <3>3, LoopLetsGo DEF flagVars
    <2>2. CASE p = "switch"
      <3>1. SwitchFails /\ pc["switch"] \in SwitchStarting \ {"retire", "failStop"}
        BY <1>2, <2>2, PhaseFacts DEF StartFailed
      <3> QED
        BY <1>2, <2>2, <3>1, SwitchGivesUp
    <2> QED
      BY <2>1, <2>2, Names
  <1>3. pc[p] \in Unattached => serve = None
    BY DEF Supervised, Detachments
  <1>4. \/ Detach(p) /\ pc[p] \in WithChild /\ serve # None
        \/ StartFailed(p) /\ serve = None /\ (pc[p] = "detach" => ~IsUp(target[p]))
    BY <1>3 DEF Detach, Unattached, BeforeChild, WithChild
  <1> QED
    BY <1>1, <1>2, <1>4

\* No child is up when a start that nobody has overrun spawns one.
LEMMA NoneUp ==
    ASSUME Supervised, ~overran, NEW p \in Starters, pc[p] = "port"
    PROVE  \A c \in Children : ~IsUp(c)
  <1> SUFFICES ASSUME NEW c \in Children, IsUp(c)
               PROVE  FALSE
    OBVIOUS
  <1>1. serve = None
    BY DEF Supervised, Detachments, Unattached, BeforeChild
  <1>2. PICK q \in Activities : pc[q] \in {"detach", "term", "failStop"} /\ target[q] = c
    BY <1>1 DEF Supervised, Owned, IsTerminated, Children, None
  <1>3. pc["stop"] # "term" /\ (p = "loop" => pc["switch"] # "term")
    BY DEF Supervised, Halted, BeforeChild
  <1>4. pc["stop"] \notin {"detach", "failStop"}
    BY DEF Supervised, IInv, PcInv, StopPhases, HaltPhases
  <1>5. \A r \in Starters : r # p => pc[r] \notin {"detach", "failStop"}
    BY OneBusy DEF Supervised, Unattached, BeforeChild
  <1>6. p = "switch" => pc["loop"] = "ended"
    BY PhaseFacts DEF Supervised, IInv, PcInv
  <1> QED
    BY <1>2, <1>3, <1>4, <1>5, <1>6, Names

LEMMA SpawnSupervised ==
    ASSUME Supervised, IInv', NEW p \in Starters, Spawn(p)
    PROVE  Supervised'
  <1>a. /\ pc[p] = "port" /\ pc[p] \in Unattached \cup Attached
        /\ pc[p] \in StartPhases /\ serve = None
    BY PhaseFacts
    DEF Spawn, At, Supervised, Detachments, Unattached, BeforeChild
  <1>b. PICK c \in Children :
            /\ IsUnused(c)
            /\ child' = [child EXCEPT ![c] = [state |-> "locked", gen |-> gen[p]]]
            /\ target' = [target EXCEPT ![p] = c]
            /\ IF isHalted
                 THEN serve' = None /\ pc' = [pc EXCEPT ![p] = "detach"]
                 ELSE serve' = c /\ pc' = [pc EXCEPT ![p] = "status"]
    BY DEF Spawn
  <1>c. /\ pc'[p] \in {"detach", "status"}
        /\ pc'[p] = "detach" <=> isHalted
        /\ \A q \in Activities : q # p => pc'[q] = pc[q] /\ target'[q] = target[q]
        /\ target'[p] = c
        /\ child'[c] = [state |-> "locked", gen |-> generation]
        /\ \A d \in Children : d # c => child'[d] = child[d]
        /\ serve' = None \/ (serve' = c /\ ~isHalted)
        /\ pc'[p] = "status" => serve' = c
    BY <1>a, <1>b, Typed, Names DEF Supervised, Numbers
  <1>d. /\ UNCHANGED <<generation, created, previous, flagVars, gen, overran>>
        /\ pc["stop"] # "done"
    BY DEF Spawn, At, IsRunning, generationVars
  <1>e. \A q \in Starters : q # p =>
            /\ pc[q] \notin Unattached \cup Attached \cup StartPhases
            /\ p = "loop" => pc["switch"] \in {"idle", "lock", "term", "await"}
            /\ p = "switch" => pc["loop"] = "ended"
    BY <1>a, OneBusy DEF Supervised
  <1>1. Flags'
    BY <1>a, <1>c, <1>d, Names, PhaseFacts DEF Supervised, Flags, flagVars
  <1>2. Numbers'
    BY <1>a, <1>c, <1>d, Names, PhaseFacts DEF Supervised, Numbers
  <1>3. Detachments'
    <2>1. \A q \in Starters : pc'[q] \in Unattached => serve' = None
      BY <1>b, <1>c, <1>e, Names DEF Unattached, BeforeChild
    <2>2. pc'["switch"] \in {"term", "await", "woken"} => serve' = None
      BY <1>c, <1>e, Names, PhaseFacts DEF Supervised, Flags
    <2> QED
      BY <2>1, <2>2 DEF Detachments
  <1>4. Attachments'
    <2>1. pc'[p] \in Attached => HasChild(p)'
      BY <1>c, <1>d DEF HasChild, Attached, WithChild
    <2> QED
      BY <1>c, <1>e, <2>1, Names DEF Attachments
  <1>5. Owned'
    <2> SUFFICES ASSUME NEW d \in Children, IsUp(d)'
                 PROVE  d = serve' \/ IsTerminated(d)'
      BY DEF Owned
    <2>1. CASE d = c
      BY <1>c, <2>1, Names DEF IsTerminated
    <2>2. CASE d # c
      <3>1. IsUp(d) /\ d # serve
        BY <1>a, <1>c, <2>2 DEF IsUp, None, Children
      <3>2. PICK q \in Activities : pc[q] \in {"detach", "term", "failStop"} /\ target[q] = d
        BY <3>1 DEF Supervised, Owned, IsTerminated
      <3>3. pc'[q] = pc[q] /\ target'[q] = d
        BY <1>a, <1>c, <3>2
      <3> QED
        BY <3>2, <3>3 DEF IsTerminated
    <2> QED
      BY <2>1, <2>2
  <1>6. overran' \/ (Halted' /\ Unlocked' /\ Single')
    <2>1. CASE overran
      BY <1>d, <2>1
    <2>2. CASE ~overran
      <3>1. Halted'
        BY <1>a, <1>c, <1>d, <1>e, <2>2, Names, PhaseFacts
        DEF Supervised, Halted, Flags, BeforeChild, Unattached
      <3>2. Unlocked'
        BY <1>c, <1>e, Names DEF Unlocked, Attached
      <3>3. Single'
        <4>1. \A d \in Children : IsUp(d)' => d = c
          BY <1>a, <1>c, <2>2, NoneUp DEF IsUp
        <4> QED
          BY <4>1 DEF Single
      <3> QED
        BY <3>1, <3>2, <3>3
    <2> QED
      BY <2>1, <2>2
  <1> QED
    BY <1>1, <1>2, <1>3, <1>4, <1>5, <1>6 DEF Supervised

\* An unlock is tried on the attached child, and may have taken effect.
LEMMA UnlockSupervised ==
    ASSUME Supervised, IInv', NEW p \in Starters, pc[p] = "unlock", Reaches(p),
           \/ /\ child' = [child EXCEPT ![serve].state = "unlocked"]
              /\ pc' = [pc EXCEPT ![p] = "sync"]
           \/ /\ child' \in {child, [child EXCEPT ![serve].state = "unlocked"]}
              /\ pc' = [pc EXCEPT ![p] = "settle"],
           UNCHANGED <<generation, created, previous, serve, flagVars, target, gen,
                       overran>>
    PROVE  Supervised'
  <1>a. /\ pc[p] \in StartPhases /\ pc[p] \in Unattached \cup Attached
        /\ serve \in Children /\ serve = target[p] /\ HasChild(p)
    BY PhaseFacts, Names
    DEF Reaches, IsUp, Supervised, Attachments, Unattached, Attached, WithChild
  <1>b. /\ pc'[p] \in {"sync", "settle"}
        /\ \A q \in Activities : q # p => pc'[q] = pc[q]
        /\ pc'[p] = "sync" => child'[serve].state = "unlocked"
    BY <1>a, Typed, Names DEF Supervised
  <1>c. /\ \A c \in Children : c # serve => child'[c] = child[c]
        /\ child'[serve].gen = child[serve].gen
        /\ child'[serve].state \in {child[serve].state, "unlocked"}
    BY <1>a, Typed DEF Supervised
  <1>d. \A c \in Children : IsUp(c)' => IsUp(c)
    BY <1>c DEF IsUp, Reaches
  <1>e. \A q \in Starters : q # p =>
            pc[q] \notin Unattached \cup Attached \cup StartPhases
    BY <1>a, OneBusy DEF Supervised
  <1>1. Flags'
    BY <1>a, <1>b, Names, PhaseFacts DEF Supervised, Flags, flagVars
  <1>2. Numbers'
    BY <1>a, <1>b, Names, PhaseFacts DEF Supervised, Numbers
  <1>3. Detachments'
    BY <1>a, <1>b, Names, PhaseFacts
    DEF Supervised, Detachments, Unattached, BeforeChild
  <1>4. Attachments'
    <2>1. HasChild(p)'
      BY <1>a, <1>c DEF HasChild, flagVars
    <2> QED
      BY <1>b, <1>e, <2>1, Names DEF Attachments
  <1>5. Owned'
    BY <1>a, <1>b, <1>d, OwnedStep DEF Supervised
  <1>6. overran' \/ (Halted' /\ Unlocked' /\ Single')
    <2>1. CASE overran
      BY <2>1
    <2>2. CASE ~overran
      <3>1. Halted'
        BY <1>a, <1>b, <2>2, Names, PhaseFacts
        DEF Supervised, Halted, BeforeChild
      <3>2. Unlocked'
        BY <1>a, <1>b, <1>e, Names DEF Unlocked, Attached, WithChild
      <3>3. Single'
        BY <1>d, <2>2, SingleStep DEF Supervised
      <3> QED
        BY <3>1, <3>2, <3>3
    <2> QED
      BY <2>1, <2>2
  <1> QED
    BY <1>1, <1>2, <1>3, <1>4, <1>5, <1>6 DEF Supervised

LEMMA StartSupervised ==
    ASSUME Supervised, IInv', NEW p \in Starters, Start(p)
    PROVE  Supervised'
  <1> USE PhaseFacts DEF BeforeChild, WithChild
  <1>1. CASE VersionOk(p)
    BY <1>1, QuietMove DEF VersionOk, At, Goto, generationVars
  <1>2. CASE VersionFails(p)
    BY <1>2, GivesUp DEF VersionFails, At
  <1>3. CASE VersionRefused(p)
    <2>1. pc[p] = "version" /\ serve = None
      BY <1>3 DEF VersionRefused, At, Supervised, Detachments, Unattached
    <2>2. UNCHANGED <<generation, created, previous, child, flagVars, overran>>
      BY <1>3 DEF VersionRefused
    <2>3. CASE p = "loop"
      <3>1. LoopHead(pc, TRUE, generation) /\ UNCHANGED <<target, serve>>
        BY <1>3, <2>3 DEF VersionRefused
      <3>2. pc' = WithLoopEnded(pc) /\ gen'["switch"] = gen["switch"]
        BY <3>1, Typed, Names DEF Supervised, LoopHead
      <3>3. ~isReady'
        BY <2>1, <2>2, <2>3 DEF Supervised, Flags, flagVars
      <3> QED
        BY <2>1, <2>2, <2>3, <3>1, <3>2, <3>3, LoopLetsGo DEF Unattached, flagVars
    <2>4. CASE p = "switch"
      BY <1>3, <2>1, <2>2, <2>4, SwitchGivesUp DEF VersionRefused
    <2> QED
      BY <2>3, <2>4, Names
  <1>4. CASE LoginOk(p)
    BY <1>4, QuietMove DEF LoginOk, At, Goto
  <1>5. CASE LoginFails(p)
    BY <1>5, GivesUp DEF LoginFails, At
  <1>6. CASE Spawn(p)
    BY <1>6, SpawnSupervised
  <1>7. CASE StatusOk(p)
    BY <1>7, QuietMove DEF StatusOk, At, Goto, generationVars
  <1>8. CASE StatusFails(p)
    BY <1>8, QuietMove DEF StatusFails, At, Goto, generationVars
  <1>9. CASE PollAgain(p)
    BY <1>9, QuietMove DEF PollAgain, At, Goto, generationVars
  <1>10. CASE PollEnds(p)
    BY <1>10, GivesUp DEF PollEnds, At
  <1>11. CASE UnlockOk(p)
    BY <1>11, UnlockSupervised DEF UnlockOk, At, Goto, generationVars
  <1>12. CASE UnlockSettles(p)
    BY <1>12, UnlockSupervised DEF UnlockSettles, At, Goto, generationVars
  <1>13. CASE UnlockAgain(p)
    BY <1>13, QuietMove DEF UnlockAgain, At, Goto, generationVars
  <1>14. CASE UnlockFails(p)
    BY <1>14, GivesUp DEF UnlockFails, At
  <1>15. CASE Detached(p)
    BY <1>15, GivesUp DEF Detached, Notices
  <1> QED
    BY <1>1, <1>2, <1>3, <1>4, <1>5, <1>6, <1>7, <1>8, <1>9, <1>10, <1>11, <1>12,
       <1>13, <1>14, <1>15 DEF Start

-----------------------------------------------------------------------------
(* The loop and the halts.                                                    *)

LEMMA LoopSupervised ==
    ASSUME Supervised, IInv', Loop
    PROVE  Supervised'
  <1>1. CASE LoopStarts
    <2>a. /\ pc["loop"] = "sync" /\ pc["loop"] \in StartPhases
          /\ pc["loop"] \in Unattached \cup Attached
          /\ pc' = [pc EXCEPT !["loop"] = "serving"] /\ pc["stop"] # "done"
          /\ gen' = [gen EXCEPT !["loop"] = None]
          /\ UNCHANGED <<generation, created, previous, serve, child, isHalted,
                         isStopping, target, overran>>
      BY <1>1, PhaseFacts
      DEF LoopStarts, At, IsRunning, generationVars, Attached, WithChild
    <2>b. /\ pc'["loop"] = "serving" /\ \A q \in Halters : pc'[q] = pc[q]
          /\ gen'["switch"] = gen["switch"]
          /\ "serving" \notin StartPhases \cup Unattached
      BY <2>a, Typed, Names, PhaseFacts DEF Supervised, Unattached, BeforeChild
    <2>c. /\ pc["switch"] \notin Unattached \cup Attached \cup StartPhases
          /\ HasChild("loop")
      BY <2>a, OneBusy, Names DEF Supervised, Attachments, Attached, WithChild
    <2>1. Flags'
      BY <2>a, <2>b, Names DEF Supervised, Flags
    <2>2. Numbers'
      BY <2>a, <2>b, <2>c, Names DEF Supervised, Numbers
    <2>3. Detachments'
      BY <2>a, <2>b, <2>c, Names DEF Supervised, Detachments
    <2>4. Attachments'
      BY <2>a, <2>b, <2>c, Names DEF Attachments, HasChild
    <2>5. Owned'
      BY <2>a, <2>b, Names, OwnedStep DEF Supervised, IsUp
    <2>6. overran' \/ (Halted' /\ Unlocked' /\ Single')
      <3>1. CASE overran
        BY <2>a, <3>1
      <3>2. CASE ~overran
        <4>1. Halted'
          BY <2>a, <2>b, <2>c, <3>2, Names DEF Supervised, Halted, Unattached, BeforeChild
        <4>2. Unlocked'
          BY <2>a, <2>b, <2>c, <3>2, Names DEF Supervised, Unlocked, Attached, WithChild
        <4>3. Single'
          BY <2>a, <3>2, SingleStep DEF Supervised, IsUp
        <4> QED
          BY <4>1, <4>2, <4>3
      <3> QED
        BY <3>1, <3>2
    <2> QED
      BY <2>1, <2>2, <2>3, <2>4, <2>5, <2>6 DEF Supervised
  <1>2. CASE ChildExitSeen
    <2>1. PICK from : RecordFailure(from)
      BY <1>2 DEF ChildExitSeen
    <2>2. /\ pc["loop"] = "serving" /\ ~IsUp(target["loop"])
          /\ serve' = None /\ ~isReady' /\ pc["loop"] \in Attached
          /\ UNCHANGED <<generation, created, previous, child, isHalted,
                         isStopping, overran>>
      BY <1>2 DEF ChildExitSeen, Notices, generationVars, Attached
    <2>3. serve # None => ~IsUp(serve)
      BY <2>2, Names DEF Supervised, Attachments, HasChild
    <2>4. /\ \/ pc' = WithLoopEnded(pc)
             \/ ~isHalted /\ pc' = [pc EXCEPT !["loop"] = "backoff"]
          /\ \A q \in Halters : target'[q] = target[q]
          /\ gen'["switch"] = gen["switch"]
      BY <2>1, Typed, Names DEF Supervised, RecordFailure, LoopHead
    <2> QED
      BY <2>2, <2>3, <2>4, LoopLetsGo
  <1>3. CASE BackoffEnds
    <2>1. /\ pc["loop"] = "backoff" /\ pc["loop"] \in Unattached
          /\ LoopHead(pc, isHalted, generation)
          /\ UNCHANGED <<generation, created, previous, serve, child, isReady,
                         isHalted, isStopping, target, overran>>
      BY <1>3 DEF BackoffEnds, At, generationVars, flagVars, Unattached
    <2>2. serve = None /\ ~isReady
      BY <2>1, Names DEF Supervised, Detachments, Flags
    <2>3. /\ \/ pc' = WithLoopEnded(pc)
             \/ /\ ~isHalted /\ pc' = [pc EXCEPT !["loop"] = "version"]
                /\ gen'["loop"] = generation /\ generation # None
          /\ gen'["switch"] = gen["switch"]
      BY <2>1, Typed, Names DEF Supervised, LoopHead
    <2> QED
      BY <2>1, <2>2, <2>3, LoopLetsGo
  <1> QED
    BY <1>1, <1>2, <1>3 DEF Loop

\* Activity p parks at x of its halt with child t to see the end of: the flag is
\* up, and a child it detaches is the one it stops.
HaltsAt(p, x, t) ==
    /\ pc[p] \in {"idle", "lock", "term"} /\ pc["stop"] # "done"
    /\ pc[p] = "term" => ~IsUp(target[p])
    /\ pc' = [pc EXCEPT ![p] = x]
    /\ target' = [target EXCEPT ![p] = t]
    /\ x = "woken" => pc["loop"] = "ended"
    /\ isHalted' \/ (p = "stop" /\ overran)
    /\ isHalted => isHalted'
    /\ isReady' => isReady
    /\ isStopping' <=> (isStopping \/ p = "stop")
    /\ previous' = IF p = "switch" THEN generation ELSE previous
    /\ \/ x = "lock" /\ serve' = serve
       \/ x = "term" /\ serve # None /\ serve' = None /\ t = serve
       \/ /\ x \in {"await", "woken"} /\ serve' = serve
          /\ serve = None \/ (p = "stop" /\ overran)
    /\ \A c \in Children :
         \/ child'[c] = child[c]
         \/ /\ IsUp(c) /\ child'[c].gen = child[c].gen
            /\ child'[c].state = "locked"
    /\ UNCHANGED <<generation, created, gen, overran>>

LEMMA HaltStep ==
    ASSUME Supervised, IInv', NEW p \in Halters, NEW x \in HaltPhases, NEW t,
           HaltsAt(p, x, t)
    PROVE  Supervised'
  <1> USE DEF HaltsAt
  <1>a. /\ pc'[p] = x /\ \A q \in Activities : q # p => pc'[q] = pc[q]
        /\ target'[p] = t /\ \A q \in Activities : q # p => target'[q] = target[q]
    BY Typed, Names DEF Supervised
  <1>b. x \notin Unattached \cup Attached \cup StartPhases \cup SwitchStarting \cup {"idle", "done"}
    BY PhaseFacts DEF Unattached, Attached, BeforeChild, WithChild
  <1>c. \A c \in Children : IsUp(c)' => IsUp(c)
    BY DEF IsUp
  <1>d. pc'["loop"] = pc["loop"]
    BY <1>a, Names
  <1>e. serve' = serve \/ serve' = None
    OBVIOUS
  <1>1. Flags'
    BY <1>a, <1>b, <1>d, Names, PhaseFacts DEF Supervised, Flags
  <1>2. Numbers'
    BY <1>a, <1>b, Names, PhaseFacts, Typed DEF Supervised, Numbers
  <1>3. Detachments'
    <2>1. \A q \in Starters : pc'[q] \in Unattached => serve' = None
      BY <1>a, <1>b, <1>e, Names DEF Supervised, Detachments
    <2>2. pc'["switch"] \in {"term", "await", "woken"} => serve' = None
      BY <1>a, <1>e, Names DEF Supervised, Detachments
    <2> QED
      BY <2>1, <2>2 DEF Detachments
  <1>4. Attachments'
    <2> SUFFICES ASSUME NEW q \in Starters, pc'[q] \in Attached
                 PROVE  HasChild(q)'
      BY DEF Attachments
    <2>1. q # p /\ pc'[q] = pc[q] /\ target'[q] = target[q] /\ HasChild(q)
      BY <1>a, <1>b, Names DEF Supervised, Attachments
    <2> QED
      BY <1>e, <2>1 DEF HasChild
  <1>5. Owned'
    <2>1. \A c \in Children : IsUp(c)' /\ c = serve => c = serve' \/ IsTerminated(c)'
      BY <1>a, Names DEF IsTerminated
    <2>2. \A q \in Activities, c \in Children :
            pc[q] \in {"detach", "term", "failStop"} /\ target[q] = c /\ IsUp(c)' =>
                pc'[q] \in {"detach", "term", "failStop"} /\ target'[q] = c
      BY <1>a, <1>c
    <2> QED
      BY <1>c, <2>1, <2>2, OwnedStep DEF Supervised
  <1>6. overran' \/ (Halted' /\ Unlocked' /\ Single')
    <2>1. CASE overran
      BY <2>1
    <2>2. CASE ~overran
      <3>1. \A q \in Starters : pc'[q] \in BeforeChild \cup {"detach", "backoff"} =>
               pc'["stop"] # "term" /\ (q = "loop" => pc'["switch"] # "term")
        <4> SUFFICES ASSUME NEW q \in Starters,
                            pc'[q] \in BeforeChild \cup {"detach", "backoff"}
                     PROVE  pc'["stop"] # "term" /\ (q = "loop" => pc'["switch"] # "term")
          OBVIOUS
        <4>1. q # p /\ pc'[q] = pc[q] /\ serve = None
          BY <1>a, <1>b, Names DEF Supervised, Detachments, Unattached
        <4>2. x # "term"
          BY <4>1
        <4> QED
          BY <1>a, <2>2, <4>1, <4>2, Names DEF Supervised, Halted
      <3>2. pc'["stop"] \in {"term", "await", "woken", "done"} => serve' = None
        BY <1>a, <1>e, <2>2, Names DEF Supervised, Halted
      <3>3. pc'["stop"] \in {"woken", "done"} => pc'["loop"] = "ended"
        BY <1>a, <1>b, <1>d, <2>2, Names DEF Supervised, Halted
      <3>4. Unlocked'
        BY <2>2 DEF Unlocked
      <3>5. Single'
        BY <1>c, <2>2, SingleStep DEF Supervised
      <3> QED
        BY <3>1, <3>2, <3>3, <3>4, <3>5 DEF Halted
    <2> QED
      BY <2>1, <2>2
  <1> QED
    BY <1>1, <1>2, <1>3, <1>4, <1>5, <1>6 DEF Supervised

\* Where #halt has nothing to stop, or has stopped it.
LEMMA AwaitLoopFacts ==
    ASSUME NEW p, AwaitLoop(p)
    PROVE  \E x \in {"await", "woken"} :
              /\ pc' = [pc EXCEPT ![p] = x] /\ target' = [target EXCEPT ![p] = None]
              /\ x = "woken" => pc["loop"] = "ended"
  BY DEF AwaitLoop

LEMMA HaltSupervised ==
    ASSUME Supervised, IInv', NEW p \in Halters, Halt(p)
    PROVE  Supervised'
  <1>a. /\ pc["stop"] # "done" /\ pc[p] \in {"lock", "term"}
        /\ UNCHANGED <<generation, created, previous, flagVars, gen, overran>>
    BY DEF Halt, LockAnswered, ChildStopped, At, Notices, IsRunning, generationVars
  <1>b. /\ isHalted \/ (p = "stop" /\ overran)
        /\ isStopping' <=> (isStopping \/ p = "stop")
        /\ previous' = IF p = "switch" THEN generation ELSE previous
    BY <1>a, Names, PhaseFacts DEF Supervised, Flags, Numbers, flagVars
  <1>1. CASE LockAnswered(p)
    <2>1. pc[p] = "lock"
      BY <1>1 DEF LockAnswered, At
    <2>2. \A c \in Children :
              \/ child'[c] = child[c]
              \/ /\ IsUp(c) /\ child'[c].gen = child[c].gen
                 /\ child'[c].state = "locked"
      BY <1>1, Typed DEF LockAnswered, Supervised
    <2>3. CASE serve # None
      <3>1. /\ pc' = [pc EXCEPT ![p] = "term"] /\ "term" \in HaltPhases
            /\ serve' = None /\ target' = [target EXCEPT ![p] = serve]
        BY <1>1, <2>3, PhaseFacts DEF LockAnswered, StopServe
      <3> QED
        <4>1. HaltsAt(p, "term", serve)
          BY <1>a, <1>b, <2>1, <2>2, <2>3, <3>1 DEF HaltsAt, flagVars
        <4> QED
          BY <3>1, <4>1, HaltStep
    <2>4. CASE serve = None
      <3>1. AwaitLoop(p) /\ UNCHANGED serve
        BY <1>1, <2>4 DEF LockAnswered
      <3>2. PICK x \in {"await", "woken"} :
                /\ pc' = [pc EXCEPT ![p] = x] /\ target' = [target EXCEPT ![p] = None]
                /\ x = "woken" => pc["loop"] = "ended"
        BY <3>1, AwaitLoopFacts
      <3>3. x \in HaltPhases
        BY PhaseFacts
      <3> QED
        <4>1. HaltsAt(p, x, None)
          BY <1>a, <1>b, <2>1, <2>2, <2>4, <3>1, <3>2 DEF HaltsAt, flagVars
        <4> QED
          BY <3>3, <4>1, HaltStep
    <2> QED
      BY <2>3, <2>4
  <1>2. CASE ChildStopped(p)
    <2>1. /\ pc[p] = "term" /\ ~IsUp(target[p]) /\ UNCHANGED <<serve, child>>
          /\ AwaitLoop(p)
      BY <1>2 DEF ChildStopped, Notices
    <2>2. PICK x \in {"await", "woken"} :
              /\ pc' = [pc EXCEPT ![p] = x] /\ target' = [target EXCEPT ![p] = None]
              /\ x = "woken" => pc["loop"] = "ended"
      BY <2>1, AwaitLoopFacts
    <2>3. x \in HaltPhases
      BY PhaseFacts
    <2>4. serve = None \/ (p = "stop" /\ overran)
      BY <2>1, Names DEF Supervised, Detachments, Halted
    <2> QED
      <3>1. HaltsAt(p, x, None)
        BY <1>a, <1>b, <2>1, <2>2, <2>4 DEF HaltsAt, flagVars
      <3> QED
        BY <2>3, <3>1, HaltStep
  <1> QED
    BY <1>1, <1>2 DEF Halt

\* The head of #halt, for a reconfiguration and for a stop.
LEMMA BeginHaltSupervised ==
    ASSUME Supervised, IInv', NEW p \in Halters, pc[p] = "idle", pc["stop"] # "done",
           BeginHalt(p), isStopping' <=> (isStopping \/ p = "stop"),
           previous' = IF p = "switch" THEN generation ELSE previous,
           UNCHANGED <<generation, created, serve, child, gen, overran>>
    PROVE  Supervised'
  <1>a. isHalted' /\ ~isReady'
    BY DEF BeginHalt
  <1>1. CASE serve # None
    <2>1. /\ pc' = [pc EXCEPT ![p] = "lock"] /\ "lock" \in HaltPhases
          /\ target' = [target EXCEPT ![p] = serve]
      BY <1>1, PhaseFacts DEF BeginHalt
    <2> QED
      <3>1. HaltsAt(p, "lock", serve)
        BY <1>a, <2>1 DEF HaltsAt
      <3> QED
        BY <2>1, <3>1, HaltStep
  <1>2. CASE serve = None
    <2>1. PICK x \in {"await", "woken"} :
              /\ pc' = [pc EXCEPT ![p] = x] /\ target' = [target EXCEPT ![p] = None]
              /\ x = "woken" => pc["loop"] = "ended"
      BY <1>2, AwaitLoopFacts DEF BeginHalt
    <2>2. x \in HaltPhases
      BY PhaseFacts
    <2> QED
      <3>1. HaltsAt(p, x, None)
        BY <1>a, <1>2, <2>1 DEF HaltsAt
      <3> QED
        BY <2>2, <3>1, HaltStep
  <1> QED
    BY <1>1, <1>2

-----------------------------------------------------------------------------
(* The switch, the stop and the children.                                     *)

\* A step of #switch with nothing started: no child is touched.
LEMMA NothingStarted ==
    ASSUME Supervised, pc["loop"] = "ended", pc'["loop"] \in {"ended", "version"},
           pc["switch"] \in {"woken", "rmNext", "failRetire", "retire"},
           pc'["switch"] \in {"rmNext", "version", "idle"},
           pc'["switch"] # "idle" \/ pc'["loop"] # "ended" => serve = None,
           pc'["stop"] = pc["stop"] \/ (pc["stop"] = "await" /\ pc'["stop"] = "woken"),
           target'["stop"] = target["stop"], UNCHANGED <<serve, child>>,
           overran => overran'
    PROVE  /\ Detachments' /\ Attachments' /\ Owned'
           /\ overran' \/ (Unlocked' /\ Single')
  <1>1. Detachments'
    BY Names DEF Detachments, Unattached, BeforeChild
  <1>2. \A p \in Starters : pc'[p] \notin Attached
    BY Names DEF Attached, WithChild
  <1>3. Owned'
    BY OwnedStep, Names DEF Supervised, IsUp
  <1>4. overran \/ Single'
    BY SingleStep DEF Supervised, IsUp
  <1> QED
    BY <1>1, <1>2, <1>3, <1>4 DEF Attachments, Unlocked, Attached, WithChild

\* The loop takes the child over: #switch is done.
LEMMA HandOver ==
    ASSUME Supervised, IInv', pc["switch"] \in {"sync", "retire"},
           RunServing(target["switch"]), previous' = None,
           UNCHANGED <<generation, created, serve, child, isHalted, isStopping,
                       overran>>
    PROVE  Supervised'
  <1>a. /\ pc["loop"] = "ended" /\ HasChild("switch")
        /\ generation # None
    BY PhaseFacts, Names, Typed
    DEF Supervised, IInv, PcInv, Attachments, Attached, WithChild, Numbers, None
  <1>b. /\ pc'["switch"] = "idle" /\ pc'["stop"] = pc["stop"]
        /\ pc'["loop"] = IF isHalted THEN "ended" ELSE "serving"
        /\ target'["stop"] = target["stop"]
        /\ ~isHalted => target'["loop"] = target["switch"]
        /\ isReady' => isReady \/ ~isHalted
    BY Typed, Names DEF Supervised, RunServing
  <1>c. "idle" \notin StartPhases /\ "ended" \notin StartPhases /\ "serving" \notin StartPhases
    BY PhaseFacts
  <1>1. Flags'
    BY <1>a, <1>b, PhaseFacts DEF Supervised, Flags
  <1>2. Numbers'
    BY <1>a, <1>b, <1>c, Names, PhaseFacts, Typed DEF Supervised, Numbers, None
  <1>3. Detachments'
    BY <1>b, Names DEF Detachments, Unattached, BeforeChild
  <1>4. Attachments'
    BY <1>a, <1>b, Names DEF Attachments, Attached, WithChild, HasChild
  <1>5. Owned'
    BY <1>a, <1>b, Names, OwnedStep DEF Supervised, IsUp
  <1>6. overran' \/ (Halted' /\ Unlocked' /\ Single')
    <2>1. CASE overran
      BY <2>1
    <2>2. CASE ~overran
      <3>1. Halted'
        BY <1>a, <1>b, <2>2, Names DEF Supervised, Halted, Flags, BeforeChild
      <3>2. Unlocked'
        BY <1>a, <1>b, <2>2, Names DEF Supervised, Unlocked
      <3>3. Single'
        BY <2>2, SingleStep DEF Supervised, IsUp
      <3> QED
        BY <3>1, <3>2, <3>3
    <2> QED
      BY <2>1, <2>2
  <1> QED
    BY <1>1, <1>2, <1>3, <1>4, <1>5, <1>6 DEF Supervised

LEMMA SwitchSupervised ==
    ASSUME Supervised, IInv', Switch
    PROVE  Supervised'
  <1>a. pc["stop"] # "done" /\ pc["loop"] = "ended"
    <2>1. pc["switch"] \in SwitchStarting \cup {"woken"} /\ pc["stop"] # "done"
      BY PhaseFacts
      DEF Switch, CreateNext, StartNext, SwitchStarts, SwitchStopped, PreviousRetired,
          RemovalFails, FailedChildStopped, SwitchUndone, At, Resumes, Notices, IsRunning
    <2> QED
      BY <2>1 DEF Supervised, IInv, PcInv
  <1>1. CASE CreateNext
    <2>1. /\ pc["switch"] = "woken" /\ pc' = [pc EXCEPT !["switch"] = "rmNext"]
          /\ created' = created + 1 /\ generation' = created'
          /\ UNCHANGED <<previous, serve, child, flagVars, target, gen, overran>>
      BY <1>1 DEF CreateNext, Resumes, Goto
    <2>2. /\ pc'["switch"] = "rmNext" /\ pc'["loop"] = pc["loop"]
          /\ pc'["stop"] = pc["stop"] /\ serve = None
      BY <2>1, Typed, Names DEF Supervised, Detachments
    <2>3. /\ Detachments' /\ Attachments' /\ Owned'
          /\ overran' \/ (Unlocked' /\ Single')
      BY <1>a, <2>1, <2>2, NothingStarted
    <2>4. Flags'
      BY <2>1, <2>2, PhaseFacts DEF Supervised, Flags, flagVars
    <2>5. Numbers'
      BY <1>a, <2>1, <2>2, Typed, Names, PhaseFacts DEF Supervised, Numbers
    <2>6. overran' \/ Halted'
      BY <1>a, <2>1, <2>2, Names DEF Supervised, Halted, BeforeChild
    <2> QED
      BY <2>3, <2>4, <2>5, <2>6 DEF Supervised
  <1>2. CASE StartNext
    <2>1. /\ pc["switch"] = "rmNext" /\ pc' = [pc EXCEPT !["switch"] = "version"]
          /\ gen' = [gen EXCEPT !["switch"] = generation] /\ ~isHalted'
          /\ overran' = (overran \/ isStopping)
          /\ UNCHANGED <<generation, created, previous, serve, child, isReady,
                         isStopping, target>>
      BY <1>2 DEF StartNext, At
    <2>2. /\ pc'["switch"] = "version" /\ pc'["loop"] = pc["loop"]
          /\ pc'["stop"] = pc["stop"] /\ gen'["switch"] = generation
      BY <2>1, Typed, Names DEF Supervised
    <2>3. serve = None /\ generation # None
      BY <2>1, Names, Typed, PhaseFacts
      DEF Supervised, Detachments, Unattached, Numbers, None
    <2>4. /\ Detachments' /\ Attachments' /\ Owned'
          /\ overran' \/ (Unlocked' /\ Single')
      BY <1>a, <2>1, <2>2, <2>3, NothingStarted
    <2>5. Flags'
      BY <1>a, <2>1, <2>2, PhaseFacts DEF Supervised, Flags
    <2>6. Numbers'
      BY <1>a, <2>1, <2>2, <2>3, Typed, Names, PhaseFacts DEF Supervised, Numbers
    <2>7. overran' \/ Halted'
      BY <1>a, <2>1, <2>2, Names DEF Supervised, Halted, Flags
    <2> QED
      BY <2>4, <2>5, <2>6, <2>7 DEF Supervised
  <1>3. CASE SwitchStarts
    <2>1. /\ pc["switch"] = "sync" /\ ~isHalted
          /\ UNCHANGED <<generation, created, previous, serve, child, isHalted,
                         isStopping, overran>>
      BY <1>3 DEF SwitchStarts, At
    <2>2. CASE previous = None
      BY <1>3, <2>1, <2>2, HandOver DEF SwitchStarts
    <2>3. CASE previous # None
      <3>1. /\ pc' = [pc EXCEPT !["switch"] = "retire"]
            /\ UNCHANGED <<target, gen, isReady>>
        BY <1>3, <2>3 DEF SwitchStarts, Goto
      <3>2. /\ pc'["switch"] = "retire" /\ pc'["loop"] = pc["loop"]
            /\ pc'["stop"] = pc["stop"]
        BY <3>1, Typed, Names DEF Supervised
      <3>3. Flags'
        BY <1>a, <2>1, <3>1, <3>2, PhaseFacts DEF Supervised, Flags
      <3>4. Numbers'
        BY <1>a, <2>1, <2>3, <3>1, <3>2, Names, PhaseFacts DEF Supervised, Numbers
      <3>5. Detachments'
        BY <1>a, <3>2, Names DEF Detachments, Unattached, BeforeChild
      <3>6. Attachments'
        BY <1>a, <2>1, <3>1, <3>2, Names
        DEF Supervised, Attachments, Attached, WithChild, HasChild
      <3>7. Owned'
        BY <2>1, <3>1, <3>2, Names, OwnedStep DEF Supervised, IsUp
      <3>8. overran' \/ (Halted' /\ Unlocked' /\ Single')
        <4>1. CASE overran
          BY <2>1, <4>1
        <4>2. CASE ~overran
          <5>1. Halted'
            BY <1>a, <2>1, <3>2, <4>2, Names DEF Supervised, Halted, BeforeChild
          <5>2. Unlocked'
            BY <1>a, <2>1, <3>1, <3>2, <4>2, Names DEF Supervised, Unlocked
          <5>3. Single'
            BY <2>1, <4>2, SingleStep DEF Supervised, IsUp
          <5> QED
            BY <5>1, <5>2, <5>3
        <4> QED
          BY <4>1, <4>2
      <3> QED
        BY <3>3, <3>4, <3>5, <3>6, <3>7, <3>8 DEF Supervised
    <2> QED
      BY <2>2, <2>3
  <1>4. CASE SwitchStopped
    BY <1>4, SwitchGivesUp, PhaseFacts DEF SwitchStopped, At
  <1>5. CASE PreviousRetired
    BY <1>5, HandOver DEF PreviousRetired, At
  <1>6. CASE RemovalFails
    <2>1. /\ pc["switch"] \in {"rmNext", "retire", "failRetire"}
          /\ pc' = [pc EXCEPT !["switch"] = "idle"] /\ previous' = None
          /\ target' = [target EXCEPT !["switch"] = None]
          /\ gen' = [gen EXCEPT !["switch"] = None]
          /\ UNCHANGED <<generation, created, serve, child, flagVars, overran>>
      BY <1>6 DEF RemovalFails, At
    <2>2. /\ pc'["switch"] = "idle" /\ pc'["loop"] = pc["loop"]
          /\ pc'["stop"] = pc["stop"] /\ target'["stop"] = target["stop"]
      BY <2>1, Typed, Names DEF Supervised
    <2>3. /\ Detachments' /\ Attachments' /\ Owned'
          /\ overran' \/ (Unlocked' /\ Single')
      BY <1>a, <2>1, <2>2, NothingStarted
    <2>4. Flags'
      BY <1>a, <2>1, <2>2, PhaseFacts DEF Supervised, Flags, flagVars
    <2>5. Numbers'
      BY <1>a, <2>1, <2>2, Typed, Names, PhaseFacts DEF Supervised, Numbers, None
    <2>6. overran' \/ Halted'
      BY <1>a, <2>1, <2>2, Names DEF Supervised, Halted, BeforeChild
    <2> QED
      BY <2>3, <2>4, <2>5, <2>6 DEF Supervised
  <1>7. CASE FailedChildStopped
    BY <1>7, SwitchGivesUp, PhaseFacts DEF FailedChildStopped, Notices
  <1>8. CASE SwitchUndone
    <2>1. /\ pc["switch"] = "failRetire" /\ generation' = previous /\ previous' = None
          /\ UNCHANGED <<created, serve, child, isReady, isStopping, target, overran>>
      BY <1>8 DEF SwitchUndone, At
    <2>2. serve = None /\ ~isReady
      BY <1>a, <2>1, Names DEF Supervised, Detachments, Unattached, Flags
    <2>3. /\ pc'["switch"] = "idle"
          /\ \/ /\ isStopping /\ isHalted' = isHalted
                /\ pc'["loop"] = "ended" /\ pc'["stop"] = pc["stop"]
             \/ /\ ~isStopping /\ pc'["stop"] = pc["stop"]
                /\ \/ pc'["loop"] = "ended"
                   \/ /\ pc'["loop"] = "version" /\ gen'["loop"] = previous
                      /\ previous # None
      <3>1. CASE isStopping
        BY <1>a, <1>8, <3>1, Typed, Names DEF Supervised, SwitchUndone
      <3>2. CASE ~isStopping
        <4>1. LoopHead([pc EXCEPT !["switch"] = "idle"], FALSE, previous)
          BY <1>8, <3>2 DEF SwitchUndone
        <4>2. pc["stop"] = "idle"
          BY <3>2 DEF Supervised, Flags
        <4> QED
          BY <3>2, <4>1, <4>2, Typed, Names DEF Supervised, LoopHead, WithLoopEnded
      <3> QED
        BY <3>1, <3>2
    <2>4. /\ Detachments' /\ Attachments' /\ Owned'
          /\ overran' \/ (Unlocked' /\ Single')
      BY <1>a, <2>1, <2>2, <2>3, NothingStarted
    <2>5. Flags'
      BY <1>a, <2>1, <2>2, <2>3, PhaseFacts DEF Supervised, Flags
    <2>6. Numbers'
      BY <1>a, <2>1, <2>3, Typed, Names, PhaseFacts DEF Supervised, Numbers, None
    <2>7. overran' \/ Halted'
      BY <1>a, <2>1, <2>2, <2>3, Names DEF Supervised, Halted, Flags, BeforeChild
    <2> QED
      BY <2>4, <2>5, <2>6, <2>7 DEF Supervised
  <1> QED
    BY <1>1, <1>2, <1>3, <1>4, <1>5, <1>6, <1>7, <1>8 DEF Switch

LEMMA NextSupervised == Supervised /\ [Next]_vars => Supervised'
  <1> SUFFICES ASSUME Supervised, [Next]_vars PROVE Supervised'
    OBVIOUS
  <1>a. IInv'
    BY NextIInv DEF Supervised
  <1>1. CASE \E p \in Starters : Start(p)
    BY <1>a, <1>1, StartSupervised
  <1>2. CASE Loop
    BY <1>a, <1>2, LoopSupervised
  <1>3. CASE Switch
    BY <1>a, <1>3, SwitchSupervised
  <1>4. CASE Reconfigure
    BY <1>a, <1>4, BeginHaltSupervised, Names
    DEF Reconfigure, At, IsRunning, Supervised, Flags
  <1>5. CASE \E p \in Halters : Halt(p)
    BY <1>a, <1>5, HaltSupervised
  <1>6. CASE Stop
    BY <1>a, <1>6, BeginHaltSupervised, Names
    DEF Stop, At, IsRunning, generationVars
  <1>7. CASE StopCompletes
    <2>1. /\ pc["stop"] = "woken" /\ pc["switch"] = "idle"
          /\ pc' = [pc EXCEPT !["stop"] = "done"]
          /\ UNCHANGED <<generation, created, previous, serve, child, flagVars,
                         target, gen, overran>>
      BY <1>7 DEF StopCompletes, Resumes, Goto
    <2>2. pc'["stop"] = "done" /\ \A q \in Starters : pc'[q] = pc[q]
      BY <2>1, Typed, Names DEF Supervised
    <2>3. Flags'
      BY <2>1, <2>2, Names DEF Supervised, Flags, flagVars
    <2>4. Numbers'
      BY <2>1, <2>2, Names DEF Supervised, Numbers
    <2>5. Detachments'
      BY <2>1, <2>2, Names DEF Supervised, Detachments
    <2>6. Attachments'
      BY <2>1, <2>2, Names DEF Supervised, Attachments, HasChild, flagVars
    <2>7. Owned'
      BY <2>1, <2>2, Names, OwnedStep DEF Supervised, IsUp
    <2>8. overran' \/ (Halted' /\ Unlocked' /\ Single')
      BY <2>1, <2>2, Names, SingleStep DEF Supervised, Halted, Unlocked, IsUp, flagVars
    <2> QED
      BY <1>a, <2>3, <2>4, <2>5, <2>6, <2>7, <2>8 DEF Supervised
  <1>8. CASE \E c \in Children : ChildExits(c)
    <2>1. PICK c \in Children :
              /\ child' = [child EXCEPT ![c].state = "exited"]
              /\ UNCHANGED <<generation, created, previous, serve, flagVars, pc,
                             target, gen, overran>>
      BY <1>8 DEF ChildExits, generationVars, controlVars
    <2>2. /\ \A d \in Children : child'[d].gen = child[d].gen
          /\ \A d \in Children : child'[d].state \in {child[d].state, "exited"}
          /\ \A d \in Children : IsUp(d)' => IsUp(d)
      BY <2>1, Typed DEF Supervised, IsUp
    <2>3. Flags' /\ Numbers' /\ Detachments'
      BY <2>1 DEF Supervised, Flags, Numbers, Detachments, flagVars
    <2>4. Attachments'
      BY <2>1, <2>2 DEF Supervised, Attachments, HasChild, flagVars
    <2>5. Owned'
      BY <2>1, <2>2, OwnedStep DEF Supervised
    <2>6. overran' \/ (Halted' /\ Unlocked' /\ Single')
      <3>1. CASE overran
        BY <2>1, <3>1
      <3>2. CASE ~overran
        <4>1. Halted' /\ Single'
          BY <2>1, <2>2, <3>2, SingleStep DEF Supervised, Halted
        <4>2. Unlocked'
          <5> SUFFICES ASSUME NEW p \in Starters, pc[p] \in {"sync", "serving", "retire"}
                       PROVE  child'[target[p]].state \in {"unlocked", "exited"} \/ isHalted
            BY <2>1 DEF Unlocked, flagVars
          <5>1. target[p] \in Children
            BY DEF Supervised, Attachments, HasChild, Attached, WithChild
          <5> QED
            BY <2>2, <3>2, <5>1 DEF Supervised, Unlocked
        <4> QED
          BY <4>1, <4>2
      <3> QED
        BY <3>1, <3>2
    <2> QED
      BY <1>a, <2>3, <2>4, <2>5, <2>6 DEF Supervised
  <1>9. CASE UNCHANGED vars
    BY <1>a, <1>9
    DEF vars, generationVars, flagVars, controlVars, Supervised, Flags, Numbers,
        Detachments, Attachments, HasChild, Owned, IsUp, IsTerminated, Halted,
        Unlocked, Single
  <1> QED
    BY <1>1, <1>2, <1>3, <1>4, <1>5, <1>6, <1>7, <1>8, <1>9 DEF Next, Gone

-----------------------------------------------------------------------------
(* The child: what the runs of the supervisor check of it.                    *)

LEMMA InitSupervised == Init => Supervised
  <1> SUFFICES ASSUME Init PROVE Supervised
    OBVIOUS
  <1>1. /\ pc["loop"] \in {"ended", "version"} /\ pc["switch"] = "idle"
        /\ pc["stop"] = "idle" /\ serve = None /\ previous = None
        /\ pc["loop"] = "version" => gen["loop"] = generation /\ generation # None
    BY Names DEF Init
  <1>2. IInv
    BY InitIInv
  <1>3. Flags
    BY <1>1, PhaseFacts DEF Init, Flags
  <1>4. Numbers
    BY <1>1, <1>2, Names, PhaseFacts, Typed DEF Init, Numbers, None
  <1>5. Detachments
    BY <1>1 DEF Detachments
  <1>6. Attachments
    BY <1>1, Names DEF Attachments, Attached, WithChild
  <1>7. \A c \in Children : ~IsUp(c)
    BY DEF Init, IsUp
  <1>8. Owned /\ Single
    BY <1>7 DEF Owned, Single
  <1>9. Halted /\ Unlocked
    BY <1>1, Names DEF Halted, Unlocked
  <1> QED
    BY <1>2, <1>3, <1>4, <1>5, <1>6, <1>8, <1>9 DEF Supervised

LEMMA SupervisedAlways == Spec => []Supervised
  BY InitSupervised, NextSupervised, PTL DEF Spec

\* The invariant says what the runs check of the child.
LEMMA SupervisedGivesChild ==
    ASSUME Supervised
    PROVE  ChildInUse
  <1>1. OneChild
    <2>1. CASE overran
      BY <2>1 DEF OneChild
    <2>2. CASE ~overran
      <3> DEFINE up == {c \in Children : IsUp(c)}
      <3>1. CASE up = {}
        BY <3>1, FS_EmptySet DEF OneChild
      <3>2. CASE up # {}
        <4>1. PICK c \in up : TRUE
          BY <3>2
        <4>2. up = {c}
          BY <2>2, <4>1 DEF Supervised, Single
        <4> QED
          BY <4>2, FS_Singleton DEF OneChild
      <3> QED
        BY <3>1, <3>2
    <2> QED
      BY <2>1, <2>2
  <1>2. ReadyMeansUnlocked
    <2> SUFFICES ASSUME IsRunning, isReady, ~isHalted, ~overran, ~IsDue
                 PROVE  /\ serve # None
                        /\ child[serve] = [state |-> "unlocked", gen |-> generation]
      BY DEF ReadyMeansUnlocked
    <2>1. pc["loop"] = "serving" /\ HasChild("loop") /\ serve = target["loop"]
      BY Names DEF Supervised, Flags, Attachments, Attached, HasChild
    <2>2. IsUp(target["loop"])
      BY <2>1, Names DEF IsDue, Notices
    <2>3. child[serve].state \in {"unlocked", "exited"} /\ child[serve].gen = generation
      BY <2>1, Names DEF Supervised, Unlocked, HasChild
    <2>4. child[serve] \in [state : ChildStates, gen : 0..MaxGenerations]
      BY <2>1, Typed DEF Supervised, HasChild
    <2> QED
      BY <2>1, <2>2, <2>3, <2>4 DEF IsUp, HasChild, Children, None
  <1>3. StoppedUnlessOverrun
    <2> SUFFICES ASSUME pc["stop"] = "done", ~overran, NEW c \in Children, IsUp(c)
                 PROVE  FALSE
      BY DEF StoppedUnlessOverrun
    <2>1. serve = None /\ pc["loop"] = "ended" /\ pc["switch"] = "idle"
      BY DEF Supervised, Halted, Flags
    <2> QED
      BY <2>1, Names DEF Supervised, Owned, IsTerminated, Children, None
  <1> QED
    BY <1>1, <1>2, <1>3 DEF ChildInUse

\* At every await of the loop, a switch and a stop, a switch whose clean-up of
\* a directory fails included: never two children, a ready backend's child is
\* unlocked and of the generation in use, and a completed stop leaves none
\* running (VAULT-5, 7; supervisor.ts, supervisor-loop.ts, supervisor-start.ts).
THEOREM ChildIsInUse == Spec => []ChildInUse
  BY SupervisedAlways, SupervisedGivesChild, PTL

-----------------------------------------------------------------------------
(* Directories and secrets.                                                   *)

\* A step that leaves the numbers alone, logs in at most, and zeroes at most
\* the secrets of a generation that a switch gives up.
LEMMA KeptStep ==
    ASSUME Supervised, Supervised', Kept,
           \/ session' = session
           \/ /\ serve = None /\ generation # None
              /\ session' = [session EXCEPT ![generation] = LogsIn(generation)],
           \/ disposed' = disposed
           \/ disposed' = disposed \cup {generation} /\ pc'["switch"] = "failRetire",
           \/ serve' \in {None, serve},
           \A c \in Children : child'[c].gen = child[c].gen,
           \A p \in Starters :
              pc'[p] = "port" => pc[p] = "port" \/ session'[generation] = account[generation],
           pc["switch"] \in {"rmNext", "retire", "failRetire"} => pc'["switch"] = pc["switch"],
           pc["stop"] = "done" => pc'["stop"] = "done",
           UNCHANGED <<generation, created, previous, account>>
    PROVE  Kept'
  <1>a. /\ generation \in 0..MaxGenerations /\ previous \in 0..MaxGenerations
        /\ created \in 0..MaxGenerations /\ serve \in Children \cup {None}
        /\ session \in [Generations -> Accounts \cup {NoAccount}]
        /\ generation <= created
        /\ IInv
    BY DEF Supervised, IInv, TypeOK, Numbers, Children, None
  <1>b. \A g \in Generations : Sess(g) => Sess(g)'
    BY <1>a DEF Sess, LogsIn
  <1>c. /\ generation # None => generation \in Generations
        /\ previous # None => previous \in Generations
    BY <1>a DEF Generations, None
  <1>1. generation' # None /\ pc'["switch"] # "rmNext" => Sess(generation)'
    BY <1>b, <1>c DEF Kept, Directories, Sess
  <1>2. previous' # None => Sess(previous)'
    BY <1>b, <1>c DEF Kept, Directories, Sess
  <1>3. \A p \in Starters : pc'[p] = "port" => session'[generation] = account[generation]
    <2> SUFFICES ASSUME NEW p \in Starters, pc[p] = "port"
                 PROVE  session'[generation] = account[generation]
      OBVIOUS
    <2>1. session[generation] = account[generation]
      BY DEF Kept, Directories
    <2> QED
      BY <1>a, <1>c, <2>1 DEF LogsIn
  <1>4. serve' # None => session'[child'[serve'].gen] = account'[child'[serve'].gen]
    BY <1>a DEF Kept, Directories
  <1>5. Directories'
    BY <1>1, <1>2, <1>3, <1>4 DEF Directories
  <1>6. \A g \in disposed' : g <= created'
    BY <1>a DEF Kept, Secrets
  <1>7. IsRunning' /\ pc'["switch"] # "failRetire" => generation' \notin disposed'
    BY DEF Kept, Secrets, IsRunning
  <1>8. IsRunning' /\ pc'["switch"] # "retire" => previous' \notin disposed'
    <2>1. "failRetire" \in SwitchStarting
      BY PhaseFacts
    <2>2. pc'["switch"] = "failRetire" => previous # generation
      BY <1>a, <2>1 DEF Supervised, Numbers
    <2> QED
      BY <2>2 DEF Kept, Secrets, IsRunning
  <1> QED
    BY <1>5, <1>6, <1>7, <1>8 DEF Kept, Secrets

\* The caller of a failed start logs nobody in, and zeroes at most the secrets
\* of the generation a switch gives up.
LEMMA FailureFacts ==
    ASSUME Supervised, NEW p \in Starters, pc[p] \in StartPhases \cup {"failStop"},
           StartFailed(p) \/ Detach(p)
    PROVE  /\ serve' \in {None, serve}
           /\ \/ disposed' = disposed
              \/ disposed' = disposed \cup {generation} /\ pc'["switch"] = "failRetire"
           /\ \A q \in Starters : pc'[q] = "port" => pc[q] = "port"
           /\ pc["switch"] \in {"rmNext", "retire", "failRetire"} => pc'["switch"] = pc["switch"]
           /\ pc["stop"] = "done" => pc'["stop"] = "done"
  <1>a. pc \in [Activities -> Phases] /\ pc[p] \notin {"rmNext", "retire", "failRetire"}
    BY Typed, PhaseFacts DEF Supervised
  <1>1. CASE p = "loop" /\ RecordFailure(failures) /\ UNCHANGED <<serve, disposed>>
    BY <1>1, <1>a, Names DEF RecordFailure, LoopHead, WithLoopEnded
  <1>2. CASE p = "switch" /\ SwitchFails
    BY <1>2, <1>a, Names DEF SwitchFails, StopServe
  <1>3. CASE StopServe(p, "detach") /\ UNCHANGED disposed
    BY <1>3, <1>a, Names DEF StopServe
  <1> QED
    BY <1>1, <1>2, <1>3 DEF StartFailed, Detach

LEMMA StartKept ==
    ASSUME Supervised, Supervised', Kept, NEW p \in Starters, Start(p)
    PROVE  Kept'
  <1> USE PhaseFacts
  <1>a. /\ pc \in [Activities -> Phases] /\ pc[p] \in StartPhases
        /\ gen[p] = generation /\ generation # None
        /\ UNCHANGED <<generation, created, previous, account>>
        /\ pc["stop"] # "done"
    <2>1. /\ pc[p] \in StartPhases /\ pc["stop"] # "done"
          /\ UNCHANGED <<generation, created, previous, account>>
      BY DEF Start, VersionOk, VersionFails, VersionRefused, LoginOk, LoginFails,
             Spawn, StatusOk, StatusFails, PollAgain, PollEnds, UnlockOk,
             UnlockSettles, UnlockAgain, UnlockFails, Detached, At, Notices,
             IsRunning, generationVars
    <2> QED
      BY <2>1, Typed DEF Supervised, Numbers
  <1>1. CASE VersionOk(p) \/ StatusOk(p) \/ StatusFails(p) \/ PollAgain(p) \/ UnlockAgain(p)
    <2>1. /\ UNCHANGED <<session, disposed, serve, child>>
          /\ \E x \in {"login", "unlock", "poll", "status"} : pc' = [pc EXCEPT ![p] = x]
      BY <1>1 DEF VersionOk, StatusOk, StatusFails, PollAgain, UnlockAgain, Goto, generationVars
    <2>2. pc'[p] # "port" /\ \A q \in Activities : q # p => pc'[q] = pc[q]
      BY <1>a, <2>1, Names
    <2> QED
      BY <1>a, <2>1, <2>2, KeptStep, Names
  <1>2. CASE VersionFails(p) \/ PollEnds(p) \/ UnlockFails(p) \/ Detached(p)
    <2>1. /\ StartFailed(p) \/ Detach(p)
          /\ UNCHANGED <<session, child>>
      BY <1>2 DEF VersionFails, PollEnds, UnlockFails, Detached
    <2> QED
      BY <1>a, <2>1, FailureFacts, KeptStep
  <1>3. CASE VersionRefused(p)
    <2>1. CASE p = "loop"
      <3>1. /\ LoopHead(pc, TRUE, generation)
            /\ UNCHANGED <<session, disposed, serve, child>>
        BY <1>3, <2>1 DEF VersionRefused
      <3>2. /\ \A q \in Starters : pc'[q] = "port" => pc[q] = "port"
            /\ pc["switch"] \in {"rmNext", "retire", "failRetire"} => pc'["switch"] = pc["switch"]
        BY <1>a, <3>1, Names DEF LoopHead, WithLoopEnded
      <3> QED
        BY <1>a, <3>1, <3>2, KeptStep
    <2>2. CASE p = "switch"
      <3>1. SwitchFails /\ UNCHANGED <<session, child, failures>>
        BY <1>3, <2>2 DEF VersionRefused
      <3> QED
        BY <1>a, <2>2, <3>1, FailureFacts, KeptStep DEF StartFailed
    <2> QED
      BY <2>1, <2>2, Names
  <1>4. CASE LoginOk(p) \/ LoginFails(p)
    <2>1. /\ pc[p] = "login" /\ serve = None /\ UNCHANGED child
          /\ session' \in {session, [session EXCEPT ![generation] = LogsIn(generation)]}
      BY <1>4, <1>a
      DEF LoginOk, LoginFails, At, Supervised, Detachments, Unattached, BeforeChild
    <2>2. CASE LoginOk(p)
      <3>1. /\ session' = [session EXCEPT ![generation] = LogsIn(generation)]
            /\ pc' = [pc EXCEPT ![p] = "port"] /\ UNCHANGED <<disposed, serve>>
        BY <1>a, <2>2 DEF LoginOk, Goto
      <3>2. pc["switch"] # "rmNext"
        BY <2>1, Names DEF Supervised, IInv, PcInv
      <3>3. session'[generation] = account[generation]
        <4>1. Sess(generation) /\ generation \in Generations
          BY <1>a, <3>2 DEF Kept, Directories, Supervised, IInv, TypeOK, Generations, None
        <4>2. DOMAIN session = Generations
          BY DEF Supervised, IInv, TypeOK
        <4> QED
          BY <3>1, <4>1, <4>2 DEF Sess, LogsIn
      <3>4. \A q \in Activities : q # p => pc'[q] = pc[q]
        BY <1>a, <3>1, Names
      <3>5. pc["switch"] \in {"rmNext", "retire", "failRetire"} => pc'["switch"] = pc["switch"]
        BY <2>1, <3>4, Names
      <3> QED
        BY <1>a, <2>1, <3>1, <3>3, <3>4, <3>5, KeptStep, Names
    <2>3. CASE LoginFails(p)
      <3>1. StartFailed(p)
        BY <2>3 DEF LoginFails
      <3> QED
        BY <1>a, <2>1, <3>1, FailureFacts, KeptStep
    <2> QED
      BY <1>4, <2>2, <2>3
  <1>5. CASE UnlockOk(p) \/ UnlockSettles(p)
    <2>1. /\ UNCHANGED <<session, disposed, serve>>
          /\ \E x \in {"sync", "settle"} : pc' = [pc EXCEPT ![p] = x]
          /\ child' \in {child, [child EXCEPT ![serve].state = "unlocked"]}
      BY <1>5 DEF UnlockOk, UnlockSettles, Goto, generationVars
    <2>2. pc'[p] # "port" /\ \A q \in Activities : q # p => pc'[q] = pc[q]
      BY <1>a, <2>1, Names
    <2>3. \A c \in Children : child'[c].gen = child[c].gen
      BY <2>1, Typed DEF Supervised
    <2> QED
      BY <1>a, <2>1, <2>2, <2>3, KeptStep, Names
  <1>6. CASE Spawn(p)
    <2>1. PICK c \in Children :
              /\ child' = [child EXCEPT ![c] = [state |-> "locked", gen |-> gen[p]]]
              /\ \/ serve' = None /\ pc' = [pc EXCEPT ![p] = "detach"]
                 \/ serve' = c /\ pc' = [pc EXCEPT ![p] = "status"]
      BY <1>6 DEF Spawn
    <2>2. pc[p] = "port" /\ UNCHANGED <<session, disposed>>
      BY <1>6 DEF Spawn, At, generationVars
    <2>3. /\ pc'[p] \in {"detach", "status"}
          /\ \A q \in Activities : q # p => pc'[q] = pc[q]
      BY <1>a, <2>1, Names
    <2>4. session[generation] = account[generation]
      BY <2>2 DEF Kept, Directories
    <2>5. serve' # None => child'[serve'].gen = generation
      BY <1>a, <2>1, Typed DEF Supervised
    <2>6. pc["switch"] # "rmNext"
      BY <2>2, Names DEF Supervised, IInv, PcInv
    <2>7. Directories'
      BY <1>a, <2>2, <2>3, <2>4, <2>5, <2>6, Names DEF Kept, Directories, Sess
    <2>8. Secrets'
      BY <1>a, <2>2, <2>3, Names DEF Kept, Secrets, IsRunning
    <2> QED
      BY <2>7, <2>8 DEF Kept
  <1> QED
    BY <1>1, <1>2, <1>3, <1>4, <1>5, <1>6 DEF Start

\* Where pc moves within a halt, or the loop leaves its child.
PcCalm ==
    /\ \A p \in Starters : pc'[p] = "port" => pc[p] = "port"
    /\ pc["switch"] \in {"rmNext", "retire", "failRetire"} => pc'["switch"] = pc["switch"]
    /\ pc["stop"] = "done" => pc'["stop"] = "done"

LEMMA CalmMove ==
    ASSUME IInv, NEW p \in Activities, NEW x,
           x # "port", pc[p] \notin {"rmNext", "retire", "failRetire", "done"},
           pc' = [pc EXCEPT ![p] = x]
    PROVE  PcCalm
  BY Typed, Names DEF PcCalm

LEMMA LoopKept ==
    ASSUME Supervised, Supervised', Kept, Loop
    PROVE  Kept'
  <1>1. /\ serve' \in {None, serve}
        /\ UNCHANGED <<generation, created, previous, account, session, disposed, child>>
    BY DEF Loop, LoopStarts, ChildExitSeen, BackoffEnds, generationVars
  <1>2. \/ pc' = WithLoopEnded(pc)
        \/ /\ pc["loop"] \notin {"rmNext", "retire", "failRetire", "done"}
           /\ \E x \in {"serving", "backoff", "version"} : pc' = [pc EXCEPT !["loop"] = x]
    BY DEF Loop, LoopStarts, ChildExitSeen, BackoffEnds, RecordFailure, LoopHead, At,
           Notices
  <1>3. PcCalm
    <2>1. CASE pc' = WithLoopEnded(pc)
      BY <2>1, Names DEF PcCalm, WithLoopEnded
    <2> QED
      BY <1>2, <2>1, CalmMove, Names DEF Supervised
  <1> QED
    BY <1>1, <1>3, KeptStep DEF PcCalm

LEMMA HaltKept ==
    ASSUME Supervised, Supervised', Kept, NEW p \in Halters, Halt(p)
    PROVE  Kept'
  <1>1. /\ UNCHANGED <<generation, created, previous, account, session, disposed>>
        /\ serve' \in {None, serve}
    BY DEF Halt, LockAnswered, ChildStopped, StopServe, generationVars
  <1>2. \A c \in Children : child'[c].gen = child[c].gen
    BY Typed DEF Supervised, Halt, LockAnswered, ChildStopped
  <1>3. PcCalm
    <2>1. pc[p] \in {"lock", "term"}
      BY DEF Halt, LockAnswered, ChildStopped, At, Notices
    <2>2. \E x \in {"term", "await", "woken"} : pc' = [pc EXCEPT ![p] = x]
      BY DEF Halt, LockAnswered, ChildStopped, StopServe, AwaitLoop
    <2> QED
      BY <2>1, <2>2, CalmMove, Names DEF Supervised
  <1> QED
    BY <1>1, <1>2, <1>3, KeptStep DEF PcCalm

LEMMA SwitchKept ==
    ASSUME ~RemovalMayFail, Supervised, Supervised', Kept, Switch
    PROVE  Kept'
  <1>a. /\ generation \in 0..MaxGenerations /\ previous \in 0..MaxGenerations
        /\ created \in 0..MaxGenerations /\ serve \in Children \cup {None}
        /\ session \in [Generations -> Accounts \cup {NoAccount}]
        /\ account \in [Generations -> Accounts \cup {NoAccount}]
        /\ disposed \subseteq Generations
        /\ pc \in [Activities -> Phases] /\ target \in [Activities -> 0..MaxChildren]
        /\ IInv
    BY Typed DEF Supervised, IInv, TypeOK
  <1>b. pc["stop"] # "done" /\ pc["loop"] = "ended"
    <2>1. pc["switch"] \in SwitchStarting \cup {"woken"} /\ pc["stop"] # "done"
      BY PhaseFacts
      DEF Switch, CreateNext, StartNext, SwitchStarts, SwitchStopped, PreviousRetired,
          RemovalFails, FailedChildStopped, SwitchUndone, At, Resumes, Notices, IsRunning
    <2> QED
      BY <2>1 DEF Supervised, IInv, PcInv
  <1>c. pc["switch"] \in SwitchStarting =>
           /\ previous < generation /\ generation = created /\ generation \in Generations
    BY <1>a DEF Supervised, Numbers, Generations
  <1>1. CASE CreateNext
    <2>1. /\ pc["switch"] = "woken" /\ pc' = [pc EXCEPT !["switch"] = "rmNext"]
          /\ created' = created + 1 /\ generation' = created'
          /\ \E a \in Accounts : account' = [account EXCEPT ![created'] = a]
          /\ UNCHANGED <<previous, serve, child, disposed, session>>
      BY <1>1 DEF CreateNext, Resumes, Goto
    <2>2. /\ pc'["switch"] = "rmNext" /\ pc'["loop"] = pc["loop"]
          /\ serve = None /\ previous <= created
      BY <1>a, <2>1, Names DEF Supervised, Detachments, Numbers
    <2>3. previous # None => Sess(previous)'
      <3>1. previous # created' /\ (previous # None => previous \in Generations)
        BY <1>a, <2>1, <2>2 DEF Generations, None
      <3>2. previous # None => account'[previous] = account[previous]
        BY <1>a, <2>1, <3>1
      <3> QED
        BY <2>1, <3>2 DEF Kept, Directories, Sess
    <2>4. Directories'
      BY <1>b, <2>1, <2>2, <2>3, Names DEF Directories
    <2>5. Secrets'
      <3>1. created + 1 \notin disposed /\ \A g \in disposed : g <= created + 1
        BY <1>a DEF Kept, Secrets, Generations
      <3>2. previous \notin disposed
        BY <1>b, <2>1 DEF Kept, Secrets, IsRunning
      <3> QED
        BY <2>1, <3>1, <3>2 DEF Secrets
    <2> QED
      BY <2>4, <2>5 DEF Kept
  <1>2. CASE StartNext
    <2>1. /\ pc["switch"] = "rmNext" /\ pc' = [pc EXCEPT !["switch"] = "version"]
          /\ session' = [session EXCEPT ![generation] = NoAccount]
          /\ UNCHANGED <<generation, created, account, disposed, previous, serve, child>>
      BY <1>2 DEF StartNext, At, Removed
    <2>2. /\ pc'["switch"] = "version" /\ pc'["loop"] = pc["loop"] /\ serve = None
          /\ pc["switch"] \in SwitchStarting
      BY <1>a, <2>1, Names, PhaseFacts DEF Supervised, Detachments, Unattached
    <2>3. Sess(generation)' /\ (previous # None => Sess(previous)')
      BY <1>a, <1>c, <2>1, <2>2 DEF Kept, Directories, Sess
    <2>4. Directories'
      BY <1>b, <2>1, <2>2, <2>3, Names DEF Directories
    <2>5. Secrets'
      BY <1>b, <2>1, <2>2 DEF Kept, Secrets, IsRunning
    <2> QED
      BY <2>4, <2>5 DEF Kept
  <1>3. CASE SwitchStarts
    <2>1. /\ pc["switch"] = "sync"
          /\ UNCHANGED <<generation, created, previous, account, session, serve, child>>
      BY <1>3 DEF SwitchStarts, At
    <2>2. CASE previous = None
      <3>1. /\ UNCHANGED disposed
            /\ \E x \in {"ended", "serving"} :
                  pc' = [pc EXCEPT !["switch"] = "idle", !["loop"] = x]
        BY <1>3, <2>2 DEF SwitchStarts, RunServing
      <3>2. PcCalm
        BY <1>a, <1>b, <2>1, <3>1, Names DEF PcCalm
      <3> QED
        BY <2>1, <3>1, <3>2, KeptStep DEF PcCalm
    <2>3. CASE previous # None
      <3>1. /\ disposed' = disposed \cup {previous}
            /\ pc' = [pc EXCEPT !["switch"] = "retire"]
        BY <1>3, <2>3 DEF SwitchStarts, Goto
      <3>2. /\ pc'["switch"] = "retire" /\ pc'["loop"] = pc["loop"]
            /\ pc["switch"] \in SwitchStarting
        BY <1>a, <2>1, <3>1, Names, PhaseFacts
      <3>3. Directories'
        BY <1>b, <2>1, <3>2, Names DEF Kept, Directories, Sess
      <3>4. Secrets'
        BY <1>a, <1>b, <1>c, <2>1, <3>1, <3>2 DEF Kept, Secrets, IsRunning
      <3> QED
        BY <3>3, <3>4 DEF Kept
    <2> QED
      BY <2>2, <2>3
  <1>4. CASE SwitchStopped \/ FailedChildStopped
    <2>1. /\ pc["switch"] \in {"sync", "failStop"} /\ StartFailed("switch")
          /\ UNCHANGED <<generation, created, previous, account, session, child>>
      BY <1>4 DEF SwitchStopped, FailedChildStopped, At, Notices, StartFailed
    <2>2. pc["switch"] \in StartPhases \cup {"failStop"}
      BY <2>1, PhaseFacts
    <2> QED
      BY <2>1, <2>2, FailureFacts, KeptStep, Names
  <1>5. CASE PreviousRetired
    <2>1. /\ pc["switch"] = "retire" /\ previous' = None
          /\ session' = [session EXCEPT ![previous] = NoAccount]
          /\ UNCHANGED <<generation, created, account, disposed, serve, child>>
          /\ \E x \in {"ended", "serving"} :
                pc' = [pc EXCEPT !["switch"] = "idle", !["loop"] = x]
      BY <1>5 DEF PreviousRetired, At, Removed, RunServing
    <2>2. /\ pc'["switch"] = "idle" /\ pc'["loop"] \in {"ended", "serving"}
          /\ pc["switch"] \in SwitchStarting /\ HasChild("switch")
      BY <1>a, <2>1, Names, PhaseFacts DEF Supervised, Attachments, Attached
    <2>3. Sess(generation)' /\ session'[generation] = session[generation]
      BY <1>a, <1>c, <2>1, <2>2 DEF Kept, Directories, Sess, None
    <2>4. serve # None => child[serve].gen = generation
      BY <2>2 DEF HasChild
    <2>5. Directories'
      BY <2>1, <2>2, <2>3, <2>4, Names DEF Kept, Directories
    <2>6. Secrets'
      BY <1>a, <1>b, <2>1, <2>2 DEF Kept, Secrets, IsRunning, Generations, None
    <2> QED
      BY <2>5, <2>6 DEF Kept
  <1>6. CASE SwitchUndone
    <2>1. /\ pc["switch"] = "failRetire" /\ generation' = previous /\ previous' = None
          /\ session' = [session EXCEPT ![generation] = NoAccount]
          /\ UNCHANGED <<created, account, disposed, serve, child>>
      BY <1>6 DEF SwitchUndone, At, Removed
    <2>2. pc'["switch"] = "idle" /\ pc'["loop"] \in {"ended", "version"}
      BY <1>6, <1>a, <1>b, Names DEF SwitchUndone, LoopHead, WithLoopEnded
    <2>3. serve = None /\ pc["switch"] \in SwitchStarting
      BY <2>1, Names, PhaseFacts DEF Supervised, Detachments, Unattached
    <2>4. previous # None => Sess(previous) /\ session'[previous] = session[previous]
      BY <1>a, <1>c, <2>1, <2>3 DEF Kept, Directories
    <2>5. Directories'
      BY <2>1, <2>2, <2>3, <2>4, Names DEF Directories, Sess
    <2>6. Secrets'
      BY <1>a, <1>b, <2>1, <2>2, <2>3 DEF Kept, Secrets, IsRunning, Generations, None
    <2> QED
      BY <2>5, <2>6 DEF Kept
  <1> QED
    BY <1>1, <1>2, <1>3, <1>4, <1>5, <1>6 DEF Switch, RemovalFails

LEMMA NextKept ==
    ASSUME ~RemovalMayFail, Supervised, Supervised', Kept, [Next]_vars
    PROVE  Kept'
  <1>1. CASE \E p \in Starters : Start(p)
    BY <1>1, StartKept
  <1>2. CASE Loop
    BY <1>2, LoopKept
  <1>3. CASE Switch
    BY <1>3, SwitchKept
  <1>4. CASE Reconfigure
    <2>1. /\ pc["switch"] = "idle" /\ pc["stop"] # "done" /\ previous' = generation
          /\ UNCHANGED <<generation, created, account, disposed, session, serve, child>>
      BY <1>4 DEF Reconfigure, At, IsRunning
    <2>2. \E x \in {"lock", "await", "woken"} : pc' = [pc EXCEPT !["switch"] = x]
      BY <1>4 DEF Reconfigure, BeginHalt, AwaitLoop
    <2>3. pc'["switch"] \in {"lock", "await", "woken"} /\ pc'["loop"] = pc["loop"]
      BY <2>2, Typed, Names DEF Supervised
    <2>4. Directories'
      BY <2>1, <2>3, Names DEF Kept, Directories, Sess
    <2>5. Secrets'
      BY <2>1, <2>3 DEF Kept, Secrets, IsRunning
    <2> QED
      BY <2>4, <2>5 DEF Kept
  <1>5. CASE \E p \in Halters : Halt(p)
    BY <1>5, HaltKept
  <1>6. CASE Stop
    <2>1. pc["stop"] = "idle" /\ UNCHANGED <<generationVars, serve, child>>
      BY <1>6 DEF Stop, At
    <2>2. \E x \in {"lock", "await", "woken"} : pc' = [pc EXCEPT !["stop"] = x]
      BY <1>6 DEF Stop, BeginHalt, AwaitLoop
    <2>3. PcCalm
      BY <2>1, <2>2, CalmMove, Names DEF Supervised
    <2> QED
      BY <2>1, <2>3, KeptStep DEF PcCalm, generationVars
  <1>7. CASE StopCompletes
    <2>1. /\ pc' = [pc EXCEPT !["stop"] = "done"]
          /\ disposed' \in {disposed, disposed \cup {generation}}
          /\ UNCHANGED <<generation, created, account, session, previous, serve, child>>
      BY <1>7 DEF StopCompletes, Goto
    <2>2. pc'["stop"] = "done" /\ \A p \in Starters : pc'[p] = pc[p]
      BY <2>1, Typed, Names DEF Supervised
    <2>3. Directories'
      BY <2>1, <2>2, Names DEF Kept, Directories, Sess
    <2>4. Secrets'
      BY <2>1, <2>2 DEF Kept, Secrets, IsRunning, Supervised, Numbers
    <2> QED
      BY <2>3, <2>4 DEF Kept
  <1>8. CASE \E c \in Children : ChildExits(c)
    <2>1. PICK c \in Children :
              /\ child' = [child EXCEPT ![c].state = "exited"]
              /\ UNCHANGED <<generationVars, serve, pc>>
      BY <1>8 DEF ChildExits, controlVars
    <2>2. \A d \in Children : child'[d].gen = child[d].gen
      BY <2>1, Typed DEF Supervised
    <2> QED
      BY <2>1, <2>2, KeptStep DEF generationVars
  <1>9. CASE UNCHANGED vars
    BY <1>9, KeptStep DEF vars, generationVars, controlVars
  <1> QED
    BY <1>1, <1>2, <1>3, <1>4, <1>5, <1>6, <1>7, <1>8, <1>9 DEF Next, Gone

LEMMA InitKept == Init => Kept
  <1> SUFFICES ASSUME Init PROVE Kept
    OBVIOUS
  <1>1. /\ generation \in {None, 1} /\ previous = None /\ serve = None
        /\ disposed = {} /\ \A p \in Starters : pc[p] # "port"
        /\ generation = 1 => Sess(1)
    BY Names DEF Init, Sess
  <1> QED
    BY <1>1 DEF Kept, Directories, Secrets

LEMMA KeptAlways ==
    ASSUME ~RemovalMayFail
    PROVE  Spec => []Kept
  <1>1. Supervised /\ Supervised' /\ Kept /\ [Next]_vars => Kept'
    BY NextKept
  <1> QED
    BY <1>1, InitKept, SupervisedAlways, PTL DEF Spec

\* While removals succeed: the child that answers calls runs in a directory
\* logged in to the account of its own generation's credentials, and no start
\* reads credentials that are zeroed (VAULT-5, 7, 8, 15; supervisor.ts,
\* supervisor-start.ts, credentials.ts).
THEOREM SupervisorIsSafe ==
    ASSUME ~RemovalMayFail
    PROVE  Spec => []SupervisorSafe
  <1>1. Supervised /\ Kept => SupervisorSafe
    <2> SUFFICES ASSUME Supervised, Kept PROVE SupervisorSafe
      OBVIOUS
    <2>1. OwnSession
      BY DEF Kept, Directories, OwnSession
    <2>2. NoReadAfterDispose
      <3> SUFFICES ASSUME NEW p \in Starters, IsRunning, pc[p] \in {"login", "unlock"}
                   PROVE  gen[p] \notin disposed
        BY DEF NoReadAfterDispose, At, ReadsDisposed
      <3>1. gen[p] = generation
        BY PhaseFacts DEF Supervised, Numbers
      <3>2. pc["switch"] # "failRetire"
        BY Names, PhaseFacts DEF Supervised, IInv, PcInv
      <3> QED
        BY <3>1, <3>2 DEF Kept, Secrets
    <2> QED
      BY <2>1, <2>2, SupervisedGivesChild DEF SupervisorSafe
  <1> QED
    BY <1>1, SupervisedAlways, KeptAlways, PTL

-----------------------------------------------------------------------------
(* What no step does.                                                         *)

LEMMA StartFailedFailures ==
    ASSUME failures \in Nat, NEW p, StartFailed(p) \/ Detach(p)
    PROVE  ~(failures' < failures)
  <1>1. failures' \in {failures, failures + 1}
    BY DEF StartFailed, Detach, RecordFailure
  <1> QED
    BY <1>1

\* The failure count falls only when a child that had been healthy exits, or a
\* switch starts afresh (VAULT-6; supervisor-loop.ts).
THEOREM FailuresClearRightly == Spec => FailuresClear
  <1> DEFINE Step == failures' < failures => ChildExitSeen \/ StartNext
  <1>1. IInv /\ [Next]_vars => [Step]_vars
    <2> SUFFICES ASSUME IInv, Next PROVE Step
      OBVIOUS
    <2>a. failures \in Nat
      BY BoundsAssumption DEF IInv, TypeOK
    <2>b. failures' = failures => ~(failures' < failures)
      BY <2>a
    <2>1. CASE \E p \in Starters : Start(p)
      <3>1. PICK p \in Starters : Start(p)
        BY <2>1
      <3>2. failures' = failures \/ StartFailed(p) \/ Detach(p)
        BY <3>1
        DEF Start, VersionOk, VersionFails, VersionRefused, LoginOk, LoginFails, Spawn,
            StatusOk, StatusFails, PollAgain, PollEnds, UnlockOk, UnlockSettles,
            UnlockAgain, UnlockFails, Detached
      <3> QED
        BY <2>a, <2>b, <3>2, StartFailedFailures
    <2>2. CASE Loop
      BY <2>b, <2>2 DEF Loop, LoopStarts, BackoffEnds
    <2>3. CASE Switch
      BY <2>b, <2>3
      DEF Switch, CreateNext, SwitchStarts, SwitchStopped, PreviousRetired,
          RemovalFails, FailedChildStopped, SwitchUndone
    <2>4. CASE \E p \in Halters : Halt(p)
      BY <2>b, <2>4 DEF Halt, LockAnswered, ChildStopped
    <2>5. CASE Reconfigure \/ Stop \/ StopCompletes
      BY <2>b, <2>5 DEF Reconfigure, Stop, StopCompletes
    <2>6. CASE (\E c \in Children : ChildExits(c)) \/ Gone
      BY <2>b, <2>6 DEF ChildExits, Gone, vars
    <2> QED
      BY <2>1, <2>2, <2>3, <2>4, <2>5, <2>6 DEF Next
  <1> QED
    BY <1>1, Invariance, PTL DEF Spec, FailuresClear

\* Until a switch is decided its steps leave the generation a failure would
\* resume alone: they work in the directory of the new one.
LEMMA UndecidedStep ==
    ASSUME ~RemovalMayFail, Supervised, [Next]_vars, Undecided, Undecided'
    PROVE  /\ previous' = previous
           /\ \A g \in Generations : g # generation => session'[g] = session[g]
  <1>a. /\ session \in [Generations -> Accounts \cup {NoAccount}]
        /\ pc["switch"] \notin HaltPhases \cup {"idle", "retire"}
        /\ pc'["switch"] \notin HaltPhases \cup {"idle", "retire"}
        /\ pc \in [Activities -> Phases]
    BY PhaseFacts DEF Supervised, IInv, TypeOK, Undecided
  <1>1. CASE \E p \in Starters : Start(p)
    <2>1. PICK p \in Starters : Start(p)
      BY <1>1
    <2>2. previous' = previous
      BY <2>1
      DEF Start, VersionOk, VersionFails, VersionRefused, LoginOk, LoginFails, Spawn,
          StatusOk, StatusFails, PollAgain, PollEnds, UnlockOk, UnlockSettles,
          UnlockAgain, UnlockFails, Detached, generationVars
    <2>3. \/ session' = session
          \/ /\ pc[p] = "login"
             /\ session' = [session EXCEPT ![gen[p]] = LogsIn(gen[p])]
      BY <2>1
      DEF Start, VersionOk, VersionFails, VersionRefused, LoginOk, LoginFails, Spawn,
          StatusOk, StatusFails, PollAgain, PollEnds, UnlockOk, UnlockSettles,
          UnlockAgain, UnlockFails, Detached, generationVars, At
    <2>4. pc[p] = "login" => gen[p] = generation
      BY PhaseFacts DEF Supervised, Numbers
    <2> QED
      BY <1>a, <2>2, <2>3, <2>4
  <1>2. CASE Switch
    <2>1. CASE CreateNext \/ PreviousRetired
      BY <1>a, <2>1, PhaseFacts DEF CreateNext, PreviousRetired, Resumes, At
    <2>2. CASE SwitchUndone
      <3>1. pc["loop"] = "ended"
        BY DEF Supervised, IInv, PcInv, Undecided
      <3>2. pc'["switch"] = "idle"
        BY <1>a, <2>2, Names DEF SwitchUndone, LoopHead, WithLoopEnded
      <3> QED
        BY <1>a, <3>2
    <2>3. CASE StartNext
      BY <1>a, <2>3 DEF StartNext, Removed
    <2>4. CASE SwitchStarts \/ SwitchStopped \/ FailedChildStopped
      BY <2>4 DEF SwitchStarts, SwitchStopped, FailedChildStopped
    <2> QED
      BY <1>2, <2>1, <2>2, <2>3, <2>4 DEF Switch, RemovalFails
  <1>3. CASE Reconfigure
    BY <1>a, <1>3 DEF Reconfigure, At
  <1>4. CASE Loop \/ (\E p \in Halters : Halt(p)) \/ Stop \/ StopCompletes
    BY <1>4 DEF Loop, LoopStarts, ChildExitSeen, BackoffEnds, Halt, LockAnswered,
                ChildStopped, Stop, StopCompletes, generationVars
  <1>5. CASE (\E c \in Children : ChildExits(c)) \/ UNCHANGED vars
    BY <1>5 DEF ChildExits, vars, generationVars
  <1> QED
    BY <1>1, <1>2, <1>3, <1>4, <1>5 DEF Next, Gone

\* While removals succeed: until the next generation is up, the one a failure
\* would resume keeps its secrets and its session; and failures are forgotten
\* only after a child that had been healthy (VAULT-6, 8; supervisor.ts).
THEOREM SwitchIsSafe ==
    ASSUME ~RemovalMayFail
    PROVE  Spec => SwitchSafe
  <1> DEFINE Step == Undecided /\ Undecided' /\ previous # None =>
                         previous \notin disposed' /\ session'[previous] = session[previous]
  <1>1. Supervised /\ Supervised' /\ Kept' /\ [Next]_vars => [Step]_vars
    <2> SUFFICES ASSUME Supervised, Supervised', Kept', [Next]_vars,
                        Undecided, Undecided', previous # None
                 PROVE  previous \notin disposed' /\ session'[previous] = session[previous]
      OBVIOUS
    <2>1. /\ previous' = previous
          /\ \A g \in Generations : g # generation => session'[g] = session[g]
      BY UndecidedStep
    <2>2. previous \in Generations /\ previous # generation
      BY DEF Supervised, IInv, TypeOK, Numbers, Undecided, Generations, None
    <2>3. pc'["stop"] # "done" /\ pc'["switch"] # "retire"
      BY PhaseFacts DEF Supervised, Flags, Undecided
    <2> QED
      BY <2>1, <2>2, <2>3 DEF Kept, Secrets, IsRunning
  <1>2. Spec => PreviousResumable
    BY <1>1, SupervisedAlways, KeptAlways, PTL DEF Spec, PreviousResumable
  <1> QED
    BY <1>2, FailuresClearRightly DEF SwitchSafe

-----------------------------------------------------------------------------
(* The supervisor implements VaultLifecycle.                                  *)

\* The abstract state, as Lifecycle maps it.
InForce == IF Undecided THEN previous ELSE generation
Trying == IF Undecided THEN generation ELSE None
GivenUp == IF pc["switch"] = "retire" THEN Retired \cup {previous} ELSE Retired
Serving == isReady /\ ~isHalted

\* A step that neither begins nor decides a switch nor brings a child into
\* service: at most the service ends.
LEMMA SameConnection ==
    ASSUME UNCHANGED <<generation, created, previous>>, Undecided' <=> Undecided,
           pc'["switch"] = "retire" <=> pc["switch"] = "retire",
           Serving' = Serving \/ Serving' = FALSE
    PROVE  [Lifecycle!Next]_(Lifecycle!vars)
  <1>1. UNCHANGED <<InForce, Trying, GivenUp>>
    BY DEF InForce, Trying, GivenUp, Retired
  <1>2. CASE Serving' = Serving
    BY <1>1, <1>2 DEF Lifecycle!vars, InForce, Trying, GivenUp, Serving
  <1>3. CASE Serving' = FALSE
    BY <1>1, <1>3 DEF Lifecycle!Next, Lifecycle!Down, InForce, Trying, GivenUp, Serving
  <1> QED
    BY <1>2, <1>3

\* A step at which #switch stays where it is.
LEMMA SwitchStill ==
    ASSUME UNCHANGED <<generation, created, previous>>,
           \/ pc'["switch"] = pc["switch"]
           \/ pc["switch"] \in HaltPhases \cup {"idle"} /\ pc'["switch"] \in HaltPhases,
           Serving' = Serving \/ Serving' = FALSE
    PROVE  [Lifecycle!Next]_(Lifecycle!vars)
  <1>1. /\ Undecided' <=> Undecided
        /\ pc'["switch"] = "retire" <=> pc["switch"] = "retire"
    BY PhaseFacts DEF Undecided
  <1> QED
    BY <1>1, SameConnection

\* Where a start's step leaves its own position.
LEMMA StartMoves ==
    ASSUME IInv, NEW p \in Starters, Start(p)
    PROVE  \/ /\ p = "loop"
              /\ \/ pc'["switch"] = pc["switch"]
                 \/ pc["switch"] = "await" /\ pc'["switch"] = "woken"
           \/ /\ p = "switch" /\ pc["switch"] \in StartPhases
              /\ pc'["switch"] \in StartPhases \cup {"failStop", "failRetire"}
  <1> USE PhaseFacts
  <1>1. pc \in [Activities -> Phases]
    BY Typed
  <1>2. CASE p = "loop"
    <2>1. \/ pc' = WithLoopEnded(pc)
          \/ \E x \in StartPhases \cup {"backoff"} : pc' = [pc EXCEPT !["loop"] = x]
      BY <1>2
      DEF Start, VersionOk, VersionFails, VersionRefused, LoginOk, LoginFails, Spawn,
          StatusOk, StatusFails, PollAgain, PollEnds, UnlockOk, UnlockSettles,
          UnlockAgain, UnlockFails, Detached, Goto, StartFailed, Detach, StopServe,
          RecordFailure, LoopHead
    <2> QED
      BY <1>1, <1>2, <2>1, Names DEF WithLoopEnded
  <1>3. CASE p = "switch"
    <2>1. /\ pc["switch"] \in StartPhases
          /\ \E x \in StartPhases \cup {"failStop", "failRetire"} :
                pc' = [pc EXCEPT !["switch"] = x]
      BY <1>3
      DEF Start, VersionOk, VersionFails, VersionRefused, LoginOk, LoginFails, Spawn,
          StatusOk, StatusFails, PollAgain, PollEnds, UnlockOk, UnlockSettles,
          UnlockAgain, UnlockFails, Detached, Goto, StartFailed, Detach, StopServe,
          SwitchFails, At, Notices
    <2> QED
      BY <1>1, <1>3, <2>1, Names
  <1> QED
    BY <1>2, <1>3, Names

LEMMA StartImplements ==
    ASSUME Supervised, NEW p \in Starters, Start(p)
    PROVE  [Lifecycle!Next]_(Lifecycle!vars)
  <1>1. UNCHANGED <<generation, created, previous, isReady, isHalted>>
    BY DEF Start, VersionOk, VersionFails, VersionRefused, LoginOk, LoginFails, Spawn,
           StatusOk, StatusFails, PollAgain, PollEnds, UnlockOk, UnlockSettles,
           UnlockAgain, UnlockFails, Detached, generationVars, flagVars
  <1>2. Serving' = Serving
    BY <1>1 DEF Serving
  <1>3. \/ pc'["switch"] = pc["switch"]
        \/ pc["switch"] \in HaltPhases /\ pc'["switch"] \in HaltPhases
        \/ /\ pc["switch"] \in StartPhases
           /\ pc'["switch"] \in StartPhases \cup {"failStop", "failRetire"}
    BY StartMoves, PhaseFacts DEF Supervised
  <1>4. CASE pc["switch"] \in StartPhases /\ pc'["switch"] \in StartPhases \cup {"failStop", "failRetire"}
    <2>1. Undecided /\ Undecided' /\ pc["switch"] # "retire" /\ pc'["switch"] # "retire"
      BY <1>4, PhaseFacts DEF Undecided
    <2> QED
      BY <1>1, <1>2, <2>1, SameConnection
  <1> QED
    BY <1>1, <1>2, <1>3, <1>4, SwitchStill

LEMMA LoopImplements ==
    ASSUME Supervised, Loop
    PROVE  [Lifecycle!Next]_(Lifecycle!vars)
  <1>1. CASE LoopStarts
    <2>1. /\ pc["loop"] = "sync" /\ pc' = [pc EXCEPT !["loop"] = "serving"] /\ isReady'
          /\ UNCHANGED <<generation, created, previous, isHalted>>
      BY <1>1 DEF LoopStarts, At, generationVars
    <2>2. /\ pc'["switch"] = pc["switch"] /\ ~Undecided /\ ~Undecided'
          /\ pc["switch"] # "retire" /\ generation # None
      BY <2>1, Typed, Names, PhaseFacts
      DEF Supervised, IInv, PcInv, Undecided, Numbers
    <2>3. isReady \in BOOLEAN /\ isHalted \in BOOLEAN
      BY DEF Supervised, IInv, TypeOK
    <2>4. CASE isHalted
      <3>1. Serving' = FALSE
        BY <2>1, <2>4 DEF Serving
      <3> QED
        BY <2>1, <2>2, <3>1, SwitchStill
    <2>5. CASE ~isHalted
      <3>1. UNCHANGED <<InForce, Trying, GivenUp>> /\ InForce # 0 /\ Trying = 0
        BY <2>1, <2>2 DEF InForce, Trying, GivenUp, Retired, None
      <3>2. Serving' = TRUE
        BY <2>1, <2>5 DEF Serving
      <3> QED
        BY <3>1, <3>2 DEF Lifecycle!Next, Lifecycle!Up, InForce, Trying, GivenUp, Serving
    <2> QED
      BY <2>4, <2>5
  <1>2. CASE ChildExitSeen
    <2>1. /\ UNCHANGED <<generation, created, previous>> /\ Serving' = FALSE
          /\ \/ pc' = WithLoopEnded(pc)
             \/ pc' = [pc EXCEPT !["loop"] = "backoff"]
      BY <1>2 DEF ChildExitSeen, generationVars, Serving, RecordFailure, LoopHead
    <2>2. \/ pc'["switch"] = pc["switch"]
          \/ pc["switch"] \in HaltPhases /\ pc'["switch"] \in HaltPhases
      BY <2>1, Typed, Names, PhaseFacts DEF Supervised, WithLoopEnded
    <2> QED
      BY <2>1, <2>2, SwitchStill
  <1>3. CASE BackoffEnds
    <2>1. /\ UNCHANGED <<generation, created, previous>> /\ Serving' = Serving
          /\ \/ pc' = WithLoopEnded(pc)
             \/ pc' = [pc EXCEPT !["loop"] = "version"]
      BY <1>3 DEF BackoffEnds, generationVars, flagVars, Serving, LoopHead
    <2>2. \/ pc'["switch"] = pc["switch"]
          \/ pc["switch"] \in HaltPhases /\ pc'["switch"] \in HaltPhases
      BY <2>1, Typed, Names, PhaseFacts DEF Supervised, WithLoopEnded
    <2> QED
      BY <2>1, <2>2, SwitchStill
  <1> QED
    BY <1>1, <1>2, <1>3 DEF Loop

\* What is given up once a switch is decided, as a set of generation numbers.
LEMMA GivenUpFacts ==
    ASSUME NEW n \in Nat, NEW g \in Nat, NEW q \in Nat, q <= n, g <= n
    PROVE  /\ g = n + 1 => (1..(n + 1)) \ {g, q} = (1..n) \ {q}
           /\ q # 0 /\ q # g => ((1..n) \ {g, q}) \cup {q} = (1..n) \ {g, 0}
           /\ g # 0 /\ q # g => ((1..n) \ {g, q}) \cup {g} = (1..n) \ {q, 0}
           /\ (1..n) \ {g, g} = (1..n) \ {g, 0}
  OBVIOUS

LEMMA SwitchImplements ==
    ASSUME ~RemovalMayFail, Supervised, Supervised', Switch
    PROVE  [Lifecycle!Next]_(Lifecycle!vars)
  <1> USE PhaseFacts
  <1>a. /\ generation \in Nat /\ previous \in Nat /\ created \in Nat
        /\ generation <= created /\ previous <= created
        /\ pc \in [Activities -> Phases]
    BY Typed DEF Supervised, Numbers
  <1>b. pc["loop"] = "ended" /\ ~isReady
    <2>1. pc["switch"] \in SwitchStarting \cup {"woken"}
      BY DEF Switch, CreateNext, StartNext, SwitchStarts, SwitchStopped, PreviousRetired,
             RemovalFails, FailedChildStopped, SwitchUndone, At, Resumes, Notices
    <2> QED
      BY <2>1 DEF Supervised, IInv, PcInv, Flags
  <1>c. ~Serving /\ Serving = FALSE
    BY <1>b DEF Serving
  <1>1. CASE CreateNext
    <2>1. /\ pc["switch"] = "woken" /\ created' = created + 1 /\ generation' = created'
          /\ UNCHANGED <<previous, isReady, isHalted>>
          /\ pc' = [pc EXCEPT !["switch"] = "rmNext"]
      BY <1>1 DEF CreateNext, Resumes, Goto, flagVars
    <2>2. /\ pc'["switch"] = "rmNext" /\ ~Undecided /\ Undecided'
          /\ previous = generation /\ generation' \in Generations
      BY <1>a, <2>1, Names DEF Undecided, Supervised, Numbers, IInv, GenerationInv
    <2>3. /\ Trying = None /\ InForce = generation /\ GivenUp = (1..created) \ {generation, previous}
          /\ Trying' = generation' /\ InForce' = previous
          /\ GivenUp' = (1..(created + 1)) \ {created + 1, previous}
      BY <2>1, <2>2 DEF Trying, InForce, GivenUp, Retired
    <2>4. GivenUp' = GivenUp
      BY <1>a, <2>2, <2>3
    <2>5. generation' \notin GivenUp \cup {InForce}
      BY <1>a, <2>1, <2>3
    <2>6. Serving' = Serving
      BY <2>1 DEF Serving
    <2>7. Lifecycle!Try(generation')
      BY <1>c, <2>2, <2>3, <2>4, <2>5, <2>6
      DEF Lifecycle!Try, Trying, InForce, GivenUp, Serving, None
    <2> QED
      BY <2>2, <2>7 DEF Lifecycle!Next
  <1>2. CASE StartNext
    <2>1. /\ pc["switch"] = "rmNext" /\ UNCHANGED <<generation, created, previous, isReady>>
          /\ pc' = [pc EXCEPT !["switch"] = "version"]
      BY <1>2 DEF StartNext, At
    <2>2. pc'["switch"] = "version" /\ Undecided /\ Undecided'
      BY <1>a, <2>1, Names DEF Undecided
    <2>3. Serving' = FALSE
      BY <1>b, <2>1 DEF Serving
    <2> QED
      BY <2>1, <2>2, <2>3, SameConnection
  <1>3. CASE SwitchStarts
    <2>1. /\ pc["switch"] = "sync" /\ Undecided /\ generation # None
          /\ UNCHANGED <<generation, created, previous>>
      BY <1>3, <1>a DEF SwitchStarts, At, Undecided, Supervised, Numbers, None
    <2>2. /\ pc'["switch"] = (IF previous = None THEN "idle" ELSE "retire")
          /\ ~Undecided'
      BY <1>3, <1>a, Names DEF SwitchStarts, RunServing, Goto, Undecided
    <2>3. /\ Trying = generation /\ InForce = previous
          /\ GivenUp = (1..created) \ {generation, previous}
          /\ Trying' = None /\ InForce' = generation
          /\ GivenUp' = IF previous = None THEN GivenUp ELSE GivenUp \cup {previous}
      BY <2>1, <2>2 DEF Trying, InForce, GivenUp, Retired
    <2>4. GivenUp' = GivenUp \cup ({InForce} \ {0})
      BY <2>3 DEF None
    <2>5. Serving' \in BOOLEAN
      BY DEF Serving
    <2>6. Lifecycle!Adopt
      BY <2>1, <2>3, <2>4, <2>5
      DEF Lifecycle!Adopt, Trying, InForce, GivenUp, Serving, None
    <2> QED
      BY <2>6 DEF Lifecycle!Next
  <1>4. CASE SwitchStopped \/ FailedChildStopped
    <2>1. /\ pc["switch"] \in {"sync", "failStop"} /\ SwitchFails
          /\ UNCHANGED <<generation, created, previous, isReady, isHalted>>
      BY <1>4 DEF SwitchStopped, FailedChildStopped, At, Notices, flagVars
    <2>2. pc'["switch"] \in {"failStop", "failRetire"}
      BY <1>a, <2>1, Names DEF SwitchFails, StopServe
    <2>3. Undecided /\ Undecided' /\ Serving' = Serving
      BY <2>1, <2>2 DEF Undecided, Serving
    <2> QED
      BY <2>1, <2>2, <2>3, SameConnection
  <1>5. CASE PreviousRetired
    <2>1. /\ pc["switch"] = "retire" /\ ~Undecided /\ previous' = None
          /\ previous # None /\ previous < generation
          /\ UNCHANGED <<generation, created>>
      BY <1>5 DEF PreviousRetired, At, Undecided, Supervised, Numbers
    <2>2. pc'["switch"] = "idle" /\ ~Undecided'
      BY <1>5, <1>a, Names DEF PreviousRetired, RunServing, Undecided
    <2>3. /\ Trying = None /\ InForce = generation /\ Trying' = None /\ InForce' = generation
          /\ GivenUp = ((1..created) \ {generation, previous}) \cup {previous}
          /\ GivenUp' = (1..created) \ {generation, None}
      BY <2>1, <2>2 DEF Trying, InForce, GivenUp, Retired
    <2>4. GivenUp' = GivenUp
      BY <1>a, <2>1, <2>3, GivenUpFacts DEF None
    <2>5. CASE Serving' = FALSE
      BY <1>c, <2>3, <2>4, <2>5 DEF Lifecycle!vars, InForce, Trying, GivenUp, Serving
    <2>6. CASE Serving' = TRUE
      <3>1. InForce # 0
        BY <1>a, <2>1, <2>3 DEF None
      <3>2. Lifecycle!Up
        BY <2>3, <2>4, <2>6, <3>1 DEF Lifecycle!Up, InForce, Trying, GivenUp, Serving, None
      <3> QED
        BY <3>2 DEF Lifecycle!Next
    <2> QED
      BY <2>5, <2>6 DEF Serving
  <1>6. CASE SwitchUndone
    <2>1. /\ pc["switch"] = "failRetire" /\ Undecided /\ generation' = previous
          /\ previous' = None /\ previous < generation /\ UNCHANGED <<created, isReady>>
      BY <1>6 DEF SwitchUndone, At, Undecided, Supervised, Numbers
    <2>2. pc'["switch"] = "idle" /\ ~Undecided'
      BY <1>6, <1>a, Names DEF SwitchUndone, LoopHead, WithLoopEnded, Undecided
    <2>3. /\ Trying = generation /\ InForce = previous /\ Trying' = None /\ InForce' = previous
          /\ GivenUp = (1..created) \ {generation, previous}
          /\ GivenUp' = (1..created) \ {previous, None}
      BY <2>1, <2>2 DEF Trying, InForce, GivenUp, Retired
    <2>4. GivenUp' = GivenUp \cup {Trying} /\ Trying # 0
      BY <1>a, <2>1, <2>3, GivenUpFacts DEF None
    <2>5. Serving' = Serving
      BY <1>b, <2>1 DEF Serving
    <2>6. Lifecycle!GiveUp
      BY <2>3, <2>4, <2>5 DEF Lifecycle!GiveUp, InForce, Trying, GivenUp, Serving, None
    <2> QED
      BY <2>6 DEF Lifecycle!Next
  <1> QED
    BY <1>1, <1>2, <1>3, <1>4, <1>5, <1>6 DEF Switch, RemovalFails

LEMMA NextImplements ==
    ASSUME ~RemovalMayFail, Supervised, Supervised', [Next]_vars
    PROVE  [Lifecycle!Next]_(Lifecycle!vars)
  <1> USE PhaseFacts
  <1>a. pc \in [Activities -> Phases]
    BY Typed DEF Supervised
  <1>1. CASE \E p \in Starters : Start(p)
    BY <1>1, StartImplements
  <1>2. CASE Loop
    BY <1>2, LoopImplements
  <1>3. CASE Switch
    BY <1>3, SwitchImplements
  <1>4. CASE Reconfigure
    <2>1. /\ pc["switch"] = "idle" /\ previous = None /\ previous' = generation
          /\ generation <= created /\ UNCHANGED <<generation, created>> /\ ~isReady'
      BY <1>4 DEF Reconfigure, At, BeginHalt, Supervised, Numbers
    <2>2. pc'["switch"] \in HaltPhases
      <3>1. \E x \in HaltPhases : pc' = [pc EXCEPT !["switch"] = x]
        BY <1>4 DEF Reconfigure, BeginHalt, AwaitLoop
      <3> QED
        BY <1>a, <3>1, Names
    <2>3. ~Undecided /\ ~Undecided' /\ pc'["switch"] # "retire"
      BY <2>1, <2>2 DEF Undecided
    <2>4. /\ Trying = None /\ InForce = generation /\ Trying' = None /\ InForce' = generation
          /\ GivenUp = (1..created) \ {generation, None}
          /\ GivenUp' = (1..created) \ {generation, generation}
      BY <2>1, <2>3 DEF Trying, InForce, GivenUp, Retired
    <2>5. GivenUp' = GivenUp
      BY <2>1, <2>4, Typed DEF Supervised, None
    <2>6. Lifecycle!Down
      BY <2>1, <2>4, <2>5 DEF Lifecycle!Down, InForce, Trying, GivenUp, Serving
    <2> QED
      BY <2>6 DEF Lifecycle!Next
  <1>5. CASE \E p \in Halters : Halt(p)
    <2>1. PICK p \in Halters : Halt(p)
      BY <1>5
    <2>2. /\ UNCHANGED <<generation, created, previous>> /\ Serving' = Serving
          /\ pc[p] \in HaltPhases
          /\ \E x \in HaltPhases : pc' = [pc EXCEPT ![p] = x]
      BY <2>1 DEF Halt, LockAnswered, ChildStopped, StopServe, AwaitLoop, At, Notices,
                  generationVars, flagVars, Serving
    <2>3. \/ pc'["switch"] = pc["switch"]
          \/ pc["switch"] \in HaltPhases /\ pc'["switch"] \in HaltPhases
      BY <1>a, <2>2, Names
    <2> QED
      BY <2>2, <2>3, SwitchStill
  <1>6. CASE Stop
    <2>1. /\ UNCHANGED <<generation, created, previous>> /\ Serving' = FALSE
          /\ \E x \in HaltPhases : pc' = [pc EXCEPT !["stop"] = x]
      BY <1>6 DEF Stop, BeginHalt, AwaitLoop, generationVars, Serving
    <2>2. pc'["switch"] = pc["switch"]
      BY <1>a, <2>1, Names
    <2> QED
      BY <2>1, <2>2, SwitchStill
  <1>7. CASE StopCompletes
    <2>1. /\ UNCHANGED <<generation, created, previous>> /\ Serving' = Serving
          /\ pc' = [pc EXCEPT !["stop"] = "done"]
      BY <1>7 DEF StopCompletes, Goto, flagVars, Serving
    <2>2. pc'["switch"] = pc["switch"]
      BY <1>a, <2>1, Names
    <2> QED
      BY <2>1, <2>2, SwitchStill
  <1>8. CASE \E c \in Children : ChildExits(c)
    <2>1. UNCHANGED <<generation, created, previous, pc>> /\ Serving' = Serving
      BY <1>8 DEF ChildExits, generationVars, flagVars, controlVars, Serving
    <2> QED
      BY <2>1, SwitchStill
  <1>9. CASE UNCHANGED vars
    <2>1. UNCHANGED <<generation, created, previous, pc>> /\ Serving' = Serving
      BY <1>9 DEF vars, generationVars, flagVars, controlVars, Serving
    <2> QED
      BY <2>1, SwitchStill
  <1> QED
    BY <1>1, <1>2, <1>3, <1>4, <1>5, <1>6, <1>7, <1>8, <1>9 DEF Next, Gone

\* While removals succeed the supervisor is a VaultLifecycle: callers reach the
\* connection in force or none, it is replaced only by one that came up, and a
\* connection once given up never comes back (VAULT-5, 7, 18; supervisor.ts).
THEOREM ImplementsLifecycle ==
    ASSUME ~RemovalMayFail
    PROVE  Spec => LifecycleSpec
  <1>1. Init => Lifecycle!Init
    <2> SUFFICES ASSUME Init PROVE Lifecycle!Init
      OBVIOUS
    <2>1. /\ generation \in {0, 1} /\ created = generation /\ pc["switch"] = "idle"
          /\ ~Undecided /\ ~isReady
      BY Names, PhaseFacts DEF Init, None, Undecided
    <2>2. Trying = 0 /\ InForce \in Generations \cup {0} /\ Serving = FALSE
      BY <2>1, BoundsAssumption DEF Trying, InForce, Serving, Generations, None
    <2>3. GivenUp = {}
      BY <2>1 DEF GivenUp, Retired
    <2> QED
      BY <2>2, <2>3 DEF Lifecycle!Init, Trying, InForce, GivenUp, Serving
  <1>2. Supervised /\ Supervised' /\ [Next]_vars => [Lifecycle!Next]_(Lifecycle!vars)
    BY NextImplements
  <1> QED
    BY <1>1, <1>2, SupervisedAlways, PTL DEF Spec, LifecycleSpec, Lifecycle!Spec
=============================================================================
