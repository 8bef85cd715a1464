----------------------------- MODULE CodeProofs -----------------------------
(***************************************************************************)
(* The builds, what calls read of them, and the sidecar.                   *)
(*                                                                         *)
(* For any caps, targets and keys and any finite number of builds, the     *)
(* counts of createBuildSlots() are exact and the caps hold, no slot idles *)
(* beside the queue, and the map names the build of a key that can be      *)
(* joined.  The inductive invariant adds to those properties that the      *)
(* queue holds each waiting build once and nothing else, and that the      *)
(* entries of the map are live builds under their own keys.                *)
(*                                                                         *)
(* For any documents, commits, calls and builds, IndexSound holds of       *)
(* CodeIndex.  Its inductive invariant, CodeInv, adds what each call holds *)
(* at each of its awaits, under which documents each build works and that  *)
(* every commit the state remembers is one the ref has named.              *)
(***************************************************************************)
EXTENDS BuildFlight, CodeIndex, CodeSidecar, SubsequencesProofs, FiniteSetTheorems, TLAPS

\* The queue holds builds that wait, each of them once.
QueueOK ==
  /\ \A i \in 1..Len(waiting) : phase[waiting[i]] = "waiting"
  /\ \A i, j \in 1..Len(waiting) : waiting[i] = waiting[j] => i = j

\* An entry of the map is a build in flight under that key, not forgotten.
MapOK ==
  \A k \in Key : flights[k] # NoBuild =>
    /\ flights[k] \in Flying \ abandoned
    /\ key[flights[k]] = k

\* A launched build has a key; one for a named ref was given its slot at once.
Launched ==
  \A b \in Build :
    /\ phase[b] # "new" => key[b] \in Key
    /\ b \in forRef => phase[b] \notin {"new", "waiting"}
    /\ b \in abandoned => phase[b] # "new"

Caps == running <= Total /\ \A t \in Target : named[t] <= PerTarget

IInv ==
  /\ FlightsTypeOK
  /\ SlotsExact
  /\ Caps
  /\ NoIdleSlot
  /\ QueueOK
  /\ MapOK
  /\ Launched
  /\ OneToJoin

-----------------------------------------------------------------------------
(* Counting.                                                               *)

LEMMA HoldingFinite == \A S : S \subseteq Build => IsFiniteSet(S) /\ Cardinality(S) \in Nat
  BY BuildAssumption, FS_Subset, FS_CardinalityType

LEMMA CountAdded ==
  ASSUME NEW S, NEW T, NEW x, S \subseteq Build, x \notin S, T = S \cup {x}
  PROVE  Cardinality(T) = Cardinality(S) + 1
  BY HoldingFinite, FS_AddElement

LEMMA CountRemoved ==
  ASSUME NEW S, NEW T, NEW x, S \subseteq Build, x \in S, T = S \ {x}
  PROVE  Cardinality(T) = Cardinality(S) - 1
  BY HoldingFinite, FS_RemoveElement

LEMMA CountSwapped ==
  ASSUME NEW S, NEW T, NEW x, NEW y, S \subseteq Build,
         x \in S, y \notin S, T = (S \ {x}) \cup {y}
  PROVE  Cardinality(T) = Cardinality(S)
  <1> DEFINE U == S \ {x}
  <1>1. Cardinality(U) = Cardinality(S) - 1
    BY CountRemoved
  <1>2. U \subseteq Build /\ y \notin U /\ T = U \cup {y}
    OBVIOUS
  <1>3. Cardinality(T) = Cardinality(U) + 1
    BY <1>2, CountAdded
  <1>4. Cardinality(S) \in Nat
    BY HoldingFinite
  <1> QED
    BY <1>1, <1>3, <1>4

-----------------------------------------------------------------------------

LEMMA InitIInv == FlightsInit => IInv
  <1> SUFFICES ASSUME FlightsInit PROVE IInv
    OBVIOUS
  <1>1. FlightsTypeOK
    BY DEF FlightsInit, FlightsTypeOK, Phase
  <1>2. Holding = {} /\ \A t \in Target : NamedHolding(t) = {}
    BY DEF FlightsInit, Holding, NamedHolding
  <1>3. SlotsExact
    BY <1>2, FS_EmptySet DEF SlotsExact, FlightsInit
  <1> QED
    BY <1>1, <1>3, LimitsAssumption
    DEF IInv, Caps, NoIdleSlot, QueueOK, MapOK, Launched, OneToJoin, Flying, FlightsInit

\* Launching with a slot: by start() or by tryStart().
LEMMA GivenHolding ==
  ASSUME IInv, NEW b \in Build, NEW k \in Key, Launch(b, k, "given"), running' = running + 1,
         \/ UNCHANGED <<forRef, named>>
         \/ /\ forRef' = forRef \cup {b}
            /\ named' = [named EXCEPT ![Owner(k)] = @ + 1]
  PROVE  SlotsExact'
  <1>1. phase[b] = "new" /\ phase' = [phase EXCEPT ![b] = "given"] /\ key' = [key EXCEPT ![b] = k]
    BY DEF Launch
  <1>2. Holding \subseteq Build /\ b \notin Holding /\ Holding' = Holding \cup {b}
    BY <1>1 DEF Holding, IInv, FlightsTypeOK, Phase
  <1>3. Cardinality(Holding') = Cardinality(Holding) + 1
    BY <1>2, CountAdded
  <1>4. b \notin forRef
    BY <1>1 DEF IInv, Launched
  <1>5. ASSUME NEW t \in Target
        PROVE  named'[t] = Cardinality(NamedHolding(t)')
    <2>1. NamedHolding(t) \subseteq Build /\ b \notin NamedHolding(t)
      BY <1>2 DEF NamedHolding
    <2>2. CASE UNCHANGED <<forRef, named>>
      <3>1. NamedHolding(t)' = NamedHolding(t)
        BY <1>1, <1>2, <1>4, <2>2 DEF NamedHolding, IInv, FlightsTypeOK
      <3> QED
        BY <2>2, <3>1 DEF IInv, SlotsExact
    <2>3. CASE /\ forRef' = forRef \cup {b}
               /\ named' = [named EXCEPT ![Owner(k)] = @ + 1]
      <3>1. CASE Owner(k) = t
        <4>1. NamedHolding(t)' = NamedHolding(t) \cup {b}
          BY <1>1, <1>2, <2>3, <3>1 DEF NamedHolding, IInv, FlightsTypeOK
        <4> QED
          BY <2>1, <2>3, <3>1, <4>1, CountAdded DEF IInv, SlotsExact, FlightsTypeOK
      <3>2. CASE Owner(k) # t
        <4>1. NamedHolding(t)' = NamedHolding(t)
          BY <1>1, <1>2, <2>3, <3>2 DEF NamedHolding, IInv, FlightsTypeOK
        <4> QED
          BY <2>3, <3>2, <4>1 DEF IInv, SlotsExact, FlightsTypeOK
      <3> QED
        BY <3>1, <3>2
    <2> QED
      BY <2>2, <2>3
  <1> QED
    BY <1>3, <1>5 DEF SlotsExact, IInv

LEMMA StartFreeInv ==
  ASSUME IInv, NEW b \in Build, NEW k \in Key, StartFree(b, k)
  PROVE  IInv'
  <1>1. SlotsExact'
    BY GivenHolding DEF StartFree
  <1>2. FlightsTypeOK'
    BY DEF StartFree, Launch, IInv, FlightsTypeOK, Phase
  <1>3. Caps'
    BY LimitsAssumption DEF StartFree, IInv, Caps, FlightsTypeOK
  <1>4. waiting = <<>> /\ waiting' = <<>>
    BY LimitsAssumption DEF StartFree, IInv, NoIdleSlot, FlightsTypeOK
  <1>5. NoIdleSlot' /\ QueueOK'
    BY <1>4 DEF StartFree, Launch, IInv, NoIdleSlot, QueueOK, FlightsTypeOK
  <1>6. MapOK'
    BY DEF StartFree, Launch, IInv, MapOK, Flying, FlightsTypeOK, Launched
  <1>7. Launched'
    BY DEF StartFree, Launch, IInv, Launched, FlightsTypeOK
  <1>8. OneToJoin'
    BY BuildAssumption DEF StartFree, Launch, IInv, OneToJoin, Flying, FlightsTypeOK, Launched
  <1> QED
    BY <1>1, <1>2, <1>3, <1>5, <1>6, <1>7, <1>8 DEF IInv

LEMMA TryStartInv ==
  ASSUME IInv, NEW b \in Build, NEW k \in Key, TryStart(b, k)
  PROVE  IInv'
  <1>1. SlotsExact'
    BY GivenHolding DEF TryStart
  <1>a. Owner(k) \in Target
    BY DEF Owner, Key
  <1>2. FlightsTypeOK'
    BY <1>a DEF TryStart, Launch, IInv, FlightsTypeOK, Phase
  <1>3. Caps'
    BY <1>a, LimitsAssumption DEF TryStart, Busy, IInv, Caps, FlightsTypeOK
  <1>4. waiting = <<>> /\ waiting' = <<>>
    BY LimitsAssumption DEF TryStart, Busy, IInv, NoIdleSlot, FlightsTypeOK
  <1>5. NoIdleSlot' /\ QueueOK'
    BY <1>4 DEF TryStart, Launch, IInv, NoIdleSlot, QueueOK, FlightsTypeOK
  <1>6. MapOK'
    BY DEF TryStart, Launch, IInv, MapOK, Flying, FlightsTypeOK, Launched
  <1>7. Launched'
    BY DEF TryStart, Launch, IInv, Launched, FlightsTypeOK
  <1>8. OneToJoin'
    BY BuildAssumption DEF TryStart, Launch, IInv, OneToJoin, Flying, FlightsTypeOK, Launched
  <1> QED
    BY <1>1, <1>2, <1>3, <1>5, <1>6, <1>7, <1>8 DEF IInv

LEMMA StartQueuedInv ==
  ASSUME IInv, NEW b \in Build, NEW k \in Key, StartQueued(b, k)
  PROVE  IInv'
  <1>1. phase[b] = "new" /\ phase' = [phase EXCEPT ![b] = "waiting"]
        /\ key' = [key EXCEPT ![b] = k]
    BY DEF StartQueued, Launch
  <1>2. FlightsTypeOK'
    BY DEF StartQueued, Launch, IInv, FlightsTypeOK, Phase
  <1>3. Holding' = Holding /\ b \notin Holding
    BY <1>1 DEF Holding, IInv, FlightsTypeOK
  <1>4. \A t \in Target : NamedHolding(t)' = NamedHolding(t)
    BY <1>1, <1>3 DEF NamedHolding, IInv, FlightsTypeOK, StartQueued
  <1>5. SlotsExact'
    BY <1>3, <1>4 DEF SlotsExact, StartQueued, IInv
  <1>6. Caps'
    BY DEF StartQueued, IInv, Caps
  <1>7. /\ Len(waiting') = Len(waiting) + 1
        /\ waiting'[Len(waiting) + 1] = b
        /\ \A i \in 1..Len(waiting) : waiting'[i] = waiting[i]
        /\ Len(waiting) \in Nat
    BY DEF StartQueued, IInv, FlightsTypeOK
  <1>8. NoIdleSlot'
    <2>1. running' = Total
      BY LimitsAssumption DEF StartQueued, IInv, Caps, FlightsTypeOK
    <2>2. ASSUME NEW d \in Build, phase'[d] = "waiting"
          PROVE  \E i \in 1..Len(waiting') : waiting'[i] = d
      <3>1. CASE d = b
        BY <1>7, <3>1
      <3>2. CASE d # b
        <4>1. phase[d] = "waiting"
          BY <1>1, <2>2, <3>2 DEF IInv, FlightsTypeOK
        <4>2. PICK i \in 1..Len(waiting) : waiting[i] = d
          BY <4>1 DEF IInv, NoIdleSlot
        <4> QED
          BY <1>7, <4>2
      <3> QED
        BY <3>1, <3>2
    <2> QED
      BY <2>1, <2>2 DEF NoIdleSlot
  <1>9. QueueOK'
    <2>1. \A i \in 1..Len(waiting) : waiting[i] \in Build /\ waiting[i] # b
      BY <1>1 DEF IInv, QueueOK, FlightsTypeOK
    <2>2. \A i \in 1..Len(waiting') :
            \/ i \in 1..Len(waiting) /\ waiting'[i] = waiting[i]
            \/ i = Len(waiting) + 1 /\ waiting'[i] = b
      BY <1>7
    <2>3. \A i \in 1..Len(waiting') : phase'[waiting'[i]] = "waiting"
      BY <1>1, <2>1, <2>2 DEF QueueOK, IInv, FlightsTypeOK
    <2>4. ASSUME NEW i \in 1..Len(waiting'), NEW j \in 1..Len(waiting'),
                 waiting'[i] = waiting'[j]
          PROVE  i = j
      BY <2>1, <2>2, <2>4 DEF QueueOK, IInv
    <2> QED
      BY <2>3, <2>4 DEF QueueOK
  <1>10. MapOK'
    BY DEF StartQueued, Launch, IInv, MapOK, Flying, FlightsTypeOK, Launched
  <1>11. Launched'
    BY DEF StartQueued, Launch, IInv, Launched, FlightsTypeOK
  <1>12. OneToJoin'
    BY BuildAssumption DEF StartQueued, Launch, IInv, OneToJoin, Flying, FlightsTypeOK, Launched
  <1> QED
    BY <1>2, <1>5, <1>6, <1>8, <1>9, <1>10, <1>11, <1>12 DEF IInv

LEMMA BeginInv ==
  ASSUME IInv, NEW b \in Build, Begin(b)
  PROVE  IInv'
  <1>1. phase[b] = "given" /\ phase' = [phase EXCEPT ![b] = "working"]
    BY DEF Begin
  <1>2. UNCHANGED <<flights, key, forRef, abandoned, running, named, waiting>>
    BY DEF Begin, slotVars
  <1>3. FlightsTypeOK'
    BY <1>1, <1>2 DEF IInv, FlightsTypeOK, Phase
  <1>4. Holding' = Holding
    BY <1>1 DEF Holding, IInv, FlightsTypeOK
  <1>5. \A t \in Target : NamedHolding(t)' = NamedHolding(t)
    BY <1>2, <1>4 DEF NamedHolding
  <1>6. SlotsExact' /\ Caps'
    BY <1>2, <1>4, <1>5 DEF SlotsExact, Caps, IInv
  <1>7. NoIdleSlot' /\ QueueOK'
    BY <1>1, <1>2 DEF NoIdleSlot, QueueOK, IInv, FlightsTypeOK
  <1>8. MapOK' /\ Launched' /\ OneToJoin'
    BY <1>1, <1>2 DEF MapOK, Launched, OneToJoin, Flying, IInv, FlightsTypeOK
  <1> QED
    BY <1>3, <1>6, <1>7, <1>8 DEF IInv

LEMMA ForgetInv ==
  ASSUME IInv, NEW t \in Target, Forget(t)
  PROVE  IInv'
  <1> DEFINE mine == {k \in Key : Owner(k) = t}
  <1>1. /\ abandoned' = abandoned \cup ({flights[k] : k \in mine} \ {NoBuild})
        /\ flights' = [k \in Key |-> IF k \in mine THEN NoBuild ELSE flights[k]]
        /\ UNCHANGED <<phase, key, forRef, running, named, waiting>>
    BY DEF Forget, slotVars
  <1>2. FlightsTypeOK'
    BY <1>1 DEF IInv, FlightsTypeOK
  <1>3. Holding' = Holding /\ \A u \in Target : NamedHolding(u)' = NamedHolding(u)
    BY <1>1 DEF Holding, NamedHolding
  <1>4. SlotsExact' /\ Caps' /\ NoIdleSlot' /\ QueueOK'
    BY <1>1, <1>3 DEF SlotsExact, Caps, NoIdleSlot, QueueOK, IInv
  <1>5. MapOK'
    <2> SUFFICES ASSUME NEW k \in Key, flights'[k] # NoBuild
                 PROVE  /\ flights'[k] \in (Flying \ abandoned)'
                        /\ key'[flights'[k]] = k
      BY DEF MapOK
    <2>1. k \notin mine /\ flights'[k] = flights[k]
      BY <1>1
    <2>2. flights[k] \in Flying /\ flights[k] \notin abandoned /\ key[flights[k]] = k
      BY <2>1 DEF IInv, MapOK
    <2>3. \A l \in mine : flights[l] # NoBuild => key[flights[l]] = l
      BY DEF IInv, MapOK
    <2> QED
      BY <1>1, <2>1, <2>2, <2>3 DEF Flying
  <1>6. Launched'
    BY <1>1 DEF IInv, Launched, MapOK, Flying
  <1>7. OneToJoin'
    <2> SUFFICES ASSUME NEW b \in Build, b \in Flying', b \notin abandoned'
                 PROVE  flights'[key'[b]] = b
      BY DEF OneToJoin, Flying
    <2>1. b \in Flying /\ b \notin abandoned /\ key'[b] = key[b]
      BY <1>1 DEF Flying
    <2>2. flights[key[b]] = b /\ key[b] \in Key
      BY <2>1 DEF IInv, OneToJoin, Launched, Flying
    <2>3. key[b] \notin mine
      BY <1>1, <2>2, BuildAssumption
    <2> QED
      BY <1>1, <2>1, <2>2, <2>3
  <1> QED
    BY <1>2, <1>4, <1>5, <1>6, <1>7 DEF IInv

-----------------------------------------------------------------------------
(* The end of a build, with and without a build to take its slot over.     *)

\* What the end does to the map is the same in both cases.
LEMMA EndsMap ==
  ASSUME IInv, NEW b \in Build, FlightEnds(b), FlightsTypeOK',
         NEW S \in SUBSET Build,
         \A d \in S : phase[d] = "waiting",
         \A d \in Build : phase'[d] = IF d = b THEN "ended" ELSE IF d \in S THEN "given" ELSE phase[d]
  PROVE  MapOK' /\ Launched' /\ OneToJoin'
  <1>1. phase[b] \in {"given", "working"} /\ key[b] \in Key
    BY DEF FlightEnds, IInv, Launched
  <1>2. UNCHANGED <<key, forRef, abandoned>> /\ flights' = Deleted(b)
    BY DEF FlightEnds
  <1>3. \A d \in Build : d \in Flying' <=> d \in Flying /\ d # b
    BY <1>1 DEF Flying, IInv, FlightsTypeOK
  <1>4. \A k \in Key : flights'[k] = flights[k] \/ (flights[k] = b /\ flights'[k] = NoBuild)
    BY <1>1, <1>2 DEF Deleted, IInv, FlightsTypeOK
  <1>5. \A k \in Key : flights'[k] # b
    BY <1>1, <1>2, <1>4, BuildAssumption DEF Deleted, IInv, FlightsTypeOK, MapOK
  <1>6. MapOK'
    BY <1>2, <1>3, <1>4, <1>5 DEF MapOK, IInv, Flying
  <1>7. Launched'
    BY <1>1, <1>2 DEF Launched, IInv
  <1>8. OneToJoin'
    <2> SUFFICES ASSUME NEW d \in Build, d \in Flying', d \notin abandoned'
                 PROVE  flights'[key'[d]] = d
      BY DEF OneToJoin, Flying
    <2>1. flights[key[d]] = d /\ key[d] \in Key /\ d # b
      BY <1>2, <1>3 DEF IInv, OneToJoin, Launched, Flying
    <2> QED
      BY <1>2, <1>4, <2>1
  <1> QED
    BY <1>6, <1>7, <1>8

\* The count of the target follows the build that ends.
LEMMA EndsNamed ==
  ASSUME IInv, NEW b \in Build, FlightEnds(b), NEW t \in Target,
         NEW S \in SUBSET Build,
         \A d \in S : phase[d] = "waiting",
         \A d \in Build : phase'[d] = IF d = b THEN "ended" ELSE IF d \in S THEN "given" ELSE phase[d]
  PROVE  named'[t] = Cardinality(NamedHolding(t)') /\ named'[t] <= named[t] /\ named'[t] \in Nat
  <1>1. phase[b] \in {"given", "working"} /\ b \in Holding /\ b \notin S
    BY DEF FlightEnds, Holding
  <1>2. UNCHANGED <<key, forRef>>
    BY DEF FlightEnds
  <1>3. \A d \in S : d \notin forRef
    BY DEF IInv, Launched
  <1>4. NamedHolding(t)' = NamedHolding(t) \ {b}
    BY <1>1, <1>2, <1>3 DEF NamedHolding, Holding, IInv, FlightsTypeOK
  <1>5. NamedHolding(t) \subseteq Build /\ NamedHolding(t)' \subseteq Build
    BY DEF NamedHolding, Holding
  <1>6. named[t] = Cardinality(NamedHolding(t)) /\ named[t] \in Nat
    BY DEF IInv, SlotsExact, FlightsTypeOK
  <1>7. named' = IF b \in forRef THEN [named EXCEPT ![Owner(key[b])] = @ - 1] ELSE named
    BY DEF FlightEnds, Release
  <1>8. CASE b \in NamedHolding(t)
    <2>1. named'[t] = named[t] - 1
      BY <1>7, <1>8 DEF NamedHolding, IInv, FlightsTypeOK
    <2>2. Cardinality(NamedHolding(t)') = Cardinality(NamedHolding(t)) - 1
      BY <1>4, <1>5, <1>8, CountRemoved
    <2>3. Cardinality(NamedHolding(t)') \in Nat
      BY <1>5, HoldingFinite
    <2> QED
      BY <1>6, <2>1, <2>2, <2>3
  <1>9. CASE b \notin NamedHolding(t)
    <2>1. named'[t] = named[t]
      BY <1>1, <1>7, <1>9 DEF NamedHolding, IInv, FlightsTypeOK
    <2>2. NamedHolding(t)' = NamedHolding(t)
      BY <1>4, <1>9
    <2> QED
      BY <1>6, <2>1, <2>2
  <1> QED
    BY <1>8, <1>9

LEMMA EndsAloneInv ==
  ASSUME IInv, NEW b \in Build, FlightEnds(b), waiting = <<>>
  PROVE  IInv'
  <1>1. /\ phase' = [phase EXCEPT ![b] = "ended"] /\ running' = running - 1
        /\ waiting' = waiting /\ forRef' = forRef /\ key' = key /\ abandoned' = abandoned
        /\ flights' = Deleted(b)
        /\ named' = IF b \in forRef THEN [named EXCEPT ![Owner(key[b])] = @ - 1] ELSE named
    BY DEF FlightEnds, Release
  <1>2. \A d \in Build : phase'[d] = IF d = b THEN "ended" ELSE IF d \in {} THEN "given" ELSE phase[d]
    BY <1>1 DEF IInv, FlightsTypeOK
  <1>3. \A t \in Target : /\ named'[t] = Cardinality(NamedHolding(t)')
                          /\ named'[t] <= named[t] /\ named'[t] \in Nat
    <2> TAKE t \in Target
    <2>1. {} \in SUBSET Build /\ \A d \in {} : phase[d] = "waiting"
      OBVIOUS
    <2> QED
      BY <1>2, <2>1, EndsNamed
  <1>4. b \in Holding /\ Holding \subseteq Build /\ Holding' = Holding \ {b}
    BY <1>1 DEF FlightEnds, Holding, IInv, FlightsTypeOK
  <1>5. Cardinality(Holding') = Cardinality(Holding) - 1 /\ Cardinality(Holding') \in Nat
    BY <1>4, CountRemoved, HoldingFinite
  <1>6. running' = Cardinality(Holding') /\ running' \in Nat
    BY <1>1, <1>5 DEF IInv, SlotsExact
  <1>7. named' \in [Target -> Nat]
    <2>1. named' = [t \in Target |-> named'[t]]
      BY <1>1 DEF IInv, FlightsTypeOK
    <2> QED
      BY <1>3, <2>1
  <1>8. FlightsTypeOK'
    BY <1>1, <1>6, <1>7 DEF IInv, FlightsTypeOK, Phase, Deleted
  <1>9. SlotsExact'
    BY <1>3, <1>6 DEF SlotsExact
  <1>10. Caps'
    BY <1>1, <1>3, <1>7, LimitsAssumption DEF Caps, IInv, FlightsTypeOK
  <1>11. NoIdleSlot' /\ QueueOK'
    BY <1>1, <1>2 DEF NoIdleSlot, QueueOK, IInv
  <1>12. MapOK' /\ Launched' /\ OneToJoin'
    <2>1. {} \in SUBSET Build /\ \A d \in {} : phase[d] = "waiting"
      OBVIOUS
    <2> QED
      BY <1>2, <1>8, <2>1, EndsMap
  <1> QED
    BY <1>8, <1>9, <1>10, <1>11, <1>12 DEF IInv

LEMMA EndsHandedInv ==
  ASSUME IInv, NEW b \in Build, FlightEnds(b), waiting # <<>>
  PROVE  IInv'
  <1> DEFINE h == Head(waiting)
  <1>1. /\ phase' = [phase EXCEPT ![b] = "ended", ![Head(waiting)] = "given"]
        /\ running' = running /\ waiting' = Tail(waiting)
        /\ forRef' = forRef /\ key' = key /\ abandoned' = abandoned
        /\ flights' = Deleted(b)
        /\ named' = IF b \in forRef THEN [named EXCEPT ![Owner(key[b])] = @ - 1] ELSE named
    BY DEF FlightEnds, Release
  <1>2. /\ waiting \in Seq(Build) /\ Len(waiting) \in Nat /\ 1 \in 1..Len(waiting)
        /\ h = waiting[1] /\ h \in Build
        /\ Len(waiting') = Len(waiting) - 1
        /\ \A i \in 1..Len(waiting') : i + 1 \in 1..Len(waiting) /\ waiting'[i] = waiting[i + 1]
    BY <1>1 DEF IInv, FlightsTypeOK
  <1>3. phase[h] = "waiting" /\ phase[b] \in {"given", "working"} /\ h # b
    BY <1>2 DEF IInv, QueueOK, FlightEnds
  <1>4. {h} \in SUBSET Build /\ \A d \in {h} : phase[d] = "waiting"
    BY <1>2, <1>3
  <1>5. \A d \in Build : phase'[d] = IF d = b THEN "ended" ELSE IF d \in {h} THEN "given" ELSE phase[d]
    BY <1>1, <1>2, <1>3 DEF IInv, FlightsTypeOK
  <1>6. \A t \in Target : /\ named'[t] = Cardinality(NamedHolding(t)')
                          /\ named'[t] <= named[t] /\ named'[t] \in Nat
    BY <1>4, <1>5, EndsNamed
  <1>7. /\ b \in Holding /\ h \notin Holding /\ Holding \subseteq Build
        /\ Holding' = (Holding \ {b}) \cup {h}
    BY <1>1, <1>2, <1>3 DEF Holding, IInv, FlightsTypeOK
  <1>8. Cardinality(Holding') = Cardinality(Holding)
    BY <1>7, CountSwapped
  <1>9. named' \in [Target -> Nat]
    <2>1. named' = [t \in Target |-> named'[t]]
      BY <1>1 DEF IInv, FlightsTypeOK
    <2> QED
      BY <1>6, <2>1
  <1>10. FlightsTypeOK'
    <2>1. waiting' \in Seq(Build)
      BY <1>1, <1>2
    <2>2. phase' \in [Build -> Phase]
      BY <1>1 DEF IInv, FlightsTypeOK, Phase
    <2>3. flights' \in [Key -> Build \cup {NoBuild}]
      BY <1>1 DEF IInv, FlightsTypeOK, Deleted
    <2> QED
      BY <1>1, <1>9, <2>1, <2>2, <2>3 DEF IInv, FlightsTypeOK
  <1>11. SlotsExact'
    BY <1>1, <1>6, <1>8 DEF SlotsExact, IInv
  <1>12. Caps'
    BY <1>1, <1>6, <1>9, LimitsAssumption DEF Caps, IInv, FlightsTypeOK
  <1>13. NoIdleSlot'
    <2>1. running' = Total
      BY <1>1 DEF IInv, NoIdleSlot
    <2>2. ASSUME NEW d \in Build, phase'[d] = "waiting"
          PROVE  \E i \in 1..Len(waiting') : waiting'[i] = d
      <3>1. phase[d] = "waiting" /\ d # h
        BY <1>5, <2>2
      <3>2. PICK j \in 1..Len(waiting) : waiting[j] = d
        BY <3>1 DEF IInv, NoIdleSlot
      <3>3. j # 1 /\ j - 1 \in 1..Len(waiting')
        BY <1>2, <3>1, <3>2
      <3>4. waiting'[j - 1] = waiting[(j - 1) + 1] /\ (j - 1) + 1 = j
        BY <1>2, <3>3
      <3> QED
        BY <3>2, <3>3, <3>4
    <2> QED
      BY <2>1, <2>2 DEF NoIdleSlot
  <1>14. QueueOK'
    <2>1. ASSUME NEW i \in 1..Len(waiting')
          PROVE  phase'[waiting'[i]] = "waiting"
      <3>1. waiting'[i] = waiting[i + 1] /\ i + 1 \in 1..Len(waiting) /\ i + 1 # 1
        BY <1>2
      <3>2. waiting'[i] \in Build /\ phase[waiting'[i]] = "waiting" /\ waiting'[i] # h
        BY <1>2, <3>1 DEF IInv, QueueOK
      <3> QED
        BY <1>3, <1>5, <3>2
    <2>2. ASSUME NEW i \in 1..Len(waiting'), NEW j \in 1..Len(waiting'),
                 waiting'[i] = waiting'[j]
          PROVE  i = j
      <3>1. /\ i + 1 \in 1..Len(waiting) /\ j + 1 \in 1..Len(waiting)
            /\ waiting[i + 1] = waiting[j + 1]
        BY <1>2, <2>2
      <3>2. i + 1 = j + 1
        BY <3>1 DEF IInv, QueueOK
      <3>3. i \in Int /\ j \in Int
        OBVIOUS
      <3> QED
        BY <3>2, <3>3
    <2> QED
      BY <2>1, <2>2 DEF QueueOK
  <1>15. MapOK' /\ Launched' /\ OneToJoin'
    BY <1>4, <1>5, <1>10, EndsMap
  <1> QED
    BY <1>10, <1>11, <1>12, <1>13, <1>14, <1>15 DEF IInv

-----------------------------------------------------------------------------

LEMMA StutterIInv == IInv /\ UNCHANGED flightVars => IInv'
  <1> SUFFICES ASSUME IInv, UNCHANGED flightVars PROVE IInv'
    OBVIOUS
  <1>1. UNCHANGED <<flights, phase, key, forRef, abandoned, running, named, waiting>>
    BY DEF flightVars, slotVars
  <1>2. Holding' = Holding /\ Flying' = Flying /\ \A t \in Target : NamedHolding(t)' = NamedHolding(t)
    BY <1>1 DEF Holding, Flying, NamedHolding
  <1> QED
    BY <1>1, <1>2
    DEF IInv, FlightsTypeOK, SlotsExact, Caps, NoIdleSlot, QueueOK, MapOK, Launched, OneToJoin

LEMMA NextIInv == IInv /\ [FlightsNext]_flightVars => IInv'
  <1> SUFFICES ASSUME IInv, [FlightsNext]_flightVars PROVE IInv'
    OBVIOUS
  <1>1. CASE \E b \in Build, k \in Key : Start(b, k) \/ TryStart(b, k)
    BY <1>1, StartFreeInv, StartQueuedInv, TryStartInv DEF Start
  <1>2. CASE \E b \in Build : Begin(b) \/ FlightEnds(b)
    BY <1>2, BeginInv, EndsAloneInv, EndsHandedInv
  <1>3. CASE \E t \in Target : Forget(t)
    BY <1>3, ForgetInv
  <1>4. CASE UNCHANGED flightVars
    BY <1>4, StutterIInv
  <1> QED
    BY <1>1, <1>2, <1>3, <1>4 DEF FlightsNext

LEMMA Invariance == FlightsSpec => []IInv
  BY InitIInv, NextIInv, PTL DEF FlightsSpec

\* The map, the counts and the queue keep their types, whatever is started,
\* forgotten and ended.
THEOREM TypeCorrect == FlightsSpec => []FlightsTypeOK
  <1>1. IInv => FlightsTypeOK
    BY DEF IInv
  <1> QED
    BY <1>1, Invariance, PTL

\* The counts of createBuildSlots() are the builds that hold a slot.
THEOREM SlotsCounted == FlightsSpec => []SlotsExact
  <1>1. IInv => SlotsExact
    BY DEF IInv
  <1> QED
    BY <1>1, Invariance, PTL

\* Handing a slot over without looking at the counts never exceeds a cap.
THEOREM CapsHold == FlightsSpec => []WithinLimits
  <1>1. IInv => WithinLimits
    BY DEF IInv, Caps, SlotsExact, WithinLimits
  <1> QED
    BY <1>1, Invariance, PTL

\* No slot is free while a build waits for one.
THEOREM QueueServed == FlightsSpec => []NoIdleSlot
  <1>1. IInv => NoIdleSlot
    BY DEF IInv
  <1> QED
    BY <1>1, Invariance, PTL

\* A trigger of a key joins the one build of it that was not forgotten.
THEOREM JoinUnique == FlightsSpec => []OneToJoin
  <1>1. IInv => OneToJoin
    BY DEF IInv
  <1> QED
    BY <1>1, Invariance, PTL

\* The slots of createBuildSlots(), as the run checks them.
THEOREM SlotsAreSound == FlightsSpec => []SlotsSound
  <1>1. FlightsTypeOK /\ SlotsExact /\ WithinLimits /\ NoIdleSlot => SlotsSound
    BY DEF SlotsSound
  <1> QED
    BY <1>1, TypeCorrect, SlotsCounted, CapsHold, QueueServed, PTL

-----------------------------------------------------------------------------
(* Which snapshot a call reads and what the target is answered from.  The  *)
(* commits the configured ref has named are what the calls, the builds and *)
(* the background work agree about; the documents go with every key.       *)

\* A call works for the documents it was let in with, and without a ref on commits the configured ref has named.
CodeStages == {"idle", "preparing", "resolving", "asking", "waiting", "reading", "answered", "failed"}
IsOver(call) == call.at \in {"idle", "answered", "failed"}
CallHolds(call, names) ==
  /\ DOMAIN call = DOMAIN IdleCall /\ call.at \in CodeStages /\ call.tries \in 0..2
  /\ ~IsOver(call) => call.docs \in Docs
  /\ call.at = "resolving" =>
       /\ call.asked \in Sha /\ (call.named \/ call.asked \in names)
       /\ call.saw # Nothing => DocsOf(call.saw) = call.docs
  /\ call.at \in {"asking", "waiting"} =>
       call.key \in SnapKey /\ DocsOf(call.key) = call.docs /\ (call.named \/ ShaOf(call.key) \in names)
  /\ call.at = "reading" => DocsOf(call.key) = call.docs
  /\ call.at = "answered" => call.read = call.docs
CallsHold == ccalls = [c \in CodeCall |-> ccalls[c]] /\ \A c \in CodeCall : CallHolds(ccalls[c], been)

\* A build works under the documents of its key.
BuildHolds(build) ==
  /\ DOMAIN build = DOMAIN NewBuild
  /\ build.at \in {"waiting", "loading"} => build.key \in SnapKey
  /\ build.at = "loading" => build.under = DocsOf(build.key)
BuildsHold == cbuilds = [b \in CodeBuild |-> cbuilds[b]] /\ \A b \in CodeBuild : BuildHolds(cbuilds[b])

WorldHolds == stored \in [docs : Docs, on : BOOLEAN] \cup {Nothing} /\ head \in been /\ been \subseteq Sha
SnapsHold == \A k \in DOMAIN snaps : k \in SnapKey /\ snaps[k] = DocsOf(k)

\* What is remembered of the target names commits of the configured ref.
StateHolds ==
  /\ resolution \in been \cup {"failed", Nothing} /\ resolved \in been \cup {Nothing}
  /\ current \in SnapKey \cup {Nothing} /\ failed \subseteq SnapKey
  /\ CurrentIsConfigured
TaskHolds ==
  /\ DOMAIN task = DOMAIN IdleTask
  /\ task.at \in {"resolving", "asking"} => task.docs \in Docs /\ task.asked \in been
CodeInv == WorldHolds /\ SnapsHold /\ StateHolds /\ BuildsHold /\ CallsHold /\ TaskHolds

\* Keys are pairs, and no key and no commit is the absence of one.
LEMMA Keys ==
  /\ \A d \in Docs, s \in Sha : <<d, s>> \in SnapKey /\ DocsOf(<<d, s>>) = d /\ ShaOf(<<d, s>>) = s
  /\ \A k \in SnapKey : DocsOf(k) \in Docs /\ ShaOf(k) \in Sha
  /\ Nothing \notin SnapKey /\ Nothing \notin Sha /\ Nothing \notin Docs /\ "failed" \notin Sha
  BY NothingAssumption DEF SnapKey, DocsOf, ShaOf

LEMMA CodeBegins == CodeInit => CodeInv
  <1> SUFFICES ASSUME CodeInit PROVE CodeInv OBVIOUS
  <1>1. PICK k \in {Nothing} \cup {stored.docs} \X Sha :
       /\ current = k /\ kept = k
       /\ been = {head} \cup (IF k = Nothing THEN {} ELSE {ShaOf(k)})
       /\ snaps = IF k = Nothing THEN <<>> ELSE [x \in {k} |-> stored.docs]
    BY DEF CodeInit
  <1>2. stored \in [docs : Docs, on : {TRUE}] /\ head \in Sha /\ stored.docs \in Docs BY DEF CodeInit
  <1>3. k # Nothing => k \in SnapKey /\ ShaOf(k) \in Sha /\ DocsOf(k) = stored.docs
    BY <1>2, Keys
  <1>4. WorldHolds BY <1>1, <1>2, <1>3 DEF WorldHolds
  <1>5. SnapsHold
    <2>1. CASE k = Nothing BY <1>1, <2>1 DEF SnapsHold
    <2>2. CASE k # Nothing BY <1>1, <1>3, <2>2 DEF SnapsHold
    <2> QED BY <2>1, <2>2
  <1>6. StateHolds
    <2>1. stored # Nothing BY <1>2, NothingAssumption
    <2> QED BY <1>1, <1>3, <2>1 DEF StateHolds, CurrentIsConfigured, CodeInit
  <1>7. BuildsHold BY DEF CodeInit, BuildsHold, BuildHolds, NewBuild
  <1>8. CallsHold BY DEF CodeInit, CallsHold, CallHolds, IdleCall, IsOver, CodeStages
  <1>9. TaskHolds BY DEF CodeInit, TaskHolds, IdleTask
  <1> QED BY <1>4, <1>5, <1>6, <1>7, <1>8, <1>9 DEF CodeInv

\* What a step leaves alone keeps its part of the invariant.
LEMMA CallStepHolds ==
  ASSUME CodeInv, UNCHANGED <<world, snaps, task>>, StateHolds', CallsHold', BuildsHold'
  PROVE  CodeInv'
  BY DEF CodeInv, world, WorldHolds, SnapsHold, TaskHolds

LEMMA StateStays ==
  ASSUME CodeInv, UNCHANGED <<world, held, kept>>
  PROVE  StateHolds'
  BY DEF CodeInv, world, held, StateHolds, CurrentIsConfigured

LEMMA BuildsStay ==
  ASSUME CodeInv, UNCHANGED cbuilds
  PROVE  BuildsHold'
  BY DEF CodeInv, BuildsHold

LEMMA CallsStay ==
  ASSUME CodeInv, UNCHANGED <<been, ccalls>>
  PROVE  CallsHold'
  BY DEF CodeInv, CallsHold

-----------------------------------------------------------------------------
\* One call moves: what it holds then is right under the names there are then.
LEMMA CallGoesOn ==
  ASSUME CodeInv, NEW c \in CodeCall, NEW y, ccalls' = [ccalls EXCEPT ![c] = y], CallHolds(y, been), UNCHANGED been
  PROVE  CallsHold'
  BY DEF CodeInv, CallsHold

LEMMA IdleCallHolds ==
  ASSUME NEW x, x \in {"failed", "idle"}
  PROVE  CallHolds([IdleCall EXCEPT !.at = x], been)
  BY DEF CallHolds, IdleCall, IsOver, CodeStages

\* What the call holds, and what changing where it is keeps.
LEMMA CallFields ==
  ASSUME CodeInv, NEW c \in CodeCall
  PROVE  LET call == ccalls[c] IN
         /\ CallHolds(call, been)
         /\ \A x \in CodeStages : LET y == [call EXCEPT !.at = x] IN
              /\ DOMAIN y = DOMAIN IdleCall /\ y.at = x /\ y.docs = call.docs /\ y.tries = call.tries /\ y.named = call.named
              /\ y.asked = call.asked /\ y.saw = call.saw /\ y.key = call.key /\ y.read = call.read
         /\ \A x \in CodeStages : LET y == [call EXCEPT !.at = x, !.build = Nothing] IN
              /\ DOMAIN y = DOMAIN IdleCall /\ y.at = x /\ y.docs = call.docs /\ y.tries = call.tries /\ y.named = call.named
              /\ y.asked = call.asked /\ y.saw = call.saw /\ y.key = call.key /\ y.read = call.read
  BY DEF CodeInv, CallsHold, CallHolds, IdleCall

\* A call that fails, or goes on to read the snapshot of its key.
LEMMA GoesAway ==
  ASSUME CodeInv, NEW c \in CodeCall, ccalls' = Goes(c, "failed"), UNCHANGED been
  PROVE  CallsHold'
  <1>1. ccalls' = [ccalls EXCEPT ![c] = [IdleCall EXCEPT !.at = "failed"]] BY DEF Goes
  <1> QED BY <1>1, IdleCallHolds, CallGoesOn

LEMMA GoesReading ==
  ASSUME CodeInv, NEW c \in CodeCall, ccalls[c].at \in {"asking", "waiting"}, ccalls' = Goes(c, "reading"), UNCHANGED been
  PROVE  CallsHold'
  <1> DEFINE y == [ccalls[c] EXCEPT !.at = "reading", !.build = Nothing]
  <1>1. ccalls' = [ccalls EXCEPT ![c] = y] BY DEF Goes
  <1>2. CallHolds(ccalls[c], been) BY CallFields
  <1>3. DOMAIN y = DOMAIN IdleCall /\ y.at = "reading" /\ y.docs = ccalls[c].docs /\ y.tries = ccalls[c].tries
        /\ y.key = ccalls[c].key
    BY CallFields DEF CodeStages
  <1> HIDE DEF y
  <1>4. CallHolds(y, been) BY <1>2, <1>3 DEF CallHolds, IsOver, CodeStages
  <1> QED BY <1>1, <1>4, CallGoesOn

LEMMA ReadsWhatItSaw ==
  ASSUME CodeInv, NEW c \in CodeCall, ccalls[c].at = "resolving", ccalls[c].saw # Nothing,
         ccalls' = Reads(c, ccalls[c].saw), UNCHANGED been
  PROVE  CallsHold'
  <1> DEFINE y == [ccalls[c] EXCEPT !.at = "reading", !.key = ccalls[c].saw]
  <1>1. ccalls' = [ccalls EXCEPT ![c] = y] BY DEF Reads
  <1>2. CallHolds(ccalls[c], been) BY CallFields
  <1>3. DOMAIN y = DOMAIN IdleCall /\ y.at = "reading" /\ y.docs = ccalls[c].docs /\ y.tries = ccalls[c].tries
        /\ y.key = ccalls[c].saw
    BY <1>2 DEF CallHolds, IdleCall
  <1> HIDE DEF y
  <1>4. CallHolds(y, been) BY <1>2, <1>3 DEF CallHolds, IsOver, CodeStages
  <1> QED BY <1>1, <1>4, CallGoesOn

\* Setting the current snapshot keeps what is remembered in step with the row.
LEMMA CurrentSet ==
  ASSUME CodeInv, NEW k, SetCurrent(k), (k \in SnapKey /\ ShaOf(k) \in been) \/ k = Nothing,
         failed' \subseteq SnapKey, UNCHANGED <<stored, been, resolution, resolved>>
  PROVE  StateHolds'
  BY Keys DEF CodeInv, StateHolds, CurrentIsConfigured, SetCurrent, KeptAfter

\* A resolution is a commit the ref names, or a failure.
LEMMA ResolutionSet ==
  ASSUME CodeInv, NEW outcome, Resolved(outcome), outcome \in been \cup {"failed"}, failed' \subseteq SnapKey,
         UNCHANGED <<stored, been, current, kept>>
  PROVE  StateHolds'
  BY Keys DEF CodeInv, StateHolds, CurrentIsConfigured, Resolved

LEMMA EverythingDropped ==
  ASSUME CodeInv, Drop
  PROVE  StateHolds'
  BY DEF StateHolds, CurrentIsConfigured, Drop

\* A build that is asked for is of a key; one that ended is forgotten.
LEMMA BuildAsked ==
  ASSUME CodeInv, NEW b \in CodeBuild, NEW k \in SnapKey, NEW configured, StartBuild(b, k, configured)
  PROVE  BuildsHold'
  BY DEF CodeInv, BuildsHold, BuildHolds, StartBuild, NewBuild

LEMMA BuildsSettle ==
  ASSUME NEW builds, NEW calls, \A b \in CodeBuild : BuildHolds(builds[b]), cbuilds' = Settled(builds, calls)
  PROVE  BuildsHold'
  <1>1. BuildHolds(NewBuild) BY DEF BuildHolds, NewBuild
  <1> QED BY <1>1 DEF BuildsHold, Settled

LEMMA BuildsForgotten ==
  ASSUME CodeInv, cbuilds' = Forgotten
  PROVE  BuildsHold'
  <1>1. ASSUME NEW b \in CodeBuild, NEW x PROVE BuildHolds([cbuilds[b] EXCEPT !.abandoned = x])
    BY DEF CodeInv, BuildsHold, BuildHolds, NewBuild
  <1> QED BY <1>1 DEF BuildsHold, Forgotten

-----------------------------------------------------------------------------
\* A build.
LEMMA BuildWorks ==
  ASSUME CodeInv, NEW b \in CodeBuild, BuildBegins(b)
  PROVE  CodeInv'
  <1>1. UNCHANGED <<world, snaps, ccalls, task>> /\ cbuilds[b].at = "waiting" BY DEF BuildBegins
  <1>2. BuildHolds(cbuilds[b]) /\ DOMAIN cbuilds = CodeBuild /\ \A x \in CodeBuild : BuildHolds(cbuilds[x])
    BY DEF CodeInv, BuildsHold
  <1>3. CASE /\ Lends(b)
             /\ cbuilds' = [cbuilds EXCEPT ![b].at = "loading", ![b].under = stored.docs]
             /\ UNCHANGED <<held, kept>>
    <2> DEFINE y == [cbuilds[b] EXCEPT !.at = "loading", !.under = stored.docs]
    <2>1. y.at = "loading" /\ y.under = stored.docs /\ y.key = cbuilds[b].key /\ DOMAIN y = DOMAIN NewBuild
      BY <1>2 DEF BuildHolds, NewBuild
    <2>2. stored.docs = DocsOf(cbuilds[b].key) BY <1>3 DEF Lends
    <2>3. cbuilds' = [cbuilds EXCEPT ![b] = y] BY <1>3
    <2> HIDE DEF y
    <2>4. BuildHolds(y) BY <1>1, <1>2, <2>1, <2>2 DEF BuildHolds
    <2>5. BuildsHold' BY <1>2, <2>3, <2>4 DEF BuildsHold
    <2> QED BY <1>1, <1>3, <2>5, StateStays, CallsStay, CallStepHolds DEF world
  <1>4. CASE /\ cbuilds' = Settled([cbuilds EXCEPT ![b].at = "refused"], ccalls)
             /\ Finished(cbuilds[b], "refused")
    <2>1. BuildHolds([cbuilds[b] EXCEPT !.at = "refused"]) BY <1>2 DEF BuildHolds, NewBuild
    <2>2. \A x \in CodeBuild : BuildHolds([cbuilds EXCEPT ![b].at = "refused"][x]) BY <1>2, <2>1
    <2>3. BuildsHold' BY <1>4, <2>2, BuildsSettle
    <2>4. UNCHANGED <<held, kept>> BY <1>4 DEF Finished, held
    <2> QED BY <1>1, <2>3, <2>4, StateStays, CallsStay, CallStepHolds DEF world
  <1> QED BY <1>3, <1>4 DEF BuildBegins

LEMMA BuildFinishes ==
  ASSUME CodeInv, NEW b \in CodeBuild, BuildEnds(b)
  PROVE  CodeInv'
  <1> DEFINE build == cbuilds[b]
  <1>1. UNCHANGED <<world, ccalls, task>> /\ build.at = "loading" BY DEF BuildEnds
  <1>2. BuildHolds(build) /\ DOMAIN cbuilds = CodeBuild /\ \A x \in CodeBuild : BuildHolds(cbuilds[x])
    BY DEF CodeInv, BuildsHold
  <1>3. build.key \in SnapKey /\ build.under = DocsOf(build.key) BY <1>1, <1>2 DEF BuildHolds
  <1>4. PICK end \in ArchiveEnds :
       /\ cbuilds' = Settled([cbuilds EXCEPT ![b].at = end], ccalls)
       /\ snaps' = IF end # "built" \/ cbuilds[b].key \in DOMAIN snaps THEN snaps
                   ELSE [k \in DOMAIN snaps \cup {cbuilds[b].key} |->
                           IF k = cbuilds[b].key THEN cbuilds[b].under ELSE snaps[k]]
       /\ Finished(cbuilds[b], end)
    BY DEF BuildEnds
  <1>5. BuildsHold'
    <2>1. BuildHolds([cbuilds[b] EXCEPT !.at = end]) BY <1>2, <1>4 DEF BuildHolds, NewBuild, ArchiveEnds
    <2>2. \A x \in CodeBuild : BuildHolds([cbuilds EXCEPT ![b].at = end][x]) BY <1>2, <2>1
    <2> QED BY <1>4, <2>2, BuildsSettle
  <1>6. SnapsHold' BY <1>3, <1>4 DEF CodeInv, SnapsHold
  <1>7. StateHolds'
    <2> USE DEF world
    <2>1. CASE UNCHANGED <<current, failed, kept>> BY <1>1, <1>4, <2>1 DEF Finished, CodeInv, StateHolds, CurrentIsConfigured
    <2>2. CASE failed' = failed \ {build.key} /\ SetCurrent(CurrentAfter(build))
      <3>1. UNCHANGED <<resolution, resolved>> /\ failed' \subseteq SnapKey
        BY <1>4, <2>2 DEF Finished, CodeInv, StateHolds
      <3>2. CurrentAfter(build) = Nothing \/ (CurrentAfter(build) \in SnapKey /\ ShaOf(CurrentAfter(build)) \in been)
        <4>1. CASE build.configured /\ resolved = ShaOf(build.key)
          <5>1. CurrentAfter(build) = build.key BY <4>1 DEF CurrentAfter
          <5>2. resolved \in been \cup {Nothing} BY DEF CodeInv, StateHolds
          <5>3. ShaOf(build.key) \in been BY <1>3, <4>1, <5>2, Keys
          <5> QED BY <1>3, <5>1, <5>3
        <4>2. CASE ~(build.configured /\ resolved = ShaOf(build.key))
          <5>1. CurrentAfter(build) = current BY <4>2 DEF CurrentAfter
          <5> QED BY <5>1 DEF CodeInv, StateHolds, CurrentIsConfigured
        <4> QED BY <4>1, <4>2
      <3> QED BY <1>1, <2>2, <3>1, <3>2, CurrentSet
    <2>3. CASE failed' = failed \cup {build.key} /\ UNCHANGED <<current, kept>>
      BY <1>1, <1>3, <1>4, <2>3 DEF Finished, CodeInv, StateHolds, CurrentIsConfigured
    <2> QED BY <1>4, <2>1, <2>2, <2>3 DEF Finished, ArchiveEnds
  <1> QED BY <1>1, <1>5, <1>6, <1>7 DEF CodeInv, world, WorldHolds, CallsHold, TaskHolds

-----------------------------------------------------------------------------
\* A call.
LEMMA CallAdmitted ==
  ASSUME CodeInv, NEW c \in CodeCall, CallBegins(c)
  PROVE  CodeInv'
  <1>1. UNCHANGED <<world, snaps, held, kept, cbuilds, task>> /\ stored # Nothing BY DEF CallBegins
  <1>2. PICK byName \in BOOLEAN :
       ccalls' = [ccalls EXCEPT ![c] =
         [IdleCall EXCEPT !.at = "preparing", !.docs = stored.docs, !.named = byName, !.tries = 1]]
    BY DEF CallBegins
  <1> DEFINE y == [IdleCall EXCEPT !.at = "preparing", !.docs = stored.docs, !.named = byName, !.tries = 1]
  <1>3. DOMAIN y = DOMAIN IdleCall /\ y.at = "preparing" /\ y.docs = stored.docs /\ y.tries = 1 BY DEF IdleCall
  <1>4. stored.docs \in Docs BY <1>1 DEF CodeInv, WorldHolds
  <1>5. ccalls' = [ccalls EXCEPT ![c] = y] BY <1>2
  <1> HIDE DEF y
  <1>6. CallHolds(y, been) BY <1>3, <1>4 DEF CallHolds, IsOver, CodeStages
  <1>7. CallsHold' BY <1>1, <1>5, <1>6, CallGoesOn DEF world
  <1> QED BY <1>1, <1>7, StateStays, BuildsStay, CallStepHolds

LEMMA RefAsked ==
  ASSUME CodeInv, NEW c \in CodeCall, CallAsks(c)
  PROVE  CodeInv'
  <1>1. UNCHANGED <<world, snaps, held, kept, cbuilds, task>> /\ ccalls[c].at = "preparing" BY DEF CallAsks
  <1>2. PICK sha \in Named(c) :
       ccalls' = [ccalls EXCEPT ![c].at = "resolving", ![c].saw = Usable(c), ![c].asked = sha]
    BY DEF CallAsks
  <1> DEFINE call == ccalls[c]
             y == [call EXCEPT !.at = "resolving", !.saw = Usable(c), !.asked = sha]
  <1>3. CallHolds(call, been) BY CallFields
  <1>4. DOMAIN y = DOMAIN IdleCall /\ y.at = "resolving" /\ y.docs = call.docs /\ y.tries = call.tries /\ y.asked = sha
        /\ y.saw = Usable(c) /\ y.named = call.named
    BY <1>3 DEF CallHolds, IdleCall
  <1>5. sha \in Sha /\ (call.named \/ sha \in been) BY <1>2 DEF Named, CodeInv, WorldHolds
  <1>6. Usable(c) # Nothing => DocsOf(Usable(c)) = call.docs BY DEF Usable
  <1>7. ccalls' = [ccalls EXCEPT ![c] = y] BY <1>2
  <1> HIDE DEF y
  <1>8. CallHolds(y, been) BY <1>1, <1>3, <1>4, <1>5, <1>6 DEF CallHolds, IsOver, CodeStages
  <1>9. CallsHold' BY <1>1, <1>7, <1>8, CallGoesOn DEF world
  <1> QED BY <1>1, <1>9, StateStays, BuildsStay, CallStepHolds

LEMMA NotResolved ==
  ASSUME CodeInv, NEW c \in CodeCall, CallUnresolved(c)
  PROVE  CodeInv'
  <1>1. UNCHANGED <<world, snaps, kept, cbuilds, task>> /\ ccalls[c].at = "resolving" BY DEF CallUnresolved
  <1>2. UNCHANGED held \/ (Resolved("failed") /\ UNCHANGED <<current, failed>>)
    <2>1. CASE Cached(c) BY <2>1 DEF CallUnresolved
    <2>2. CASE ~Cached(c) /\ ccalls[c].named BY <2>2 DEF CallUnresolved
    <2>3. CASE ~Cached(c) /\ ~ccalls[c].named BY <2>3 DEF CallUnresolved
    <2> QED BY <2>1, <2>2, <2>3
  <1>3. StateHolds'
    <2>1. CASE UNCHANGED held BY <1>1, <2>1 DEF CodeInv, StateHolds, CurrentIsConfigured, held, world
    <2>2. CASE Resolved("failed") /\ UNCHANGED <<current, failed>>
      <3>1. failed' \subseteq SnapKey BY <2>2 DEF CodeInv, StateHolds
      <3> QED BY <1>1, <2>2, <3>1, ResolutionSet DEF world
    <2> QED BY <1>2, <2>1, <2>2
  <1>4. CallsHold' BY <1>1, GoesAway, ReadsWhatItSaw DEF CallUnresolved, world
  <1> QED BY <1>1, <1>3, <1>4 DEF CodeInv, world, WorldHolds, SnapsHold, BuildsHold, TaskHolds

\* The commit a call goes on with, and what it leaves behind.
LEMMA CommitKnown ==
  ASSUME CodeInv, NEW c \in CodeCall, ccalls[c].at = "resolving", NEW sha \in Sha, Commits(c, sha), UNCHANGED <<stored, been, kept>>
  PROVE  StateHolds' /\ (ccalls[c].named \/ sha \in been)
  <1>1. CallHolds(ccalls[c], been) BY CallFields
  <1>2. CASE Cached(c)
    <2>1. sha = resolution /\ UNCHANGED held BY <1>2 DEF Commits
    <2>2. sha \in been BY <2>1, Keys DEF CodeInv, StateHolds
    <2> QED BY <2>1, <2>2 DEF CodeInv, StateHolds, CurrentIsConfigured, held
  <1>3. CASE ~Cached(c)
    <2>1. sha \in {ccalls[c].asked} \cup (IF ccalls[c].named THEN {} ELSE {head}) BY <1>3 DEF Commits
    <2>2. ccalls[c].named \/ sha \in been BY <1>1, <2>1 DEF CallHolds, CodeInv, WorldHolds
    <2>3. CASE ccalls[c].named BY <1>3, <2>2, <2>3 DEF Commits, CodeInv, StateHolds, CurrentIsConfigured, held
    <2>4. CASE ~ccalls[c].named
      <3>1. Resolved(sha) /\ UNCHANGED <<current, failed>> BY <1>3, <2>4 DEF Commits
      <3>2. failed' \subseteq SnapKey BY <3>1 DEF CodeInv, StateHolds
      <3> QED BY <2>2, <2>4, <3>1, <3>2, ResolutionSet
    <2> QED BY <2>3, <2>4
  <1> QED BY <1>2, <1>3

LEMMA MovedAnswered ==
  ASSUME CodeInv, NEW c \in CodeCall, CallMoved(c)
  PROVE  CodeInv'
  <1>1. PICK sha \in Sha :
       /\ Commits(c, sha)
       /\ IF <<ccalls[c].docs, sha>> \in failed THEN UNCHANGED cbuilds
          ELSE \E b \in CodeBuild : StartBuild(b, <<ccalls[c].docs, sha>>, TRUE)
    BY DEF CallMoved
  <1>2. ccalls[c].at = "resolving" /\ UNCHANGED <<world, snaps, kept, task>> BY DEF CallMoved
  <1>3. StateHolds' BY <1>1, <1>2, CommitKnown DEF world
  <1>4. CallsHold' BY <1>2, ReadsWhatItSaw DEF CallMoved, world
  <1>5. BuildsHold'
    <2>1. CASE UNCHANGED cbuilds BY <2>1, BuildsStay
    <2>2. CASE \E b \in CodeBuild : StartBuild(b, <<ccalls[c].docs, sha>>, TRUE)
      <3>1. CallHolds(ccalls[c], been) BY CallFields
      <3>2. ccalls[c].docs \in Docs BY <1>2, <3>1 DEF CallHolds, IsOver
      <3>3. <<ccalls[c].docs, sha>> \in SnapKey BY <3>2, Keys
      <3> QED BY <2>2, <3>3, BuildAsked
    <2> QED BY <1>1, <2>1, <2>2
  <1> QED BY <1>2, <1>3, <1>4, <1>5, CallStepHolds

LEMMA CommitAnswered ==
  ASSUME CodeInv, NEW c \in CodeCall, CallResolved(c)
  PROVE  CodeInv'
  <1> DEFINE call == ccalls[c]
  <1>1. PICK sha \in Sha :
       /\ Commits(c, sha)
       /\ ccalls' = IF <<ccalls[c].docs, sha>> \in failed THEN Goes(c, "failed")
                    ELSE [ccalls EXCEPT ![c].at = "asking", ![c].key = <<ccalls[c].docs, sha>>]
    BY DEF CallResolved
  <1>2. call.at = "resolving" /\ UNCHANGED <<world, snaps, kept, cbuilds, task>> BY DEF CallResolved
  <1>3. StateHolds' /\ (call.named \/ sha \in been) BY <1>1, <1>2, CommitKnown DEF world
  <1>4. CallsHold'
    <2>1. CASE ccalls' = Goes(c, "failed") BY <1>2, <2>1, GoesAway DEF world
    <2>2. CASE ccalls' = [ccalls EXCEPT ![c].at = "asking", ![c].key = <<ccalls[c].docs, sha>>]
      <3> DEFINE y == [call EXCEPT !.at = "asking", !.key = <<call.docs, sha>>]
      <3>1. CallHolds(call, been) BY CallFields
      <3>2. DOMAIN y = DOMAIN IdleCall /\ y.at = "asking" /\ y.docs = call.docs /\ y.tries = call.tries
            /\ y.named = call.named /\ y.key = <<call.docs, sha>>
        BY <3>1 DEF CallHolds, IdleCall
      <3>3. call.docs \in Docs BY <1>2, <3>1 DEF CallHolds, IsOver
      <3>4. ccalls' = [ccalls EXCEPT ![c] = y] BY <2>2
      <3> HIDE DEF y
      <3>5. CallHolds(y, been) BY <1>3, <3>1, <3>2, <3>3, Keys DEF CallHolds, IsOver, CodeStages
      <3> QED BY <1>2, <3>4, <3>5, CallGoesOn DEF world
    <2> QED BY <1>1, <2>1, <2>2
  <1> QED BY <1>2, <1>3, <1>4, BuildsStay, CallStepHolds

\* The snapshot a call of the configured ref adopts is one of that ref.
LEMMA Adopted ==
  ASSUME CodeInv, NEW c \in CodeCall, ccalls[c].at \in {"asking", "waiting"}, Adopts(c),
         UNCHANGED <<world, resolution, resolved, failed>>
  PROVE  StateHolds'
  <1>1. CallHolds(ccalls[c], been) BY CallFields
  <1>2. failed' \subseteq SnapKey BY DEF CodeInv, StateHolds
  <1>3. CASE ccalls[c].named BY <1>3, StateStays DEF Adopts, held
  <1>4. CASE ~ccalls[c].named
    <2>1. SetCurrent(ccalls[c].key) BY <1>4 DEF Adopts
    <2>2. ccalls[c].key \in SnapKey /\ ShaOf(ccalls[c].key) \in been BY <1>1, <1>4 DEF CallHolds
    <2> QED BY <1>2, <2>1, <2>2, CurrentSet DEF world
  <1> QED BY <1>3, <1>4

LEMMA SnapshotFound ==
  ASSUME CodeInv, NEW c \in CodeCall, CallReady(c)
  PROVE  CodeInv'
  <1>1. ccalls[c].at = "asking" /\ Adopts(c) /\ ccalls' = Goes(c, "reading")
        /\ UNCHANGED <<world, snaps, resolution, resolved, failed, cbuilds, task>>
    BY DEF CallReady
  <1>2. StateHolds' BY <1>1, Adopted
  <1>3. CallsHold' BY <1>1, GoesReading DEF world
  <1> QED BY <1>1, <1>2, <1>3, BuildsStay, CallStepHolds

LEMMA BuildAwaited ==
  ASSUME CodeInv, NEW c \in CodeCall, CallBuilds(c)
  PROVE  CodeInv'
  <1> DEFINE call == ccalls[c]
  <1>1. call.at = "asking" /\ UNCHANGED <<world, snaps, held, kept, task>> BY DEF CallBuilds
  <1>2. CallHolds(call, been) BY CallFields
  <1>3. StateHolds' BY <1>1, StateStays
  <1>4. CASE ccalls' = Goes(c, "failed") /\ UNCHANGED cbuilds
    BY <1>1, <1>3, <1>4, GoesAway, BuildsStay, CallStepHolds DEF world
  <1>5. ASSUME NEW b \in CodeBuild, StartBuild(b, call.key, ~call.named),
               ccalls' = [ccalls EXCEPT ![c].at = "waiting", ![c].build = b]
        PROVE  CodeInv'
    <2> DEFINE y == [call EXCEPT !.at = "waiting", !.build = b]
    <2>1. call.key \in SnapKey BY <1>1, <1>2 DEF CallHolds
    <2>2. BuildsHold' BY <1>5, <2>1, BuildAsked
    <2>3. DOMAIN y = DOMAIN IdleCall /\ y.at = "waiting" /\ y.docs = call.docs /\ y.tries = call.tries
          /\ y.named = call.named /\ y.key = call.key
      BY <1>2 DEF CallHolds, IdleCall
    <2>4. ccalls' = [ccalls EXCEPT ![c] = y] BY <1>5
    <2> HIDE DEF y
    <2>5. CallHolds(y, been) BY <1>1, <1>2, <2>3 DEF CallHolds, IsOver, CodeStages
    <2>6. CallsHold' BY <1>1, <2>4, <2>5, CallGoesOn DEF world
    <2> QED BY <1>1, <1>3, <2>2, <2>6, CallStepHolds
  <1> QED BY <1>4, <1>5 DEF CallBuilds

\* A call that ends lets the build it waited for be forgotten.
LEMMA CallEnds ==
  ASSUME CodeInv, cbuilds' = Settled(cbuilds, ccalls')
  PROVE  BuildsHold'
  <1>1. \A b \in CodeBuild : BuildHolds(cbuilds[b]) BY DEF CodeInv, BuildsHold
  <1> QED BY <1>1, BuildsSettle

LEMMA CallGone ==
  ASSUME CodeInv, NEW c \in CodeCall, CallGivesUp(c) \/ CallNotBuilt(c)
  PROVE  CodeInv'
  <1>1. ccalls' = Goes(c, "failed") /\ cbuilds' = Settled(cbuilds, ccalls') /\ UNCHANGED <<world, snaps, held, kept, task>>
    BY DEF CallGivesUp, CallNotBuilt
  <1>2. CallsHold' BY <1>1, GoesAway DEF world
  <1>3. BuildsHold' BY <1>1, CallEnds
  <1>4. StateHolds' BY <1>1, StateStays
  <1> QED BY <1>1, <1>2, <1>3, <1>4, CallStepHolds

LEMMA SnapshotBuilt ==
  ASSUME CodeInv, NEW c \in CodeCall, CallBuilt(c)
  PROVE  CodeInv'
  <1>1. ccalls[c].at = "waiting" /\ Adopts(c) /\ ccalls' = Goes(c, "reading") /\ cbuilds' = Settled(cbuilds, ccalls')
        /\ UNCHANGED <<world, snaps, resolution, resolved, failed, task>>
    BY DEF CallBuilt
  <1>2. StateHolds' BY <1>1, Adopted
  <1>3. CallsHold' BY <1>1, GoesReading DEF world
  <1>4. BuildsHold' BY <1>1, CallEnds
  <1> QED BY <1>1, <1>2, <1>3, <1>4, CallStepHolds

LEMMA SnapshotRead ==
  ASSUME CodeInv, NEW c \in CodeCall, CallReads(c)
  PROVE  CodeInv'
  <1> DEFINE call == ccalls[c]
             y == [IdleCall EXCEPT !.at = "answered", !.docs = call.docs, !.read = snaps[call.key]]
  <1>1. call.at = "reading" /\ call.key \in DOMAIN snaps /\ UNCHANGED <<world, snaps, held, kept, cbuilds, task>>
        /\ ccalls' = [ccalls EXCEPT ![c] = y]
    BY DEF CallReads
  <1>2. CallHolds(call, been) BY CallFields
  <1>3. snaps[call.key] = call.docs BY <1>1, <1>2 DEF CodeInv, SnapsHold, CallHolds
  <1>4. DOMAIN y = DOMAIN IdleCall /\ y.at = "answered" /\ y.docs = call.docs /\ y.tries = 0 /\ y.read = call.docs
    BY <1>3 DEF IdleCall
  <1> HIDE DEF y
  <1>5. CallHolds(y, been) BY <1>4 DEF CallHolds, IsOver, CodeStages
  <1>6. CallsHold' BY <1>1, <1>5, CallGoesOn DEF world
  <1>7. StateHolds' BY <1>1, StateStays
  <1> QED BY <1>1, <1>6, <1>7, BuildsStay, CallStepHolds

LEMMA SnapshotGone ==
  ASSUME CodeInv, NEW c \in CodeCall, CallMisses(c)
  PROVE  CodeInv'
  <1> DEFINE call == ccalls[c]
  <1>1. call.at = "reading" /\ ccalls' = Again(c) /\ UNCHANGED <<world, snaps, resolution, resolved, failed, cbuilds, task>>
    BY DEF CallMisses
  <1>2. CallHolds(call, been) BY CallFields
  <1>3. CallsHold'
    <2>1. CASE call.tries = 1
      <3> DEFINE y == [call EXCEPT !.at = "preparing", !.tries = 2]
      <3>1. ccalls' = [ccalls EXCEPT ![c] = y] BY <1>1, <2>1 DEF Again
      <3>2. DOMAIN y = DOMAIN IdleCall /\ y.at = "preparing" /\ y.docs = call.docs /\ y.tries = 2
        BY <1>2 DEF CallHolds, IdleCall
      <3> HIDE DEF y
      <3>3. CallHolds(y, been) BY <1>1, <1>2, <3>2 DEF CallHolds, IsOver, CodeStages
      <3> QED BY <1>1, <3>1, <3>3, CallGoesOn DEF world
    <2>2. CASE call.tries # 1 BY <1>1, <2>2, GoesAway DEF Again, world
    <2> QED BY <2>1, <2>2
  <1>4. StateHolds'
    <2>1. failed' \subseteq SnapKey BY <1>1 DEF CodeInv, StateHolds
    <2>2. CASE SetCurrent(Nothing) BY <1>1, <2>1, <2>2, CurrentSet DEF world
    <2>3. CASE UNCHANGED <<current, kept>> BY <1>1, <2>3, StateStays DEF held
    <2> QED BY <2>2, <2>3 DEF CallMisses
  <1> QED BY <1>1, <1>3, <1>4, BuildsStay, CallStepHolds

-----------------------------------------------------------------------------
\* The operator.
\* What a change that resets drops; one that does not leaves alone.
LEMMA ResetKeeps ==
  ASSUME CodeInv, NEW reset \in BOOLEAN, Resets(reset), UNCHANGED been, stored # Nothing, stored' # Nothing
  PROVE  StateHolds' /\ BuildsHold'
  <1>1. CASE reset BY <1>1, EverythingDropped, BuildsForgotten DEF Resets
  <1>2. CASE ~reset
    <2>1. UNCHANGED <<held, kept, cbuilds>> BY <1>2 DEF Resets
    <2> QED BY <2>1, BuildsStay DEF CodeInv, StateHolds, CurrentIsConfigured, held
  <1> QED BY <1>1, <1>2

LEMMA TargetSaved ==
  ASSUME CodeInv, Save
  PROVE  CodeInv'
  <1>1. PICK docs \in Docs, on \in BOOLEAN, reset \in BOOLEAN :
       /\ stored' = [docs |-> docs, on |-> on]
       /\ Resets(reset)
       /\ task' = [at |-> IF reset THEN "deleting" ELSE IF on THEN "resolving" ELSE "idle",
                   docs |-> docs, asked |-> head]
    BY DEF Save
  <1>2. stored # Nothing /\ UNCHANGED <<head, been, snaps, ccalls>> BY DEF Save
  <1>3. stored' \in [docs : Docs, on : BOOLEAN] /\ stored' # Nothing BY <1>1, NothingAssumption
  <1>4. StateHolds' /\ BuildsHold' BY <1>1, <1>2, <1>3, ResetKeeps
  <1>5. TaskHolds' BY <1>1, <1>2 DEF TaskHolds, IdleTask, CodeInv, WorldHolds
  <1>6. WorldHolds' BY <1>2, <1>3 DEF CodeInv, WorldHolds
  <1>7. SnapsHold' BY <1>2 DEF CodeInv, SnapsHold
  <1> QED BY <1>2, <1>4, <1>5, <1>6, <1>7, CallsStay DEF CodeInv

LEMMA IndexRebuilt ==
  ASSUME CodeInv, Rebuild
  PROVE  CodeInv'
  <1>1. stored # Nothing /\ Resets(TRUE) /\ UNCHANGED <<stored, head, been, snaps, ccalls>>
        /\ task' = [at |-> "deleting", docs |-> stored.docs, asked |-> head]
    BY DEF Rebuild
  <1>2. StateHolds' /\ BuildsHold' BY <1>1, ResetKeeps
  <1>3. TaskHolds' BY <1>1 DEF TaskHolds, IdleTask
  <1>4. WorldHolds' /\ SnapsHold' BY <1>1 DEF CodeInv, WorldHolds, SnapsHold
  <1> QED BY <1>1, <1>2, <1>3, <1>4, CallsStay DEF CodeInv

LEMMA TargetRemoved ==
  ASSUME CodeInv, RemoveTarget
  PROVE  CodeInv'
  <1>1. stored' = Nothing /\ Drop /\ cbuilds' = Forgotten /\ UNCHANGED <<head, been, snaps, ccalls>>
        /\ task' = [at |-> "deleting", docs |-> Nothing, asked |-> Nothing]
    BY DEF RemoveTarget
  <1>2. StateHolds' /\ BuildsHold' BY <1>1, EverythingDropped, BuildsForgotten
  <1>3. TaskHolds' BY <1>1 DEF TaskHolds, IdleTask
  <1>4. WorldHolds' /\ SnapsHold' BY <1>1 DEF CodeInv, WorldHolds, SnapsHold
  <1> QED BY <1>1, <1>2, <1>3, <1>4, CallsStay DEF CodeInv

LEMMA OwnerDeleted ==
  ASSUME CodeInv, TaskDeletes
  PROVE  CodeInv'
  <1>1. UNCHANGED <<world, held, kept, cbuilds, ccalls>> BY DEF TaskDeletes
  <1>2. SnapsHold'
    <2>1. PICK arrives \in BOOLEAN : snaps' = IF arrives THEN <<>> ELSE snaps BY DEF TaskDeletes
    <2> QED BY <2>1 DEF CodeInv, SnapsHold
  <1>3. TaskHolds'
    <2>1. DOMAIN task = DOMAIN IdleTask BY DEF CodeInv, TaskHolds
    <2>2. CASE stored # Nothing /\ stored.on
      <3> DEFINE y == [task EXCEPT !.at = "resolving", !.docs = stored.docs, !.asked = head]
      <3>1. task' = y BY <2>2 DEF TaskDeletes
      <3>2. DOMAIN y = DOMAIN IdleTask /\ y.at = "resolving" /\ y.docs = stored.docs /\ y.asked = head BY <2>1 DEF IdleTask
      <3>3. stored.docs \in Docs /\ head \in been BY <2>2 DEF CodeInv, WorldHolds
      <3> HIDE DEF y
      <3> QED BY <1>1, <3>1, <3>2, <3>3 DEF TaskHolds, world
    <2>3. CASE ~(stored # Nothing /\ stored.on) BY <2>3 DEF TaskDeletes, TaskHolds, IdleTask
    <2> QED BY <2>2, <2>3
  <1>4. WorldHolds' BY <1>1 DEF CodeInv, WorldHolds, world
  <1> QED BY <1>1, <1>2, <1>3, <1>4, StateStays, BuildsStay, CallsStay DEF CodeInv, world

LEMMA RefResolved ==
  ASSUME CodeInv, TaskResolves
  PROVE  CodeInv'
  <1>1. task.at = "resolving" /\ UNCHANGED <<world, snaps, kept, cbuilds, ccalls>> BY DEF TaskResolves
  <1>2. WorldHolds' /\ SnapsHold' BY <1>1 DEF CodeInv, WorldHolds, SnapsHold, world
  <1>3. CASE Resolved("failed") /\ UNCHANGED <<current, failed>> /\ task' = IdleTask
    <2>1. failed' \subseteq SnapKey BY <1>3 DEF CodeInv, StateHolds
    <2>2. StateHolds' BY <1>1, <1>3, <2>1, ResolutionSet DEF world
    <2>3. TaskHolds' BY <1>3 DEF TaskHolds, IdleTask
    <2> QED BY <1>1, <1>2, <2>2, <2>3, BuildsStay, CallsStay DEF CodeInv, world
  <1>4. ASSUME NEW sha \in {task.asked, head}, Resolved(sha), failed' = {}, UNCHANGED current,
               task' = [task EXCEPT !.at = "asking", !.asked = sha]
        PROVE  CodeInv'
    <2> DEFINE y == [task EXCEPT !.at = "asking", !.asked = sha]
    <2>1. sha \in been /\ task.docs \in Docs /\ DOMAIN task = DOMAIN IdleTask BY <1>1, <1>4 DEF CodeInv, TaskHolds, WorldHolds
    <2>2. StateHolds' BY <1>1, <1>4, <2>1, ResolutionSet DEF world
    <2>3. task' = y BY <1>4
    <2>4. DOMAIN y = DOMAIN IdleTask /\ y.at = "asking" /\ y.docs = task.docs /\ y.asked = sha BY <2>1 DEF IdleTask
    <2> HIDE DEF y
    <2>5. TaskHolds' BY <1>1, <2>1, <2>3, <2>4 DEF TaskHolds, world
    <2> QED BY <1>1, <1>2, <2>2, <2>5, BuildsStay, CallsStay DEF CodeInv, world
  <1> QED BY <1>3, <1>4 DEF TaskResolves

LEMMA IndexBuilt ==
  ASSUME CodeInv, TaskBuilds
  PROVE  CodeInv'
  <1>1. task.at = "asking" /\ task' = IdleTask /\ UNCHANGED <<world, snaps, held, kept, ccalls>> BY DEF TaskBuilds
  <1>2. WorldHolds' /\ SnapsHold' BY <1>1 DEF CodeInv, WorldHolds, SnapsHold, world
  <1>3. BuildsHold'
    <2>1. CASE UNCHANGED cbuilds BY <2>1, BuildsStay
    <2>2. CASE \E b \in CodeBuild : StartBuild(b, <<task.docs, task.asked>>, TRUE)
      <3>1. task.docs \in Docs /\ task.asked \in Sha BY <1>1 DEF CodeInv, TaskHolds, WorldHolds
      <3>2. <<task.docs, task.asked>> \in SnapKey BY <3>1, Keys
      <3> QED BY <2>2, <3>2, BuildAsked
    <2> QED BY <2>1, <2>2 DEF TaskBuilds
  <1>4. TaskHolds' BY <1>1 DEF TaskHolds, IdleTask
  <1> QED BY <1>1, <1>2, <1>3, <1>4, StateStays, CallsStay DEF CodeInv, world

-----------------------------------------------------------------------------
\* The reconciliation and the world.
LEMMA SnapshotsGo ==
  ASSUME CodeInv, NEW gone, snaps' = [x \in DOMAIN snaps \ gone |-> snaps[x]]
  PROVE  SnapsHold'
  BY DEF CodeInv, SnapsHold

LEMMA Swept ==
  ASSUME CodeInv, SweepLists \/ SweepCompares \/ SweepDeletes \/ SidecarLoses
  PROVE  CodeInv'
  <1>1. UNCHANGED <<world, held, kept, cbuilds, ccalls, task>>
    BY DEF SweepLists, SweepCompares, SweepDeletes, SidecarLoses
  <1>2. SnapsHold'
    <2>1. CASE UNCHANGED snaps BY <2>1 DEF CodeInv, SnapsHold
    <2>2. CASE \E k : snaps' = [x \in DOMAIN snaps \ {k} |-> snaps[x]] BY <2>2, SnapshotsGo
    <2> QED BY <2>1, <2>2 DEF SweepLists, SweepCompares, SweepDeletes, SidecarLoses
  <1>3. WorldHolds' /\ TaskHolds' BY <1>1 DEF CodeInv, WorldHolds, TaskHolds, world
  <1> QED BY <1>1, <1>2, <1>3, StateStays, BuildsStay, CallsStay DEF CodeInv, world

\* A push only adds to the commits the ref has named.
LEMMA RefMoved ==
  ASSUME CodeInv, HeadMoves
  PROVE  CodeInv'
  <1>1. been \subseteq been' /\ UNCHANGED <<stored, snaps, held, kept, cbuilds, ccalls, task>> BY DEF HeadMoves
  <1>2. WorldHolds' BY DEF HeadMoves, CodeInv, WorldHolds
  <1>3. SnapsHold' /\ TaskHolds' /\ BuildsHold' BY <1>1 DEF CodeInv, SnapsHold, TaskHolds, BuildsHold
  <1>4. StateHolds' BY <1>1 DEF CodeInv, StateHolds, CurrentIsConfigured, held
  <1>5. CallsHold'
    <2>1. ASSUME NEW c \in CodeCall PROVE CallHolds(ccalls[c], been')
      <3>1. CallHolds(ccalls[c], been) BY CallFields
      <3> QED BY <1>1, <3>1 DEF CallHolds
    <2>2. ccalls = [c \in CodeCall |-> ccalls[c]] BY DEF CodeInv, CallsHold
    <2> QED BY <1>1, <2>1, <2>2 DEF CallsHold
  <1> QED BY <1>2, <1>3, <1>4, <1>5 DEF CodeInv

LEMMA TimePassed ==
  ASSUME CodeInv, IntervalPasses \/ SidecarFound
  PROVE  CodeInv'
  <1>1. UNCHANGED <<stored, head, been, snaps, resolved, current, kept, cbuilds, ccalls, task>>
        /\ resolution' \in {resolution, Nothing} /\ failed' \subseteq failed
    BY DEF IntervalPasses, SidecarFound, held
  <1>2. StateHolds' BY <1>1 DEF CodeInv, StateHolds, CurrentIsConfigured
  <1>3. WorldHolds' /\ TaskHolds' /\ SnapsHold' BY <1>1 DEF CodeInv, WorldHolds, TaskHolds, SnapsHold
  <1> QED BY <1>1, <1>2, <1>3, BuildsStay, CallsStay DEF CodeInv

LEMMA Restarted ==
  ASSUME CodeInv, VaultgateRestarts
  PROVE  CodeInv'
  <1>1. UNCHANGED <<stored, head, been, snaps, kept>> /\ resolution' = Nothing /\ resolved' = Nothing /\ failed' = {}
        /\ current' = kept /\ cbuilds' = [b \in CodeBuild |-> NewBuild] /\ task' = IdleTask
        /\ ccalls' = [c \in CodeCall |-> IF ccalls[c].at \in {"idle", "answered"} THEN ccalls[c]
                                          ELSE [IdleCall EXCEPT !.at = "failed"]]
    BY DEF VaultgateRestarts
  <1>2. StateHolds' BY <1>1 DEF CodeInv, StateHolds, CurrentIsConfigured
  <1>3. WorldHolds' /\ SnapsHold' BY <1>1 DEF CodeInv, WorldHolds, SnapsHold
  <1>4. TaskHolds' BY <1>1 DEF TaskHolds, IdleTask
  <1>5. BuildsHold' BY <1>1 DEF BuildsHold, BuildHolds, NewBuild
  <1>6. CallsHold'
    <2>1. \A c \in CodeCall : CallHolds(ccalls[c], been) /\ CallHolds([IdleCall EXCEPT !.at = "failed"], been)
      BY CallFields, IdleCallHolds
    <2>2. \A c \in CodeCall : CallHolds(ccalls'[c], been) BY <1>1, <2>1
    <2> QED BY <1>1, <2>2 DEF CallsHold
  <1> QED BY <1>2, <1>3, <1>4, <1>5, <1>6 DEF CodeInv

LEMMA CodeStutters ==
  ASSUME CodeInv, UNCHANGED codeVars
  PROVE  CodeInv'
  <1>1. UNCHANGED <<world, held, kept, snaps, cbuilds, ccalls, task>> BY DEF codeVars
  <1>2. WorldHolds' /\ TaskHolds' /\ SnapsHold' BY <1>1 DEF CodeInv, WorldHolds, TaskHolds, SnapsHold, world
  <1> QED BY <1>1, <1>2, StateStays, BuildsStay, CallsStay DEF CodeInv, world

LEMMA CallStepKeeps ==
  ASSUME CodeInv, NEW c \in CodeCall, CallBegins(c) \/ CallSteps(c)
  PROVE  CodeInv'
  BY CallAdmitted, RefAsked, NotResolved, MovedAnswered, CommitAnswered, SnapshotFound, BuildAwaited, CallGone,
     SnapshotBuilt, SnapshotRead, SnapshotGone, Zenon DEF CallSteps

LEMMA CodeStepKeeps == CodeInv /\ [CodeNext]_codeVars => CodeInv'
  <1> SUFFICES ASSUME CodeInv, [CodeNext]_codeVars PROVE CodeInv' OBVIOUS
  <1>1. ASSUME NEW c \in CodeCall, CallBegins(c) \/ CallSteps(c) PROVE CodeInv' BY <1>1, CallStepKeeps
  <1>2. ASSUME NEW b \in CodeBuild, BuildBegins(b) \/ BuildEnds(b) PROVE CodeInv' BY <1>2, BuildWorks, BuildFinishes
  <1>3. CASE Save \/ Rebuild \/ RemoveTarget BY <1>3, TargetSaved, IndexRebuilt, TargetRemoved
  <1>4. CASE TaskDeletes \/ TaskResolves \/ TaskBuilds BY <1>4, OwnerDeleted, RefResolved, IndexBuilt
  <1>5. CASE SweepLists \/ SweepCompares \/ SweepDeletes \/ SidecarLoses BY <1>5, Swept
  <1>6. CASE HeadMoves BY <1>6, RefMoved
  <1>7. CASE IntervalPasses \/ SidecarFound BY <1>7, TimePassed
  <1>8. CASE VaultgateRestarts BY <1>8, Restarted
  <1>9. CASE UNCHANGED codeVars BY <1>9, CodeStutters
  <1> QED BY <1>1, <1>2, <1>3, <1>4, <1>5, <1>6, <1>7, <1>8, <1>9, Zenon DEF CodeNext

LEMMA CodeInvSuffices == CodeInv => IndexSound /\ CodeTypeOK
  <1> SUFFICES ASSUME CodeInv PROVE IndexSound /\ CodeTypeOK OBVIOUS
  <1>1. \A c \in CodeCall : CallHolds(ccalls[c], been) BY CallFields
  <1>2. ReadAsAuthorized BY <1>1 DEF ReadAsAuthorized, CallHolds, CodeInv, SnapsHold
  <1>3. PreparedTwice BY <1>1 DEF PreparedTwice, CallHolds
  <1>4. CurrentIsConfigured BY DEF CodeInv, StateHolds
  <1>5. CodeTypeOK
    <2>1. been \subseteq Sha /\ stored \in [docs : Docs, on : BOOLEAN] \cup {Nothing} BY DEF CodeInv, WorldHolds
    <2>2. resolution \in Sha \cup {"failed", Nothing} /\ current \in SnapKey \cup {Nothing} /\ failed \subseteq SnapKey
      BY <2>1 DEF CodeInv, StateHolds
    <2>3. kept \in SnapKey \cup {Nothing} BY <1>4, <2>2 DEF CurrentIsConfigured
    <2>4. DOMAIN snaps \subseteq SnapKey BY DEF CodeInv, SnapsHold
    <2> QED BY <2>1, <2>2, <2>3, <2>4 DEF CodeTypeOK
  <1> QED BY <1>2, <1>3, <1>4, <1>5 DEF IndexSound

\* Whatever calls, builds, saves, deletions, evictions and restarts interleave: no call reads a snapshot that was
\* extracted under other documents than those it was let in with, none prepares it more than twice, and the
\* snapshot the target is answered from is of a commit its ref has named and is the one the database kept.
THEOREM IndexIsSound == CodeSpec => []IndexSound
  <1>1. CodeInv /\ [CodeNext]_codeVars => CodeInv' BY CodeStepKeeps
  <1>2. CodeInv => IndexSound BY CodeInvSuffices
  <1> QED BY CodeBegins, <1>1, <1>2, PTL DEF CodeSpec

\* The type invariant of the index, for any documents, commits, calls and builds.
THEOREM CodeTypes == CodeSpec => []CodeTypeOK
  <1>1. CodeInv /\ [CodeNext]_codeVars => CodeInv' BY CodeStepKeeps
  <1>2. CodeInv => CodeTypeOK BY CodeInvSuffices
  <1> QED BY CodeBegins, <1>1, <1>2, PTL DEF CodeSpec

-----------------------------------------------------------------------------
(* What is left of a list of the sidecar's.                                *)

\* Only(s, S) holds what of s is in S, and less than all when something is not.
LEMMA OnlyIs ==
  ASSUME NEW T, NEW s \in Seq(T), NEW S
  PROVE  /\ Only(s, S) \in Seq(T)
         /\ Elements(Only(s, S)) = Elements(s) \cap S
         /\ Len(Only(s, S)) <= Len(s)
         /\ (\E x \in Elements(s) : x \notin S) => Len(Only(s, S)) < Len(s)
  <1> DEFINE D == {i \in DOMAIN s : s[i] \in S}
             k == Kept(s, D)
             c == Cardinality(D)
             n == Len(s)
  <1>1. n \in Nat /\ DOMAIN s = 1..n /\ \A i \in 1..n : s[i] \in T OBVIOUS
  <1>2. D \in SUBSET (1..n) OBVIOUS
  <1>3. KeepsOf(k, s, D) BY <1>1, <1>2, KeptIs
  <1>4. \A i \in 1..n : i \in D <=> s[i] \in S OBVIOUS
  <1>5. k = [i \in 1..c |-> k[i]] BY DEF Kept
  <1> HIDE DEF D, k, n
  <1>6. IsFiniteSet(1..n) /\ Cardinality(1..n) = n
    <2>1. 1 \in Int /\ n \in Int /\ (1 > n => n = 0) BY <1>1
    <2> QED BY <2>1, FS_Interval
  <1>7. c \in Nat /\ c <= n /\ (c = n => D = 1..n) BY <1>1, <1>2, <1>6, <1>3, FS_Subset DEF KeepsOf
  <1> HIDE DEF c
  <1>8. DOMAIN k = 1..c /\ Len(k) = c BY <1>3 DEF KeepsOf, c
  <1>9. \A i \in 1..c : \E j \in D : k[i] = s[j] BY <1>3 DEF KeepsOf, c
  <1>10. \A j \in D : \E i \in 1..c : k[i] = s[j] BY <1>3 DEF KeepsOf, c
  <1>11. \A i \in 1..c : k[i] \in T BY <1>1, <1>2, <1>9
  <1>12. k \in Seq(T) BY <1>5, <1>7, <1>11
  <1>13. Elements(k) = Elements(s) \cap S
    <2>1. ASSUME NEW x \in Elements(k) PROVE x \in Elements(s) \cap S
      <3>1. PICK i \in 1..c : x = k[i] BY <1>8 DEF Elements
      <3>2. PICK j \in D : k[i] = s[j] BY <1>9
      <3> QED BY <3>1, <3>2, <1>1, <1>2, <1>4 DEF Elements
    <2>2. ASSUME NEW x \in Elements(s), x \in S PROVE x \in Elements(k)
      <3>1. PICK j \in 1..n : x = s[j] BY <1>1 DEF Elements
      <3>2. j \in D BY <3>1, <2>2, <1>4
      <3> QED BY <3>1, <3>2, <1>10, <1>8 DEF Elements
    <2> QED BY <2>1, <2>2
  <1>14. ASSUME NEW x \in Elements(s), x \notin S PROVE c < n
    <2>1. PICK j \in 1..n : x = s[j] BY <1>1 DEF Elements
    <2>2. j \notin D BY <2>1, <1>14, <1>4
    <2> QED BY <2>2, <1>7, <1>1
  <1>15. k = Only(s, S) BY DEF k, D, Only
  <1> QED BY <1>7, <1>8, <1>12, <1>13, <1>14, <1>15 DEF n

\* Who is moved to the end is there once.
LEMMA MovedIs ==
  ASSUME NEW T, NEW s \in Seq(T), NEW x \in T
  PROVE  /\ Moved(s, x) \in Seq(T)
         /\ Elements(Moved(s, x)) = Elements(s) \cup {x}
         /\ x \in Elements(s) => Len(Moved(s, x)) <= Len(s)
  <1> DEFINE o == Only(s, Elements(s) \ {x})
  <1>1. o \in Seq(T) /\ Elements(o) = Elements(s) \cap (Elements(s) \ {x}) BY OnlyIs
  <1>2. x \in Elements(s) => Len(o) < Len(s) BY OnlyIs
  <1> HIDE DEF o
  <1>3. Moved(s, x) = Append(o, x) BY DEF Moved, o
  <1>4. Append(o, x) \in Seq(T) /\ Len(Append(o, x)) = Len(o) + 1 /\ Len(o) \in Nat /\ Len(s) \in Nat BY <1>1
  <1>5. Elements(Append(o, x)) = Elements(o) \cup {x}
    <2>1. DOMAIN Append(o, x) = 1..(Len(o) + 1) /\ DOMAIN o = 1..Len(o) BY <1>1
    <2>2. Append(o, x)[Len(o) + 1] = x /\ \A i \in 1..Len(o) : Append(o, x)[i] = o[i] BY <1>1
    <2>3. \A i \in 1..(Len(o) + 1) : i = Len(o) + 1 \/ i \in 1..Len(o) BY <1>4
    <2>4. Len(o) + 1 \in 1..(Len(o) + 1) /\ \A i \in 1..Len(o) : i \in 1..(Len(o) + 1) BY <1>4
    <2> QED BY <2>1, <2>2, <2>3, <2>4 DEF Elements
  <1> QED BY <1>1, <1>2, <1>3, <1>4, <1>5

\* Who goes to make room is a candidate, and what stays fits with what comes.
LEMMA StaysIs ==
  ASSUME lru \in Seq(SKey), NEW candidates, NEW bytes, NEW count, NEW stay \in Stays(candidates, bytes, count)
  PROVE  stay \subseteq OnDisk /\ OnDisk \ stay \subseteq candidates /\ Fits(stay, bytes, count)
  <1> DEFINE out == Only(lru, candidates)
  <1>1. out \in Seq(SKey) /\ Elements(out) = Elements(lru) \cap candidates BY OnlyIs
  <1>2. PICK n \in 0..Len(out) : Fits(OnDisk \ {out[i] : i \in 1..n}, bytes, count) /\ stay = OnDisk \ {out[i] : i \in 1..n}
    BY DEF Stays
  <1> HIDE DEF out
  <1>3. \A i \in 1..n : out[i] \in candidates
    <2> TAKE i \in 1..n
    <2>1. i \in DOMAIN out BY <1>1
    <2> QED BY <2>1, <1>1 DEF Elements
  <1> QED BY <1>2, <1>3

\* What a load or a merge leaves in memory is within the budget or spared.
LEMMA TrimmedIs ==
  ASSUME NEW T, NEW m \in Seq(T), NEW spared, NEW t \in Trimmed(m, spared)
  PROVE  /\ t \in Seq(T) /\ Elements(t) \subseteq Elements(m)
         /\ Len(t) <= SearchBudget \/ Elements(t) \subseteq spared
  <1> DEFINE victims == Only(m, Elements(m) \ spared)
             Left(n) == Only(m, {e \in Elements(m) : \A i \in 1..n : ~GoesWith(e, victims[i])})
  <1>1. victims \in Seq(T) /\ Elements(victims) = Elements(m) \cap (Elements(m) \ spared) BY OnlyIs
  <1>2. PICK n \in 0..Len(victims) : t = Left(n) /\ (n = Len(victims) \/ Len(t) <= SearchBudget)
    BY DEF Trimmed
  <1>3. t \in Seq(T) /\ Elements(t) = Elements(m) \cap {e \in Elements(m) : \A i \in 1..n : ~GoesWith(e, victims[i])}
    BY <1>2, OnlyIs
  <1> HIDE DEF victims
  <1>4. ASSUME n = Len(victims), NEW e \in Elements(t) PROVE e \in spared
    <2> SUFFICES ASSUME e \notin spared PROVE FALSE OBVIOUS
    <2>1. e \in Elements(victims) BY <1>1, <1>3, <1>4
    <2>2. PICK i \in 1..Len(victims) : e = victims[i] BY <2>1, <1>1 DEF Elements
    <2>3. GoesWith(e, victims[i]) BY <2>2 DEF GoesWith
    <2> QED BY <2>2, <2>3, <1>3, <1>4
  <1> QED BY <1>2, <1>3, <1>4
-----------------------------------------------------------------------------
(* The sidecar's requests.                                                 *)

Object == Req \cup SKey
Held == UNION {[ks -> Object] : ks \in SUBSET SKey}
\* A put runs its flight from "look" to "land"; it has its name on the build from "extract" on, and is over
\* with the disk from "leave" on.
Building == {"extract", "slot", "child", "install", "leave"}
Running == {"look", "register", "land"} \cup Building
Over == {"leave", "land", "done"}
\* A delete has a key at hand from one pop to the next, and before "remove" it has found a build of it.
Removing == {"cancel", "forget", "remove", "drop", "next"}
Parting == {"mem", "build", "slot", "child", "add", "land", "load", "keep", "loaded", "joined", "flown"}
Places == {"idle", "list", "pop", "want", "merge", "touch", "release", "done"} \cup Running \cup Removing \cup Parting
Ends == {"none", "ok", "built", "loaded", "failed", "missing"}
Request == [op : {"none", "put", "delete", "query"}, at : Places, keys : SUBSET SKey, key : SKey \cup {None},
            id : Object \cup {None}, held : Held, on : {None} \cup (Req \X FlightName), got : SUBSET SKey, end : Ends]

\* What a request holds by its kind, were it to stand at "at".
PutStands(q, at, r) ==
  /\ q.key \in SKey
  /\ at \in {"joined", "done"} \cup Running
  /\ at \in Building => q.id = r
DeleteStands(q, at) ==
  /\ at \in {"list", "pop", "done"} \cup Removing
  /\ at \in Removing => q.key \in SKey
QueryStands(q, at) ==
  /\ at \in {"want", "merge", "touch", "release", "done"} \cup Parting
  /\ at # "done" => DOMAIN q.held = q.keys
  /\ at \in Parting => q.key \in q.keys /\ q.id \in Object
Stands(q, at, r) ==
  /\ q.op = "none" <=> at = "idle"
  /\ q.op = "put" => PutStands(q, at, r)
  /\ q.op = "delete" => DeleteStands(q, at)
  /\ q.op = "query" => QueryStands(q, at)
Shape(q, r) == q \in Request /\ Stands(q, q.at, r)
ReqsOK == req \in [Req -> Request] /\ \A r \in Req : Shape(req[r], r)

PutOf(rs, r, k) == r \in Req /\ rs[r].op = "put" /\ rs[r].key = k
PutOver(rs, r) == rs[r].op = "put" /\ rs[r].at \in Over
DeleteAt(rs, d, k, ats) == rs[d].op = "delete" /\ rs[d].key = k /\ rs[d].at \in ats

\* What is on disk under a key was found there or is of a put of that key that has installed it, and so is what has
\* the variant.
DiskOK ==
  /\ disk \in [SKey -> Object \cup {None}] /\ lru \in Seq(SKey)
  /\ \A k \in SKey : disk[k] # None <=> k \in Elements(lru)
  /\ \A k \in SKey : disk[k] = k \/ disk[k] = None \/ (PutOf(req, disk[k], k) /\ PutOver(req, disk[k]))
  /\ indexed \subseteq Object
  /\ \A r \in Req \cap indexed : PutOver(req, r)
RoomOK == Fits(OnDisk, 0, 0)
\* The map of builds has puts of the key.
BuildingOK == building \in [SKey -> Req \cup {None}] /\ \A k \in SKey : building[k] = None \/ PutOf(req, building[k], k)
\* A build that a DELETE found is cancelled or about to be.
AskedOK ==
  /\ cancelled \subseteq Object /\ asked \subseteq Req
  /\ \A b \in asked : /\ req[b].op = "put"
                      /\ b \in cancelled \/ \E d \in Req : DeleteAt(req, d, req[b].key, {"cancel"}) /\ req[d].id = b
\* And a DELETE that has found one holds it.
FindersOK ==
  \A d \in Req : req[d].op = "delete" /\ req[d].at \in {"cancel", "forget"} =>
    req[d].id \in asked /\ PutOf(req, req[d].id, req[d].key)
GoneOK == \A k \in SKey : disk[k] \in asked => \E d \in Req : DeleteAt(req, d, k, {"cancel", "forget", "remove"})
\* A put that runs is the flight of its key, or a DELETE of a build of the key has come.
FlightOK ==
  /\ flight \in [FlightName -> Req \cup {None}]
  /\ \A r \in Req : req[r].op = "put" /\ req[r].at \in Running =>
       flight[<<"snapshot", req[r].key>>] = r \/ \E b \in asked : req[b].key = req[r].key
SlotsOK == Cardinality(Children) <= Concurrency
MemOK == mem \in Seq(SUBSET SKey) /\ BudgetKept

SidecarInv ==
  ReqsOK /\ DiskOK /\ RoomOK /\ BuildingOK /\ AskedOK /\ FindersOK /\ GoneOK /\ FlightOK /\ SlotsOK /\ MemOK
-----------------------------------------------------------------------------
(* What the steps leave be.                                                *)

\* How a request goes on: a put stays the put of its key and is not back from the disk, a put runs from its start,
\* a delete at work on a build is left alone, a query reads the keys it did, and no child starts.
PutOn(p, q) == p.op = "put" => q.op = "put" /\ q.key = p.key /\ (p.at \in Over => q.at \in Over)
NoRun(p, q) == q.op = "put" /\ q.at \in Running => p.op = "put" /\ p.at \in Running
Finding == {"cancel", "forget", "remove"}
FindOn(p, q) ==
  (p.op = "delete" /\ p.at \in Finding) \/ (q.op = "delete" /\ q.at \in {"cancel", "forget"}) => q = p
QueryOn(p, q) == p.op = "query" => q.op = "query" /\ q.keys = p.keys
NoChild(p, q) == q.at = "child" => p.at = "child"

PutsOn == \A q \in Req : PutOn(req[q], req'[q])
NoRuns == \A q \in Req : NoRun(req[q], req'[q])
FindsOn == \A q \in Req : FindOn(req[q], req'[q])
QueriesOn == \A q \in Req : QueryOn(req[q], req'[q])
NoChilds == \A q \in Req : NoChild(req[q], req'[q])

\* A put of a key stays one.
LEMMA PutsStay ==
  ASSUME PutsOn, NEW r, NEW k, PutOf(req, r, k)
  PROVE  PutOf(req', r, k) /\ (PutOver(req, r) => PutOver(req', r))
  BY DEF PutsOn, PutOn, PutOf, PutOver

\* The disk is left alone.
LEMMA DiskStays ==
  ASSUME DiskOK, PutsOn, UNCHANGED <<disk, lru, indexed>>
  PROVE  DiskOK'
  <1>1. \A k \in SKey : disk'[k] = k \/ disk'[k] = None \/ (PutOf(req', disk'[k], k) /\ PutOver(req', disk'[k]))
    <2> TAKE k \in SKey
    <2>1. disk[k] = k \/ disk[k] = None \/ (PutOf(req, disk[k], k) /\ PutOver(req, disk[k])) BY DEF DiskOK
    <2>2. CASE PutOf(req, disk[k], k) /\ PutOver(req, disk[k])
      <3>1. PutOf(req', disk[k], k) /\ PutOver(req', disk[k]) BY <2>2, PutsStay
      <3> QED BY <3>1
    <2> QED BY <2>1, <2>2
  <1>2. \A r \in Req \cap indexed : PutOver(req', r)
    <2> TAKE r \in Req \cap indexed
    <2>1. PutOver(req, r) BY DEF DiskOK
    <2>2. PutOf(req, r, req[r].key) BY <2>1 DEF PutOf, PutOver
    <2> QED BY <2>1, PutsOn DEF PutsOn, PutOn, PutOver
  <1> QED BY <1>1, <1>2 DEF DiskOK, PutOf, PutOver

LEMMA RoomStays ==
  ASSUME RoomOK, UNCHANGED <<disk, indexed>>
  PROVE  RoomOK'
  BY DEF RoomOK, Fits, Storage, OnDisk

LEMMA BuildingStays ==
  ASSUME BuildingOK, PutsOn, building' = building
  PROVE  BuildingOK'
  <1>1. ASSUME NEW k \in SKey PROVE building'[k] = None \/ PutOf(req', building'[k], k)
    <2>1. building[k] = None \/ PutOf(req, building[k], k) BY DEF BuildingOK
    <2> QED BY <2>1 DEF PutOf, PutsOn, PutOn
  <1> QED BY <1>1 DEF BuildingOK, PutOf

LEMMA AskedStays ==
  ASSUME AskedOK, FindersOK, PutsOn, FindsOn, asked' = asked, cancelled \subseteq cancelled', cancelled' \subseteq Object
  PROVE  AskedOK' /\ FindersOK'
  <1>1. ASSUME NEW b \in asked
        PROVE  /\ req'[b].op = "put"
               /\ b \in cancelled' \/ \E d \in Req : DeleteAt(req', d, req[b].key, {"cancel"}) /\ req'[d].id = b
    <2>1. b \in Req /\ req[b].op = "put" /\ (b \in cancelled \/ \E d \in Req : DeleteAt(req, d, req[b].key, {"cancel"}) /\ req[d].id = b)
      BY DEF AskedOK
    <2>2. req'[b].op = "put" /\ req'[b].key = req[b].key BY <2>1 DEF PutsOn, PutOn
    <2>3. ASSUME NEW d \in Req, DeleteAt(req, d, req[b].key, {"cancel"}), req[d].id = b
          PROVE  DeleteAt(req', d, req[b].key, {"cancel"}) /\ req'[d].id = b
      <3>1. req'[d] = req[d] BY <2>3 DEF FindsOn, FindOn, DeleteAt, Finding
      <3> QED BY <3>1, <2>2, <2>3 DEF DeleteAt
    <2> QED BY <2>1, <2>2, <2>3
  <1>2. ASSUME NEW d \in Req, req'[d].op = "delete", req'[d].at \in {"cancel", "forget"}
        PROVE  req'[d].id \in asked /\ PutOf(req', req'[d].id, req'[d].key)
    <2>1. req'[d] = req[d] BY <1>2 DEF FindsOn, FindOn
    <2>2. req[d].id \in asked /\ PutOf(req, req[d].id, req[d].key) BY <1>2, <2>1 DEF FindersOK
    <2> QED BY <2>1, <2>2 DEF PutOf, PutsOn, PutOn
  <1>3. AskedOK'
    <2>1. ASSUME NEW b \in asked PROVE req'[b].key = req[b].key BY DEF AskedOK, PutsOn, PutOn
    <2> QED BY <1>1, <2>1 DEF AskedOK, DeleteAt
  <1> QED BY <1>2, <1>3 DEF FindersOK, PutOf

LEMMA GoneStays ==
  ASSUME GoneOK, AskedOK, FindsOn, asked' = asked, \A k \in SKey : disk'[k] \in {disk[k], None} \/ disk'[k] \notin asked
  PROVE  GoneOK'
  <1> SUFFICES ASSUME NEW k \in SKey, disk'[k] \in asked
               PROVE  \E d \in Req : DeleteAt(req', d, k, {"cancel", "forget", "remove"})
    BY DEF GoneOK, DeleteAt
  <1>1. None \notin asked BY SidecarAssumption DEF AskedOK
  <1>2. disk[k] \in asked BY <1>1
  <1>3. PICK d \in Req : DeleteAt(req, d, k, {"cancel", "forget", "remove"}) BY <1>2 DEF GoneOK
  <1>4. req'[d] = req[d] BY <1>3 DEF FindsOn, FindOn, DeleteAt, Finding
  <1> QED BY <1>3, <1>4 DEF DeleteAt

LEMMA FlightStays ==
  ASSUME FlightOK, AskedOK, PutsOn, NoRuns, asked \subseteq asked', flight' \in [FlightName -> Req \cup {None}],
         \A k \in SKey : flight'[<<"snapshot", k>>] = flight[<<"snapshot", k>>] \/ \E b \in asked : req[b].key = k,
         \A r \in Req : req[r].op = "put" => req[r].key \in SKey
  PROVE  FlightOK'
  <1> SUFFICES ASSUME NEW r \in Req, req'[r].op = "put", req'[r].at \in Running
               PROVE  flight'[<<"snapshot", req'[r].key>>] = r \/ \E b \in asked' : req'[b].key = req'[r].key
    BY DEF FlightOK
  <1>1. req[r].op = "put" /\ req[r].at \in Running BY DEF NoRuns, NoRun
  <1>2. req'[r].key = req[r].key /\ req[r].key \in SKey BY <1>1 DEF PutsOn, PutOn
  <1>3. flight[<<"snapshot", req[r].key>>] = r \/ \E b \in asked : req[b].key = req[r].key BY <1>1 DEF FlightOK
  <1>4. flight'[<<"snapshot", req[r].key>>] = r \/ \E b \in asked : req[b].key = req[r].key BY <1>2, <1>3
  <1>5. \A b \in asked : b \in asked' /\ req'[b].key = req[b].key BY DEF AskedOK, PutsOn, PutOn
  <1> QED BY <1>2, <1>4, <1>5

LEMMA SlotsStay ==
  ASSUME SlotsOK, NoChilds
  PROVE  SlotsOK'
  <1> DEFINE C == Children
             D == {r \in Req : req'[r].at = "child"}
  <1>1. D \subseteq C BY DEF NoChilds, NoChild, Children
  <1>2. IsFiniteSet(C) BY SidecarAssumption, FS_Subset DEF Children
  <1>3. Cardinality(C) <= Concurrency BY DEF SlotsOK
  <1>4. Children' = D BY DEF Children
  <1> HIDE DEF C, D
  <1>5. Cardinality(D) <= Cardinality(C) /\ IsFiniteSet(D) BY <1>1, <1>2, FS_Subset
  <1>6. Cardinality(D) \in Nat /\ Cardinality(C) \in Nat BY <1>2, <1>5, FS_CardinalityType
  <1> QED BY <1>3, <1>4, <1>5, <1>6, SidecarAssumption DEF SlotsOK

LEMMA MemStays ==
  ASSUME MemOK, QueriesOn, mem' \in Seq(SUBSET SKey), Elements(mem') \subseteq Elements(mem), Len(mem') <= Len(mem)
  PROVE  MemOK'
  <1>1. mem \in Seq(SUBSET SKey) /\ BudgetKept BY DEF MemOK
  <1>2. CASE Len(mem) <= SearchBudget
    <2>1. Len(mem) \in Nat /\ Len(mem') \in Nat /\ SearchBudget \in Nat BY <1>1, SidecarAssumption
    <2> QED BY <2>1, <1>2 DEF MemOK, BudgetKept
  <1>3. CASE \E r \in Req : req[r].op = "query" /\ \A e \in Elements(mem) : e \subseteq req[r].keys
    <2>1. PICK r \in Req : req[r].op = "query" /\ \A e \in Elements(mem) : e \subseteq req[r].keys BY <1>3
    <2>2. req'[r].op = "query" /\ req'[r].keys = req[r].keys BY <2>1 DEF QueriesOn, QueryOn
    <2>3. \A e \in Elements(mem') : e \subseteq req'[r].keys BY <2>1, <2>2
    <2>4. Elements(mem)' = Elements(mem') BY DEF Elements
    <2> QED BY <2>2, <2>3, <2>4 DEF MemOK, BudgetKept
  <1> QED BY <1>1, <1>2, <1>3 DEF BudgetKept
-----------------------------------------------------------------------------
(* One request moves.                                                      *)

Alike(p, q) == q.op = p.op /\ q.keys = p.keys /\ q.key = p.key /\ q.id = p.id /\ q.held = p.held

\* What one request becomes decides how all go on.
LEMMA Changes ==
  ASSUME ReqsOK, NEW r \in Req, NEW y, req' = [req EXCEPT ![r] = y], Shape(y, r)
  PROVE  /\ ReqsOK' /\ req'[r] = y /\ \A q \in Req : q # r => req'[q] = req[q]
         /\ PutOn(req[r], y) => PutsOn
         /\ NoRun(req[r], y) => NoRuns
         /\ FindOn(req[r], y) => FindsOn
         /\ QueryOn(req[r], y) => QueriesOn
         /\ NoChild(req[r], y) => NoChilds
  <1>1. req \in [Req -> Request] /\ y \in Request BY DEF ReqsOK, Shape
  <1>2. req'[r] = y /\ req' \in [Req -> Request] /\ \A q \in Req : q # r => req'[q] = req[q] BY <1>1
  <1>3. \A q \in Req : Shape(req'[q], q) BY <1>2 DEF ReqsOK
  <1>4. ReqsOK' BY <1>2, <1>3 DEF ReqsOK, Shape, Stands, PutStands, DeleteStands, QueryStands, Request
  <1>5. \A q \in Req : q # r => /\ PutOn(req[q], req'[q]) /\ NoRun(req[q], req'[q]) /\ FindOn(req[q], req'[q])
                                /\ QueryOn(req[q], req'[q]) /\ NoChild(req[q], req'[q])
    BY <1>2 DEF PutOn, NoRun, FindOn, QueryOn, NoChild
  <1>6. PutOn(req[r], y) => PutsOn BY <1>2, <1>5 DEF PutsOn
  <1>7. NoRun(req[r], y) => NoRuns BY <1>2, <1>5 DEF NoRuns
  <1>8. FindOn(req[r], y) => FindsOn BY <1>2, <1>5 DEF FindsOn
  <1>9. QueryOn(req[r], y) => QueriesOn BY <1>2, <1>5 DEF QueriesOn
  <1>10. NoChild(req[r], y) => NoChilds BY <1>2, <1>5 DEF NoChilds
  <1> QED BY <1>2, <1>4, <1>6, <1>7, <1>8, <1>9, <1>10

\* A request whose kind, keys and build stay is of the shape of its place.
LEMMA AlikeStands ==
  ASSUME NEW r, NEW p, NEW y, y \in Request, Alike(p, y), Stands(p, y.at, r)
  PROVE  Shape(y, r)
  BY DEF Alike, Stands, PutStands, DeleteStands, QueryStands, Shape

\* The two ways a request is taken to another place.
LEMMA Ended ==
  ASSUME NEW q \in Request, NEW at \in Places, NEW end \in Ends
  PROVE  /\ [q EXCEPT !.at = at] \in Request /\ [q EXCEPT !.at = at].at = at /\ Alike(q, [q EXCEPT !.at = at])
         /\ [q EXCEPT !.at = at, !.end = end] \in Request /\ [q EXCEPT !.at = at, !.end = end].at = at
         /\ Alike(q, [q EXCEPT !.at = at, !.end = end])
  BY DEF Request, Alike

\* A step that only takes a request to another place, with an end or without.
LEMMA Moves ==
  ASSUME ReqsOK, NEW r \in Req, NEW at \in Places, NEW end \in Ends,
         req' = StepTo(r, at) \/ req' = EndsAt(r, at, end), Stands(req[r], at, r)
  PROVE  /\ ReqsOK' /\ req'[r].at = at /\ Alike(req[r], req'[r])
         /\ \A q \in Req : q # r => req'[q] = req[q]
         /\ (req[r].op = "put" /\ req[r].at \in Over => at \in Over) => PutsOn
         /\ (req[r].op = "put" /\ at \in Running => req[r].at \in Running) => NoRuns
         /\ (req[r].op = "delete" => req[r].at \notin Finding /\ at \notin {"cancel", "forget"}) => FindsOn
         /\ QueriesOn
         /\ (at = "child" => req[r].at = "child") => NoChilds
  <1> DEFINE Y == {[req[r] EXCEPT !.at = at], [req[r] EXCEPT !.at = at, !.end = end]}
  <1>1. req \in [Req -> Request] /\ req[r] \in Request BY DEF ReqsOK
  <1>2. \A y \in Y : y \in Request /\ y.at = at /\ Alike(req[r], y)
    <2>1. LET y == [req[r] EXCEPT !.at = at] IN y \in Request /\ y.at = at /\ Alike(req[r], y) BY <1>1, Ended
    <2>2. LET y == [req[r] EXCEPT !.at = at, !.end = end] IN y \in Request /\ y.at = at /\ Alike(req[r], y)
      BY <1>1, Ended
    <2> QED BY <2>1, <2>2
  <1>3. StepTo(r, at) = [req EXCEPT ![r] = [req[r] EXCEPT !.at = at]] BY <1>1 DEF StepTo
  <1>4. EndsAt(r, at, end) = [req EXCEPT ![r] = [req[r] EXCEPT !.at = at, !.end = end]]
    BY <1>1 DEF EndsAt, Request
  <1>5. PICK y \in Y : req' = [req EXCEPT ![r] = y] BY <1>3, <1>4
  <1>6. y \in Request /\ y.at = at /\ Alike(req[r], y) BY <1>2
  <1> HIDE DEF Y
  <1>7. Shape(y, r) BY <1>6, AlikeStands
  <1>8. /\ ReqsOK' /\ req'[r] = y /\ \A q \in Req : q # r => req'[q] = req[q]
        /\ (PutOn(req[r], y) => PutsOn) /\ (NoRun(req[r], y) => NoRuns) /\ (FindOn(req[r], y) => FindsOn)
        /\ (QueryOn(req[r], y) => QueriesOn) /\ (NoChild(req[r], y) => NoChilds)
    BY <1>5, <1>7, Changes
  <1>9. (req[r].op = "put" /\ req[r].at \in Over => at \in Over) => PutOn(req[r], y) BY <1>6 DEF PutOn, Alike
  <1>10. (req[r].op = "put" /\ at \in Running => req[r].at \in Running) => NoRun(req[r], y) BY <1>6 DEF NoRun, Alike
  <1>11. (req[r].op = "delete" => req[r].at \notin Finding /\ at \notin {"cancel", "forget"}) => FindOn(req[r], y)
    BY <1>6 DEF FindOn, Alike
  <1>12. QueryOn(req[r], y) BY <1>6 DEF QueryOn, Alike
  <1>13. (at = "child" => req[r].at = "child") => NoChild(req[r], y) BY <1>6 DEF NoChild
  <1> QED BY <1>6, <1>8, <1>9, <1>10, <1>11, <1>12, <1>13

\* Nothing but the requests moves, and they go on.
LEMMA AllStays ==
  ASSUME SidecarInv, ReqsOK', PutsOn, NoRuns, FindsOn, QueriesOn, NoChilds,
         UNCHANGED <<sidecarKept, building, cancelled, flight, mem, asked>>
  PROVE  SidecarInv'
  <1>1. DiskOK' /\ RoomOK' BY DiskStays, RoomStays DEF SidecarInv, sidecarKept
  <1>2. BuildingOK' BY BuildingStays DEF SidecarInv
  <1>3. AskedOK' /\ FindersOK' BY AskedStays DEF SidecarInv, AskedOK
  <1>4. GoneOK' BY GoneStays DEF SidecarInv, sidecarKept
  <1>5. \A q \in Req : req[q].op = "put" => req[q].key \in SKey BY DEF SidecarInv, ReqsOK, Shape, Stands, PutStands
  <1>6. FlightOK' BY <1>5, FlightStays DEF SidecarInv, FlightOK
  <1>7. SlotsOK' BY SlotsStay DEF SidecarInv
  <1>8. MemOK' BY MemStays DEF SidecarInv, MemOK
  <1> QED BY <1>1, <1>2, <1>3, <1>4, <1>6, <1>7, <1>8 DEF SidecarInv
-----------------------------------------------------------------------------
(* Steps of a request alone.                                               *)

\* Where a request stands says of which kind it is, and what it holds.
LEMMA KindsOf ==
  ASSUME ReqsOK, NEW r \in Req
  PROVE  /\ req[r] \in Request /\ Stands(req[r], req[r].at, r)
         /\ req[r].at = "idle" => req[r].op = "none"
         /\ req[r].at \in {"look", "register", "extract", "install", "leave"} => req[r].op = "put"
         /\ req[r].at \in {"list", "pop"} \cup Removing => req[r].op = "delete"
         /\ req[r].at \in {"want", "merge", "touch", "release", "mem", "build", "add", "load", "keep", "loaded", "flown"}
              => req[r].op = "query"
         /\ req[r].at \in {"slot", "child"} => req[r].op \in {"put", "query"}
         /\ req[r].op = "put" => PutStands(req[r], req[r].at, r)
         /\ req[r].op = "delete" => DeleteStands(req[r], req[r].at)
         /\ req[r].op = "query" => QueryStands(req[r], req[r].at)
  <1>1. req[r] \in Request /\ Stands(req[r], req[r].at, r) BY DEF ReqsOK, Shape
  <1>2. req[r].op \in {"none", "put", "delete", "query"} BY <1>1 DEF Request
  <1>3. /\ req[r].op = "put" => PutStands(req[r], req[r].at, r)
        /\ req[r].op = "delete" => DeleteStands(req[r], req[r].at)
        /\ req[r].op = "query" => QueryStands(req[r], req[r].at)
        /\ req[r].op = "none" <=> req[r].at = "idle"
    BY <1>1 DEF Stands
  <1>4. req[r].op = "put" => req[r].at \in {"joined", "done"} \cup Running BY <1>3 DEF PutStands
  <1>5. req[r].op = "delete" => req[r].at \in {"list", "pop", "done"} \cup Removing BY <1>3 DEF DeleteStands
  <1>6. req[r].op = "query" => req[r].at \in {"want", "merge", "touch", "release", "done"} \cup Parting
    BY <1>3 DEF QueryStands
  <1> QED BY <1>1, <1>2, <1>3, <1>4, <1>5, <1>6 DEF Running, Building, Removing, Parting

\* Those of a put and a query, and of a delete that is not at work on a build.
LEMMA MovesAlone ==
  ASSUME SidecarInv, NEW r \in Req, NEW at \in Places, NEW end \in Ends,
         req' = StepTo(r, at) \/ req' = EndsAt(r, at, end),
         Stands(req[r], at, r), at # "child",
         req[r].op = "put" => (req[r].at \in Over => at \in Over) /\ (at \in Running => req[r].at \in Running),
         req[r].op = "delete" => req[r].at \notin Finding /\ at \notin {"cancel", "forget"}
  PROVE  ReqsOK' /\ PutsOn /\ NoRuns /\ FindsOn /\ QueriesOn /\ NoChilds
  BY Moves DEF SidecarInv

LEMMA LookStep ==
  ASSUME SidecarInv, NEW r \in Req, PutLooks(r)
  PROVE  SidecarInv'
  <1>1. req[r].op = "put" /\ PutStands(req[r], req[r].at, r) /\ req[r].at = "look" BY KindsOf DEF SidecarInv, PutLooks
  <1>2. PICK at \in {"land", "register"} : req' = StepTo(r, at) \/ req' = EndsAt(r, at, "ok") BY DEF PutLooks
  <1>3. Stands(req[r], at, r) BY <1>1 DEF Stands, PutStands, Running, Building
  <1>4. at \in Places /\ "ok" \in Ends /\ at # "child" /\ at \in Running /\ req[r].at \in Running /\ req[r].at \notin Over
    BY <1>1 DEF Running, Over, Places, Ends
  <1>5. ReqsOK' /\ PutsOn /\ NoRuns /\ FindsOn /\ QueriesOn /\ NoChilds BY <1>1, <1>2, <1>3, <1>4, MovesAlone
  <1> QED BY <1>5, AllStays DEF PutLooks

LEMMA ExtractStep ==
  ASSUME SidecarInv, NEW r \in Req, PutExtracts(r)
  PROVE  SidecarInv'
  <1>1. req[r].op = "put" /\ PutStands(req[r], req[r].at, r) /\ req[r].at = "extract"
    BY KindsOf DEF SidecarInv, PutExtracts
  <1>2. PICK at \in {"slot", "install", "leave"}, end \in {"failed", "missing"} :
          req' = StepTo(r, at) \/ req' = EndsAt(r, at, end)
    BY DEF PutExtracts
  <1>3. Stands(req[r], at, r) BY <1>1 DEF Stands, PutStands, Running, Building
  <1>4. at \in Places /\ at # "child" /\ end \in Ends /\ req[r].at \in Running /\ req[r].at \notin Over
    BY <1>1 DEF Running, Over, Building, Places, Ends, Parting
  <1>5. ReqsOK' /\ PutsOn /\ NoRuns /\ FindsOn /\ QueriesOn /\ NoChilds BY <1>1, <1>2, <1>3, <1>4, MovesAlone
  <1> QED BY <1>5, AllStays DEF PutExtracts

LEMMA ChildStep ==
  ASSUME SidecarInv, NEW r \in Req, ChildEnds(r)
  PROVE  SidecarInv'
  <1>1. /\ req[r].op \in {"put", "query"} /\ req[r].at = "child"
        /\ req[r].op = "put" => PutStands(req[r], req[r].at, r)
        /\ req[r].op = "query" => QueryStands(req[r], req[r].at)
    BY KindsOf DEF SidecarInv, ChildEnds
  <1>2. PICK at \in {"install", "add", "leave", "land"}, end \in {"built", "failed", "missing"} :
          /\ req' = EndsAt(r, at, end)
          /\ req[r].op = "put" => at \in {"install", "leave"}
          /\ req[r].op # "put" => at \in {"add", "land"}
    BY DEF ChildEnds
  <1>3. Stands(req[r], at, r) BY <1>1, <1>2 DEF Stands, PutStands, QueryStands, Running, Building, Parting
  <1>4. at \in Places /\ at # "child" /\ end \in Ends /\ req[r].at \in Running /\ req[r].at \notin Over
    BY <1>1 DEF Running, Over, Building, Places, Ends, Parting
  <1>5. ReqsOK' /\ PutsOn /\ NoRuns /\ FindsOn /\ QueriesOn /\ NoChilds BY <1>1, <1>2, <1>3, <1>4, MovesAlone
  <1> QED BY <1>5, AllStays DEF ChildEnds

LEMMA BuildStep ==
  ASSUME SidecarInv, NEW r \in Req, QueryBuilds(r)
  PROVE  SidecarInv'
  <1>1. req[r].op = "query" /\ QueryStands(req[r], req[r].at) /\ req[r].at = "build"
    BY KindsOf DEF SidecarInv, QueryBuilds
  <1>2. PICK at \in {"land", "slot"} : req' = StepTo(r, at) \/ req' = EndsAt(r, at, "built") BY DEF QueryBuilds
  <1>3. Stands(req[r], at, r) BY <1>1 DEF Stands, QueryStands, Parting
  <1>4. at \in Places /\ at # "child" /\ "built" \in Ends BY DEF Places, Ends, Parting
  <1>5. ReqsOK' /\ PutsOn /\ NoRuns /\ FindsOn /\ QueriesOn /\ NoChilds BY <1>1, <1>2, <1>3, <1>4, MovesAlone
  <1> QED BY <1>5, AllStays DEF QueryBuilds

LEMMA LoadStep ==
  ASSUME SidecarInv, NEW r \in Req, QueryLoads(r)
  PROVE  SidecarInv'
  <1>1. req[r].op = "query" /\ QueryStands(req[r], req[r].at) /\ req[r].at = "load"
    BY KindsOf DEF SidecarInv, QueryLoads
  <1>2. PICK at \in {"loaded", "keep"}, end \in {"loaded", "failed"} : req' = StepTo(r, at) \/ req' = EndsAt(r, at, end)
    BY DEF QueryLoads
  <1>3. Stands(req[r], at, r) BY <1>1 DEF Stands, QueryStands, Parting
  <1>4. at \in Places /\ at # "child" /\ end \in Ends BY DEF Places, Ends, Parting
  <1>5. ReqsOK' /\ PutsOn /\ NoRuns /\ FindsOn /\ QueriesOn /\ NoChilds BY <1>1, <1>2, <1>3, <1>4, MovesAlone
  <1> QED BY <1>5, AllStays DEF QueryLoads

\* A slot comes for a put or a query: the only step that starts a child.
LEMMA SlotStep ==
  ASSUME SidecarInv, NEW r \in Req, SlotComes(r)
  PROVE  SidecarInv'
  <1>1. /\ req[r].op \in {"put", "query"} /\ req[r].at = "slot"
        /\ req[r].op = "put" => PutStands(req[r], req[r].at, r)
        /\ req[r].op = "query" => QueryStands(req[r], req[r].at)
    BY KindsOf DEF SidecarInv, SlotComes
  <1>2. PICK at \in {"child", "leave", "land"} :
          /\ req' = StepTo(r, at) \/ req' = EndsAt(r, at, "missing")
          /\ req[r].op = "put" => at \in {"child", "leave"}
          /\ req[r].op # "put" => at \in {"child", "land"}
    BY DEF SlotComes
  <1>3. Stands(req[r], at, r) BY <1>1, <1>2 DEF Stands, PutStands, QueryStands, Running, Building, Parting
  <1>4. at \in Places /\ "missing" \in Ends /\ req[r].at \in Running /\ req[r].at \notin Over
    BY <1>1 DEF Running, Over, Building, Places, Ends, Parting
  <1>5. /\ ReqsOK' /\ PutsOn /\ NoRuns /\ FindsOn /\ QueriesOn /\ (at # "child" => NoChilds) /\ req'[r].at = at
        /\ \A q \in Req : q # r => req'[q] = req[q]
    BY <1>1, <1>2, <1>3, <1>4, Moves DEF SidecarInv
  <1>6. CASE at # "child" BY <1>5, <1>6, AllStays DEF SlotComes
  <1>7. CASE at = "child"
    <2> DEFINE C == Children
               D == {q \in Req : req'[q].at = "child"}
    <2>1. D \subseteq C \cup {r} BY <1>5 DEF Children
    <2>2. IsFiniteSet(C) BY SidecarAssumption, FS_Subset DEF Children
    <2>3. Cardinality(C) < Concurrency BY DEF SlotComes, SlotFree
    <2>4. Children' = D BY DEF Children
    <2> HIDE DEF C, D
    <2>5. IsFiniteSet(C \cup {r}) /\ Cardinality(C \cup {r}) <= Cardinality(C) + 1
      <3>1. Cardinality(C) \in Nat BY <2>2, FS_CardinalityType
      <3>2. IsFiniteSet(C \cup {r}) /\ (Cardinality(C \cup {r}) = Cardinality(C) \/ Cardinality(C \cup {r}) = Cardinality(C) + 1)
        BY <2>2, FS_AddElement
      <3> QED BY <3>1, <3>2
    <2>6. Cardinality(D) <= Cardinality(C \cup {r}) /\ IsFiniteSet(D) BY <2>1, <2>5, FS_Subset
    <2>7. Cardinality(D) \in Nat /\ Cardinality(C) \in Nat /\ Cardinality(C \cup {r}) \in Nat
      BY <2>2, <2>5, <2>6, FS_CardinalityType
    <2>8. SlotsOK' BY <2>3, <2>4, <2>5, <2>6, <2>7, SidecarAssumption DEF SlotsOK
    <2>9. UNCHANGED <<sidecarKept, building, cancelled, flight, mem, asked>> BY DEF SlotComes
    <2>10. DiskOK' /\ RoomOK' BY <2>9, <1>5, DiskStays, RoomStays DEF SidecarInv, sidecarKept
    <2>11. BuildingOK' BY <2>9, <1>5, BuildingStays DEF SidecarInv
    <2>12. AskedOK' /\ FindersOK' BY <2>9, <1>5, AskedStays DEF SidecarInv, AskedOK
    <2>13. GoneOK' BY <2>9, <1>5, GoneStays DEF SidecarInv, sidecarKept
    <2>14. \A q \in Req : req[q].op = "put" => req[q].key \in SKey BY DEF SidecarInv, ReqsOK, Shape, Stands, PutStands
    <2>15. FlightOK' BY <2>9, <1>5, <2>14, FlightStays DEF SidecarInv, FlightOK
    <2>16. MemOK' BY <2>9, <1>5, MemStays DEF SidecarInv, MemOK
    <2> QED BY <1>5, <2>8, <2>10, <2>11, <2>12, <2>13, <2>15, <2>16 DEF SidecarInv
  <1> QED BY <1>6, <1>7
-----------------------------------------------------------------------------
(* Arrivals, and what a request picks up.                                  *)

LEMMA ChangesAlone ==
  ASSUME SidecarInv, NEW r \in Req, NEW y, req' = [req EXCEPT ![r] = y], Shape(y, r),
         PutOn(req[r], y), NoRun(req[r], y), FindOn(req[r], y), QueryOn(req[r], y), NoChild(req[r], y),
         UNCHANGED <<sidecarKept, building, cancelled, flight, mem, asked>>
  PROVE  SidecarInv'
  <1>1. ReqsOK BY DEF SidecarInv
  <1>2. ReqsOK' /\ PutsOn /\ NoRuns /\ FindsOn /\ QueriesOn /\ NoChilds BY <1>1, Changes
  <1> QED BY <1>2, AllStays

LEMMA DeleteArrivesStep ==
  ASSUME SidecarInv, NEW r \in Req, DeleteArrives(r)
  PROVE  SidecarInv'
  <1>1. req[r].op = "none" /\ req[r] \in Request /\ req[r].at = "idle" BY KindsOf DEF SidecarInv, DeleteArrives
  <1>2. PICK at \in {"pop", "list"}, ks \in SUBSET SKey :
          req' = [req EXCEPT ![r].op = "delete", ![r].at = at, ![r].keys = ks]
    <2>1. OnDisk \cap Owned \in SUBSET SKey /\ \A k \in SKey : {k} \in SUBSET SKey BY DEF OnDisk
    <2> QED BY <2>1 DEF DeleteArrives
  <1> DEFINE y == [req[r] EXCEPT !.op = "delete", !.at = at, !.keys = ks]
  <1>3. y \in Request /\ y.op = "delete" /\ y.at = at BY <1>1 DEF Request, Places
  <1>4. req' = [req EXCEPT ![r] = y] BY <1>2 DEF SidecarInv, ReqsOK, Request
  <1> HIDE DEF y
  <1>5. Shape(y, r) BY <1>3 DEF Shape, Stands, DeleteStands, Removing
  <1>6. PutOn(req[r], y) /\ NoRun(req[r], y) /\ FindOn(req[r], y) /\ QueryOn(req[r], y) /\ NoChild(req[r], y)
    BY <1>1, <1>3 DEF PutOn, NoRun, FindOn, QueryOn, NoChild
  <1> QED BY <1>4, <1>5, <1>6, ChangesAlone DEF DeleteArrives

LEMMA DeleteListsStep ==
  ASSUME SidecarInv, NEW r \in Req, DeleteLists(r)
  PROVE  SidecarInv'
  <1>1. req[r].op = "delete" /\ req[r] \in Request /\ req[r].at = "list" BY KindsOf DEF SidecarInv, DeleteLists
  <1> DEFINE ks == req[r].keys \cup {k \in Owned : building[k] # None}
             y == [req[r] EXCEPT !.at = "pop", !.keys = ks]
  <1>2. ks \in SUBSET SKey BY <1>1, SidecarAssumption DEF Request
  <1> HIDE DEF ks
  <1>3. y \in Request /\ y.op = "delete" /\ y.at = "pop" BY <1>1, <1>2 DEF Request, Places
  <1>4. req' = [req EXCEPT ![r] = y] BY DEF SidecarInv, ReqsOK, Request, DeleteLists, ks
  <1> HIDE DEF y
  <1>5. Shape(y, r) BY <1>3 DEF Shape, Stands, DeleteStands, Removing
  <1>6. PutOn(req[r], y) /\ NoRun(req[r], y) /\ FindOn(req[r], y) /\ QueryOn(req[r], y) /\ NoChild(req[r], y)
    BY <1>1, <1>3 DEF PutOn, NoRun, FindOn, QueryOn, NoChild, Finding
  <1> QED BY <1>4, <1>5, <1>6, ChangesAlone DEF DeleteLists

LEMMA QueryArrivesStep ==
  ASSUME SidecarInv, NEW r \in Req, QueryArrives(r)
  PROVE  SidecarInv'
  <1>1. req[r].op = "none" /\ req[r] \in Request /\ req[r].at = "idle" BY KindsOf DEF SidecarInv, QueryArrives
  <1>2. PICK ks \in SUBSET SKey \ {{}} :
          req' = [req EXCEPT ![r] =
            IF ks \subseteq OnDisk
              THEN [req[r] EXCEPT !.op = "query", !.at = "want", !.keys = ks, !.held = [k \in ks |-> disk[k]]]
              ELSE [req[r] EXCEPT !.op = "query", !.at = "done", !.end = "missing"]]
    BY DEF QueryArrives, SidecarInv, ReqsOK
  <1> DEFINE h == [k \in ks |-> disk[k]]
             y == IF ks \subseteq OnDisk
                    THEN [req[r] EXCEPT !.op = "query", !.at = "want", !.keys = ks, !.held = h]
                    ELSE [req[r] EXCEPT !.op = "query", !.at = "done", !.end = "missing"]
  <1>3. req' = [req EXCEPT ![r] = y] BY <1>2
  <1>4. ks \subseteq OnDisk => h \in Held /\ DOMAIN h = ks
    <2> HAVE ks \subseteq OnDisk
    <2>1. \A k \in ks : disk[k] \in Object BY DEF OnDisk, SidecarInv, DiskOK
    <2>2. h \in [ks -> Object] /\ DOMAIN h = ks BY <2>1
    <2> QED BY <2>2 DEF Held
  <1> HIDE DEF h
  <1>5. /\ y \in Request /\ y.op = "query" /\ y.at \in {"want", "done"}
        /\ y.at # "done" => DOMAIN y.held = y.keys
    <2>1. CASE ks \subseteq OnDisk BY <1>1, <1>4, <2>1 DEF Request, Places
    <2>2. CASE ~(ks \subseteq OnDisk) BY <1>1, <2>2 DEF Request, Places, Ends
    <2> QED BY <2>1, <2>2
  <1> HIDE DEF y
  <1>6. Shape(y, r) BY <1>5 DEF Shape, Stands, QueryStands, Parting
  <1>7. PutOn(req[r], y) /\ NoRun(req[r], y) /\ FindOn(req[r], y) /\ QueryOn(req[r], y) /\ NoChild(req[r], y)
    BY <1>1, <1>5 DEF PutOn, NoRun, FindOn, QueryOn, NoChild
  <1> QED BY <1>3, <1>6, <1>7, ChangesAlone DEF QueryArrives

LEMMA FlownStep ==
  ASSUME SidecarInv, NEW r \in Req, QueryFlown(r)
  PROVE  SidecarInv'
  <1>1. req[r].op = "query" /\ req[r] \in Request /\ QueryStands(req[r], req[r].at) /\ req[r].at = "flown"
    BY KindsOf DEF SidecarInv, QueryFlown
  <1>2. req[r].key \in SKey /\ req[r].id \in Object /\ DOMAIN req[r].held = req[r].keys
    BY <1>1 DEF QueryStands, Parting, Request
  <1> DEFINE q == req[r]
             y == CASE q.end = "built"  -> [q EXCEPT !.at = "mem", !.end = "none"]
                    [] q.end = "loaded" -> [q EXCEPT !.at = "want", !.end = "none", !.got = @ \cup {q.key}]
                    [] OTHER            -> [q EXCEPT !.at = "release"]
  <1>3. req' = [req EXCEPT ![r] = y] BY DEF QueryFlown, SidecarInv, ReqsOK
  <1>4. y \in Request /\ Alike(q, y) /\ y.at \in {"mem", "want", "release"}
    <2>1. CASE q.end = "built" BY <1>1, <2>1 DEF Request, Alike, Places, Ends, Parting
    <2>2. CASE q.end = "loaded" BY <1>1, <1>2, <2>2 DEF Request, Alike, Places, Ends, Parting
    <2>3. CASE q.end \notin {"built", "loaded"} BY <1>1, <2>3 DEF Request, Alike, Places, Ends, Parting
    <2> QED BY <2>1, <2>2, <2>3
  <1> HIDE DEF y
  <1>5. Stands(q, y.at, r) BY <1>1, <1>2, <1>4 DEF Stands, QueryStands, Parting
  <1>6. Shape(y, r) BY <1>4, <1>5, AlikeStands
  <1>7. PutOn(q, y) /\ NoRun(q, y) /\ FindOn(q, y) /\ QueryOn(q, y) /\ NoChild(q, y)
    BY <1>1, <1>4 DEF PutOn, NoRun, FindOn, QueryOn, NoChild, Alike
  <1> QED BY <1>3, <1>6, <1>7, ChangesAlone DEF QueryFlown

LEMMA ReleaseStep ==
  ASSUME SidecarInv, NEW r \in Req, QueryReleases(r)
  PROVE  SidecarInv'
  <1>1. req[r].op = "query" /\ req[r] \in Request /\ req[r].at = "release"
    BY KindsOf DEF SidecarInv, QueryReleases
  <1> DEFINE y == [req[r] EXCEPT !.at = "done", !.held = <<>>]
  <1>2. <<>> \in Held
    <2>1. <<>> \in [{} -> Object] OBVIOUS
    <2> QED BY <2>1 DEF Held
  <1>3. y \in Request /\ y.op = "query" /\ y.at = "done" /\ y.keys = req[r].keys BY <1>1, <1>2 DEF Request, Places
  <1>4. req' = [req EXCEPT ![r] = y] BY DEF QueryReleases, SidecarInv, ReqsOK, Request
  <1> HIDE DEF y
  <1>5. Shape(y, r) BY <1>3 DEF Shape, Stands, QueryStands, Parting
  <1>6. PutOn(req[r], y) /\ NoRun(req[r], y) /\ FindOn(req[r], y) /\ QueryOn(req[r], y) /\ NoChild(req[r], y)
    BY <1>1, <1>3 DEF PutOn, NoRun, FindOn, QueryOn, NoChild
  <1> QED BY <1>4, <1>5, <1>6, ChangesAlone DEF QueryReleases
-----------------------------------------------------------------------------
(* Flights and the map of builds.                                          *)

FlightKept ==
  /\ flight' \in [FlightName -> Req \cup {None}]
  /\ \A k \in SKey : flight'[<<"snapshot", k>>] = flight[<<"snapshot", k>>] \/ \E b \in asked : req[b].key = k
MemLess == mem' \in Seq(SUBSET SKey) /\ Elements(mem') \subseteq Elements(mem) /\ Len(mem') <= Len(mem)
CancelledMore == cancelled \subseteq cancelled' /\ cancelled' \subseteq Object
DiskLess == \A k \in SKey : disk'[k] \in {disk[k], None} \/ disk'[k] \notin asked

\* What a step does not do, one by one.
LEMMA PartsStay ==
  ASSUME SidecarInv, ReqsOK', PutsOn, QueriesOn
  PROVE  /\ UNCHANGED sidecarKept => DiskOK' /\ RoomOK' /\ DiskLess
         /\ building' = building => BuildingOK'
         /\ FindsOn /\ asked' = asked /\ CancelledMore => AskedOK' /\ FindersOK'
         /\ FindsOn /\ asked' = asked /\ DiskLess => GoneOK'
         /\ NoRuns /\ FlightKept /\ asked \subseteq asked' => FlightOK'
         /\ NoChilds => SlotsOK'
         /\ MemLess => MemOK'
         /\ mem' = mem => MemLess
         /\ cancelled' = cancelled => CancelledMore
         /\ flight' = flight => FlightKept
  <1>1. UNCHANGED sidecarKept => DiskOK' /\ RoomOK' /\ DiskLess
    BY DiskStays, RoomStays DEF SidecarInv, sidecarKept, DiskLess
  <1>2. building' = building => BuildingOK' BY BuildingStays DEF SidecarInv
  <1>3. FindsOn /\ asked' = asked /\ CancelledMore => AskedOK' /\ FindersOK'
    BY AskedStays DEF SidecarInv, CancelledMore
  <1>4. FindsOn /\ asked' = asked /\ DiskLess => GoneOK' BY GoneStays DEF SidecarInv, DiskLess
  <1>5. \A q \in Req : req[q].op = "put" => req[q].key \in SKey BY DEF SidecarInv, ReqsOK, Shape, Stands, PutStands
  <1>6. NoRuns /\ FlightKept /\ asked \subseteq asked' => FlightOK' BY <1>5, FlightStays DEF SidecarInv, FlightKept
  <1>7. NoChilds => SlotsOK' BY SlotsStay DEF SidecarInv
  <1>8. MemLess => MemOK' BY MemStays DEF SidecarInv, MemLess
  <1>9. mem' = mem => MemLess BY DEF SidecarInv, MemOK, MemLess
  <1>10. cancelled' = cancelled => CancelledMore BY DEF SidecarInv, AskedOK, CancelledMore
  <1>11. flight' = flight => FlightKept BY DEF SidecarInv, FlightOK, FlightKept
  <1> QED BY <1>1, <1>2, <1>3, <1>4, <1>6, <1>7, <1>8, <1>9, <1>10, <1>11

WithEnd(q, at, end) == [q EXCEPT !.at = at, !.end = end]

LEMMA WithEndIs ==
  ASSUME NEW q \in Request, NEW at \in Places, NEW end \in Ends
  PROVE  WithEnd(q, at, end) \in Request /\ WithEnd(q, at, end).at = at /\ Alike(q, WithEnd(q, at, end))
  BY DEF WithEnd, Request, Alike

\* The end of a flight wakes those who joined it.
LEMMA Landed ==
  ASSUME SidecarInv, NEW r \in Req, NEW name \in FlightName, NEW next \in Places, Land(r, name, next),
         Stands(req[r], next, r),
         next \in {"done", "flown"}, req[r].op \in {"put", "query"}, req[r].at # "joined",
         req[r].op = "put" => next = "done"
  PROVE  ReqsOK' /\ PutsOn /\ NoRuns /\ FindsOn /\ QueriesOn /\ NoChilds
  <1> DEFINE Woken(q) == [req[q] EXCEPT !.at = IF req[q].op = "put" THEN "done" ELSE "flown", !.end = req[r].end]
             On(q) == req[q].at = "joined" /\ req[q].on = <<r, name>>
  <1>1. \A q \in Req : req[q] \in Request /\ Stands(req[q], req[q].at, q) BY DEF SidecarInv, ReqsOK, Shape
  <1>2. /\ req' = [q \in Req |-> req'[q]]
        /\ req'[r] = [req[r] EXCEPT !.at = next]
        /\ \A q \in Req : q # r /\ On(q) => req'[q] = Woken(q)
        /\ \A q \in Req : q # r /\ ~On(q) => req'[q] = req[q]
    <2>1. req' = [q \in Req |-> CASE q = r -> [req[q] EXCEPT !.at = next]
                                  [] On(q) -> Woken(q)
                                  [] OTHER -> req[q]]
      BY DEF Land
    <2>0. ~On(r) OBVIOUS
    <2> HIDE DEF On, Woken
    <2>2. req' = [q \in Req |-> req'[q]] BY <2>1
    <2>3. req'[r] = [req[r] EXCEPT !.at = next] BY <2>0, <2>1
    <2>4. \A q \in Req : q # r /\ On(q) => req'[q] = Woken(q) BY <2>1
    <2>5. \A q \in Req : q # r /\ ~On(q) => req'[q] = req[q] BY <2>1
    <2> QED BY <2>2, <2>3, <2>4, <2>5
  <1> HIDE DEF On
  <1>3. ASSUME NEW q \in Req
        PROVE  /\ Shape(req'[q], q) /\ Alike(req[q], req'[q])
               /\ req'[q] = req[q] \/ (req'[q].at \in {"done", "flown"} /\ req[q].op \in {"put", "query"}
                                       /\ (req[q].op = "put" => req'[q].at = "done"))
    <2>1. CASE q = r
      <3>1. req'[q] \in Request /\ req'[q].at = next /\ Alike(req[q], req'[q])
        <4>1. req[q] \in Request BY <1>1
        <4>2. req'[q] = [req[q] EXCEPT !.at = next] BY <1>2, <2>1
        <4> QED BY <4>1, <4>2 DEF Request, Alike
      <3> QED BY <3>1, <2>1, AlikeStands
    <2>2. CASE q # r /\ On(q)
      <3>1. req[q].at = "joined" BY <2>2 DEF On
      <3>2. req[q].op \in {"put", "query"}
        <4>1. req[q].op \in {"none", "put", "delete", "query"} BY <1>1 DEF Request
        <4> QED BY <4>1, <3>1, <1>1 DEF Stands, DeleteStands, Removing
      <3>0. req[q] \in Request /\ req[r].end \in Ends BY <1>1 DEF Request
      <3>3. PICK at \in {"done", "flown"}, end \in Ends :
              req'[q] = [req[q] EXCEPT !.at = at, !.end = end] /\ (req[q].op = "put" => at = "done")
                /\ (req[q].op # "put" => at = "flown")
        BY <3>0, <1>2, <2>2
      <3>4. req[q] \in Request /\ at \in Places BY <3>0 DEF Places, Parting
      <3>5. req'[q] \in Request /\ req'[q].at = at /\ Alike(req[q], req'[q])
        <4>1. req'[q] = WithEnd(req[q], at, end) BY <3>3 DEF WithEnd
        <4> QED BY <4>1, <3>4, WithEndIs
      <3>6. Stands(req[q], at, q) BY <1>1, <3>1, <3>2, <3>3 DEF Stands, PutStands, QueryStands, Parting, Building
      <3> QED BY <3>2, <3>3, <3>5, <3>6, AlikeStands
    <2>3. CASE q # r /\ ~On(q) BY <2>3, <1>1, <1>2 DEF Shape, Alike
    <2> QED BY <2>1, <2>2, <2>3
  <1>4. ReqsOK'
    <2>1. \A q \in Req : req'[q] \in Request BY <1>3 DEF Shape
    <2>2. req' \in [Req -> Request] BY <1>2, <2>1
    <2> QED BY <2>2, <1>3 DEF ReqsOK, Shape, Stands, PutStands, DeleteStands, QueryStands, Request
  <1>5. PutsOn BY <1>3 DEF PutsOn, PutOn, Alike, Over
  <1>6. NoRuns BY <1>3 DEF NoRuns, NoRun, Alike, Running, Building
  <1>7. FindsOn BY <1>3 DEF FindsOn, FindOn, Alike
  <1>8. QueriesOn BY <1>3 DEF QueriesOn, QueryOn, Alike
  <1>9. NoChilds BY <1>3 DEF NoChilds, NoChild
  <1> QED BY <1>4, <1>5, <1>6, <1>7, <1>8, <1>9

LEMMA QueryLandsStep ==
  ASSUME SidecarInv, NEW r \in Req, QueryLands(r)
  PROVE  SidecarInv'
  <1>1. req[r] \in Request /\ req[r].op = "query" /\ QueryStands(req[r], req[r].at) /\ req[r].at \in {"land", "loaded"}
    BY KindsOf DEF SidecarInv, QueryLands
  <1>2. req[r].key \in SKey BY <1>1 DEF QueryStands, Parting, Request
  <1>3. PICK kind \in {"variant", "load"} : Land(r, <<kind, req[r].key>>, "flown") BY DEF QueryLands
  <1>4. <<kind, req[r].key>> \in FlightName BY <1>2 DEF FlightName
  <1>5. Stands(req[r], "flown", r) /\ "flown" \in Places BY <1>1 DEF Stands, QueryStands, Parting, Places
  <1>6. ReqsOK' /\ PutsOn /\ NoRuns /\ FindsOn /\ QueriesOn /\ NoChilds BY <1>1, <1>3, <1>4, <1>5, Landed
  <1>7. FlightKept
    <2>1. flight \in [FlightName -> Req \cup {None}] BY DEF SidecarInv, FlightOK
    <2>2. flight' = flight \/ flight' = [flight EXCEPT ![<<kind, req[r].key>>] = None] BY <1>3 DEF Land
    <2>3. \A k \in SKey : <<"snapshot", k>> # <<kind, req[r].key>> OBVIOUS
    <2>4. \A k \in SKey : <<"snapshot", k>> \in FlightName BY DEF FlightName
    <2>5. flight' \in [FlightName -> Req \cup {None}] BY <2>1, <2>2
    <2>6. \A k \in SKey : flight'[<<"snapshot", k>>] = flight[<<"snapshot", k>>] BY <2>1, <2>2, <2>3, <2>4
    <2> QED BY <2>5, <2>6 DEF FlightKept
  <1>8. UNCHANGED <<sidecarKept, building, cancelled, mem, asked>> BY DEF QueryLands
  <1> QED BY <1>6, <1>7, <1>8, PartsStay DEF SidecarInv

LEMMA PutLandsStep ==
  ASSUME SidecarInv, NEW r \in Req, PutLands(r)
  PROVE  SidecarInv'
  <1>1. req[r].op = "put" /\ PutStands(req[r], req[r].at, r) /\ req[r].at = "land"
    BY KindsOf DEF SidecarInv, PutLands
  <1>2. req[r].key \in SKey BY <1>1 DEF PutStands
  <1> DEFINE name == <<"snapshot", req[r].key>>
  <1>3. Land(r, name, "done") BY DEF PutLands
  <1>4. name \in FlightName BY <1>2 DEF FlightName
  <1>5. Stands(req[r], "done", r) /\ "done" \in Places BY <1>1 DEF Stands, PutStands, Building, Places
  <1>6. ReqsOK' /\ PutsOn /\ NoRuns /\ FindsOn /\ QueriesOn /\ NoChilds BY <1>1, <1>3, <1>4, <1>5, Landed
  <1>7. UNCHANGED <<sidecarKept, building, cancelled, mem, asked>> BY DEF PutLands
  <1>8. FlightOK'
    <2>1. flight \in [FlightName -> Req \cup {None}] BY DEF SidecarInv, FlightOK
    <2>2. flight' = IF flight[name] = r THEN [flight EXCEPT ![name] = None] ELSE flight BY <1>3 DEF Land
    <2>3. flight' \in [FlightName -> Req \cup {None}] BY <2>1, <2>2
    <2>4. req'[r].at = "done"
      <3>1. req[r] \in Request BY DEF SidecarInv, ReqsOK
      <3> HIDE DEF name
      <3>2. req'[r] = [req[r] EXCEPT !.at = "done"] BY <1>1, <1>3 DEF Land
      <3> QED BY <3>1, <3>2 DEF Request
    <2>5. ASSUME NEW q \in Req, req'[q].op = "put", req'[q].at \in Running
          PROVE  flight'[<<"snapshot", req'[q].key>>] = q \/ \E b \in asked' : req'[b].key = req'[q].key
      <3>1. q # r BY <2>4, <2>5 DEF Running, Building
      <3>2. req[q].op = "put" /\ req[q].at \in Running /\ req'[q].key = req[q].key
        BY <1>6, <2>5 DEF NoRuns, NoRun, PutsOn, PutOn
      <3>3. req[q].key \in SKey BY <3>2, KindsOf DEF PutStands, SidecarInv
      <3>4. flight[<<"snapshot", req[q].key>>] = q \/ \E b \in asked : req[b].key = req[q].key
        BY <3>2 DEF SidecarInv, FlightOK
      <3>5. \A b \in asked : req'[b].key = req[b].key BY <1>6 DEF SidecarInv, AskedOK, PutsOn, PutOn
      <3>6. flight[<<"snapshot", req[q].key>>] = q => flight'[<<"snapshot", req[q].key>>] = q
        <4>1. <<"snapshot", req[q].key>> \in FlightName BY <3>3 DEF FlightName
        <4> HIDE DEF name
        <4> QED BY <4>1, <3>1, <2>1, <2>2
      <3> QED BY <3>2, <3>4, <3>5, <3>6, <1>7
    <2> QED BY <2>3, <2>5 DEF FlightOK
  <1> QED BY <1>6, <1>7, <1>8, PartsStay DEF SidecarInv
LEMMA PutArrivesStep ==
  ASSUME SidecarInv, NEW r \in Req, PutArrives(r)
  PROVE  SidecarInv'
  <1>1. req[r].op = "none" /\ req[r] \in Request /\ req[r].at = "idle" BY KindsOf DEF SidecarInv, PutArrives
  <1>2. PICK k \in SKey :
          LET q == [req EXCEPT ![r].op = "put", ![r].key = k]
              name == <<"snapshot", k>>
          IN  IF flight[name] = None
                THEN flight' = [flight EXCEPT ![name] = r] /\ req' = [q EXCEPT ![r].at = "look"]
                ELSE /\ UNCHANGED flight
                     /\ req' = [q EXCEPT ![r].at = "joined", ![r].on = <<flight[name], name>>]
    BY DEF PutArrives
  <1> DEFINE name == <<"snapshot", k>>
  <1>3. name \in FlightName BY DEF FlightName
  <1>4. flight \in [FlightName -> Req \cup {None}] /\ req \in [Req -> Request] BY DEF SidecarInv, FlightOK, ReqsOK
  <1>5. UNCHANGED <<sidecarKept, building, cancelled, mem, asked>> BY DEF PutArrives
  <1>6. CASE flight[name] = None
    <2> DEFINE y == [req[r] EXCEPT !.op = "put", !.key = k, !.at = "look"]
    <2>1. y \in Request /\ y.op = "put" /\ y.key = k /\ y.at = "look" BY <1>1 DEF Request, Places, Running
    <2>2. req' = [req EXCEPT ![r] = y] BY <1>2, <1>4, <1>6 DEF Request
    <2>3. flight' = [flight EXCEPT ![name] = r] BY <1>2, <1>6
    <2> HIDE DEF y, name
    <2>4. Shape(y, r) BY <2>1 DEF Shape, Stands, PutStands, Running, Building
    <2>5. PutOn(req[r], y) /\ FindOn(req[r], y) /\ QueryOn(req[r], y) /\ NoChild(req[r], y)
      BY <1>1, <2>1 DEF PutOn, FindOn, QueryOn, NoChild
    <2>6. ReqsOK' /\ req'[r] = y /\ (\A q \in Req : q # r => req'[q] = req[q]) /\ PutsOn /\ FindsOn /\ QueriesOn /\ NoChilds
      BY <2>2, <2>4, <2>5, Changes DEF SidecarInv
    <2>7. FlightOK'
      <3>1. flight' \in [FlightName -> Req \cup {None}] BY <1>4, <2>3
      <3>2. ASSUME NEW q \in Req, req'[q].op = "put", req'[q].at \in Running
            PROVE  flight'[<<"snapshot", req'[q].key>>] = q \/ \E b \in asked' : req'[b].key = req'[q].key
        <4>1. CASE q = r BY <4>1, <2>1, <2>3, <2>6, <1>3, <1>4 DEF name
        <4>2. CASE q # r
          <5>1. req'[q] = req[q] BY <4>2, <2>6
          <5>2. req[q].key \in SKey BY <5>1, <3>2, KindsOf DEF PutStands, SidecarInv
          <5>3. flight[<<"snapshot", req[q].key>>] = q \/ \E b \in asked : req[b].key = req[q].key
            BY <3>2, <5>1 DEF SidecarInv, FlightOK
          <5>4. \A b \in asked : req'[b].key = req[b].key BY <2>6 DEF SidecarInv, AskedOK, PutsOn, PutOn
          <5>5. flight[<<"snapshot", req[q].key>>] = q => flight'[<<"snapshot", req[q].key>>] = q
            <6>1. <<"snapshot", req[q].key>> \in FlightName BY <5>2 DEF FlightName
            <6>2. q # None BY SidecarAssumption
            <6> QED BY <6>1, <6>2, <1>4, <1>6, <2>3
          <5> QED BY <5>1, <5>3, <5>4, <5>5, <1>5
        <4> QED BY <4>1, <4>2
      <3> QED BY <3>1, <3>2 DEF FlightOK
    <2> QED BY <1>5, <2>6, <2>7, PartsStay DEF SidecarInv
  <1>7. CASE flight[name] # None
    <2> DEFINE on == <<flight[name], name>>
               y == [req[r] EXCEPT !.op = "put", !.key = k, !.at = "joined", !.on = on]
    <2>0. on \in {None} \cup (Req \X FlightName) BY <1>3, <1>4, <1>7
    <2>2. req' = [req EXCEPT ![r] = y] BY <1>2, <1>4, <1>7 DEF Request
    <2> HIDE DEF on
    <2>1. y \in Request /\ y.op = "put" /\ y.key = k /\ y.at = "joined" BY <1>1, <2>0 DEF Request, Places, Parting
    <2>3. flight' = flight BY <1>2, <1>7
    <2> HIDE DEF y, name
    <2>4. Shape(y, r) BY <2>1 DEF Shape, Stands, PutStands, Building
    <2>5. PutOn(req[r], y) /\ NoRun(req[r], y) /\ FindOn(req[r], y) /\ QueryOn(req[r], y) /\ NoChild(req[r], y)
      BY <1>1, <2>1 DEF PutOn, NoRun, FindOn, QueryOn, NoChild, Running, Building
    <2> QED BY <1>5, <2>2, <2>3, <2>4, <2>5, ChangesAlone
  <1> QED BY <1>6, <1>7

LEMMA RegisterStep ==
  ASSUME SidecarInv, NEW r \in Req, PutRegisters(r)
  PROVE  SidecarInv'
  <1>1. req[r] \in Request /\ req[r].op = "put" /\ PutStands(req[r], req[r].at, r) /\ req[r].at = "register"
    BY KindsOf DEF SidecarInv, PutRegisters
  <1>2. req[r].key \in SKey BY <1>1 DEF PutStands
  <1> DEFINE y == [req[r] EXCEPT !.at = "extract", !.id = r]
  <1>3. y \in Request /\ y.op = "put" /\ y.key = req[r].key /\ y.at = "extract" /\ y.id = r
    BY <1>1 DEF Request, Places, Running, Building, Object
  <1>4. req' = [req EXCEPT ![r] = y] BY DEF PutRegisters, SidecarInv, ReqsOK, Request
  <1> HIDE DEF y
  <1>5. Shape(y, r) BY <1>2, <1>3 DEF Shape, Stands, PutStands, Running, Building
  <1>6. PutOn(req[r], y) /\ NoRun(req[r], y) /\ FindOn(req[r], y) /\ QueryOn(req[r], y) /\ NoChild(req[r], y)
    BY <1>1, <1>3 DEF PutOn, NoRun, FindOn, QueryOn, NoChild, Over, Running
  <1>7. ReqsOK' /\ req'[r] = y /\ PutsOn /\ NoRuns /\ FindsOn /\ QueriesOn /\ NoChilds
    BY <1>4, <1>5, <1>6, Changes DEF SidecarInv
  <1>8. building' = [building EXCEPT ![req[r].key] = r] BY DEF PutRegisters
  <1>9. BuildingOK'
    <2>1. building \in [SKey -> Req \cup {None}] BY DEF SidecarInv, BuildingOK
    <2>2. building' \in [SKey -> Req \cup {None}] BY <2>1, <1>8
    <2>3. ASSUME NEW k \in SKey PROVE building'[k] = None \/ PutOf(req', building'[k], k)
      <3>1. CASE k = req[r].key BY <3>1, <1>2, <1>3, <1>7, <1>8, <2>1 DEF PutOf
      <3>2. CASE k # req[r].key
        <4>1. building'[k] = building[k] BY <3>2, <1>8, <2>1
        <4>2. building[k] = None \/ PutOf(req, building[k], k) BY DEF SidecarInv, BuildingOK
        <4> QED BY <4>1, <4>2, <1>7, PutsStay
      <3> QED BY <3>1, <3>2
    <2> QED BY <2>2, <2>3 DEF BuildingOK, PutOf
  <1>10. UNCHANGED <<sidecarKept, cancelled, flight, mem, asked>> BY DEF PutRegisters
  <1> QED BY <1>7, <1>9, <1>10, PartsStay DEF SidecarInv

LEMMA LeaveStep ==
  ASSUME SidecarInv, NEW r \in Req, PutLeaves(r)
  PROVE  SidecarInv'
  <1>1. req[r].op = "put" /\ PutStands(req[r], req[r].at, r) /\ req[r].at = "leave"
    BY KindsOf DEF SidecarInv, PutLeaves
  <1>2. req' = StepTo(r, "land") /\ "land" \in Places /\ "ok" \in Ends /\ "land" \in Running /\ "land" \in Over /\ req[r].at \in Running
    BY <1>1 DEF PutLeaves, Places, Running, Ends, Over, Building
  <1>3. Stands(req[r], "land", r) BY <1>1 DEF Stands, PutStands, Running, Building
  <1>4. ReqsOK' /\ PutsOn /\ NoRuns /\ FindsOn /\ QueriesOn /\ NoChilds BY <1>1, <1>2, <1>3, MovesAlone
  <1>5. building' = building \/ building' = [building EXCEPT ![req[r].key] = None] BY DEF PutLeaves
  <1>6. BuildingOK'
    <2>1. building \in [SKey -> Req \cup {None}] BY DEF SidecarInv, BuildingOK
    <2>2. building' \in [SKey -> Req \cup {None}] BY <2>1, <1>5
    <2>3. ASSUME NEW k \in SKey PROVE building'[k] = None \/ PutOf(req', building'[k], k)
      <3>1. building'[k] \in {None, building[k]} BY <1>5, <2>1
      <3>2. building[k] = None \/ PutOf(req, building[k], k) BY DEF SidecarInv, BuildingOK
      <3> QED BY <3>1, <3>2, <1>4, PutsStay
    <2> QED BY <2>2, <2>3 DEF BuildingOK, PutOf
  <1>7. UNCHANGED <<sidecarKept, cancelled, flight, mem, asked>> BY DEF PutLeaves
  <1> QED BY <1>4, <1>6, <1>7, PartsStay DEF SidecarInv
-----------------------------------------------------------------------------
(* What the store and the memory lose.                                     *)

\* What comes to the disk is of a put of that key, over with the disk.
LEMMA DiskChanges ==
  ASSUME DiskOK, PutsOn, disk' \in [SKey -> Object \cup {None}], lru' \in Seq(SKey),
         \A k \in SKey : disk'[k] # None <=> k \in Elements(lru'),
         \A k \in SKey : disk'[k] \in {disk[k], None} \/ (PutOf(req', disk'[k], k) /\ PutOver(req', disk'[k])),
         indexed' \subseteq Object, \A r \in Req : r \in indexed' => r \in indexed \/ PutOver(req', r)
  PROVE  DiskOK'
  <1>1. \A k \in SKey : disk'[k] = k \/ disk'[k] = None \/ (PutOf(req', disk'[k], k) /\ PutOver(req', disk'[k]))
    <2> TAKE k \in SKey
    <2>1. disk[k] = k \/ disk[k] = None \/ (PutOf(req, disk[k], k) /\ PutOver(req, disk[k])) BY DEF DiskOK
    <2>2. PutOf(req, disk[k], k) /\ PutOver(req, disk[k]) => PutOf(req', disk[k], k) /\ PutOver(req', disk[k]) BY PutsStay
    <2> QED BY <2>1, <2>2
  <1>2. \A r \in Req \cap indexed' : PutOver(req', r)
    <2> TAKE r \in Req \cap indexed'
    <2>1. CASE r \in indexed
      <3>1. PutOver(req, r) BY <2>1 DEF DiskOK
      <3> QED BY <3>1 DEF PutsOn, PutOn, PutOver
    <2>2. CASE r \notin indexed BY <2>2
    <2> QED BY <2>1, <2>2
  <1> QED BY <1>1, <1>2 DEF DiskOK, PutOf, PutOver, Elements

\* What leaves the disk makes room.
LEMMA RoomLess ==
  ASSUME RoomOK, \A k \in SKey : disk'[k] \in {disk[k], None}, indexed' = indexed
  PROVE  RoomOK'
  <1> DEFINE D == OnDisk
             E == {k \in SKey : disk'[k] # None}
             V == {k \in D : disk[k] \in indexed}
             W == {k \in E : disk'[k] \in indexed}
  <1>1. E \subseteq D /\ W \subseteq V BY DEF OnDisk
  <1>2. IsFiniteSet(D) /\ IsFiniteSet(V) BY SidecarAssumption, FS_Subset DEF OnDisk
  <1>3. Cardinality(D) + 0 <= MaxSnapshots /\ Cardinality(D) + Cardinality(V) + 0 <= MaxStorage
    BY DEF RoomOK, Fits, Storage
  <1>4. OnDisk' = E /\ Storage(OnDisk)' = Cardinality(E) + Cardinality(W) BY DEF OnDisk, Storage
  <1> HIDE DEF D, E, V, W
  <1>5. Cardinality(E) <= Cardinality(D) /\ Cardinality(W) <= Cardinality(V) /\ IsFiniteSet(E) /\ IsFiniteSet(W)
    BY <1>1, <1>2, FS_Subset
  <1>6. Cardinality(D) \in Nat /\ Cardinality(E) \in Nat /\ Cardinality(V) \in Nat /\ Cardinality(W) \in Nat
    BY <1>2, <1>5, FS_CardinalityType
  <1>7. Cardinality(E) + 0 <= MaxSnapshots /\ Cardinality(E) + Cardinality(W) + 0 <= MaxStorage
    BY <1>3, <1>5, <1>6, SidecarAssumption
  <1> QED BY <1>4, <1>7 DEF RoomOK, Fits

\* What drop_key() drops of the memory is gone, and nothing comes.
LEMMA Dropped ==
  ASSUME MemOK, NEW gone, mem' = DropKeys(gone)
  PROVE  MemLess
  <1>1. mem \in Seq(SUBSET SKey) BY DEF MemOK
  <1> QED BY <1>1, OnlyIs DEF DropKeys, MemLess

-----------------------------------------------------------------------------
(* A delete.                                                               *)

LEMMA PopStep ==
  ASSUME SidecarInv, NEW r \in Req, DeletePops(r)
  PROVE  SidecarInv'
  <1>1. req[r] \in Request /\ req[r].op = "delete" /\ DeleteStands(req[r], req[r].at) /\ req[r].at = "pop"
    BY KindsOf DEF SidecarInv, DeletePops
  <1>2. UNCHANGED <<sidecarKept, cancelled, flight, mem>> BY DEF DeletePops
  <1>3. CASE req[r].keys = {}
    <2>1. req' = EndsAt(r, "done", "ok") /\ UNCHANGED <<building, asked>> BY <1>3 DEF DeletePops
    <2>2. Stands(req[r], "done", r) /\ "done" \in Places /\ "ok" \in Ends
      BY <1>1 DEF Stands, DeleteStands, Removing, Places, Ends
    <2>3. ReqsOK' /\ PutsOn /\ NoRuns /\ FindsOn /\ QueriesOn /\ NoChilds BY <1>1, <2>1, <2>2, MovesAlone DEF Finding
    <2> QED BY <1>2, <2>1, <2>3, AllStays
  <1>4. CASE req[r].keys # {}
    <2>1. PICK k \in req[r].keys :
            /\ building' = [building EXCEPT ![k] = None]
            /\ asked' = asked \cup ({building[k]} \ {None})
            /\ req' = [req EXCEPT ![r].key = k, ![r].id = building[k],
                                  ![r].at = IF building[k] = None THEN "remove" ELSE "cancel"]
      BY <1>4 DEF DeletePops
    <2>2. k \in SKey BY <1>1 DEF Request
    <2>3. building \in [SKey -> Req \cup {None}] /\ (building[k] = None \/ PutOf(req, building[k], k))
      BY <2>2 DEF SidecarInv, BuildingOK
    <2> DEFINE b == building[k]
               at == IF b = None THEN "remove" ELSE "cancel"
               y == [req[r] EXCEPT !.key = k, !.id = b, !.at = at]
    <2>4. b \in Req \cup {None} /\ at \in Places BY <2>2, <2>3 DEF Places, Removing
    <2>5. at \in {"remove", "cancel"} /\ (at = "cancel" => b # None) OBVIOUS
    <2>6. req' = [req EXCEPT ![r] = y] BY <2>1 DEF SidecarInv, ReqsOK, Request
    <2>7. asked' = asked \cup ({b} \ {None}) BY <2>1
    <2> HIDE DEF b, at
    <2>8. y \in Request /\ y.op = "delete" /\ y.at = at /\ y.key = k /\ y.id = b
      BY <1>1, <2>2, <2>4 DEF Request, Object
    <2> HIDE DEF y
    <2>9. Shape(y, r) BY <2>2, <2>5, <2>8 DEF Shape, Stands, DeleteStands, Removing
    <2>10. PutOn(req[r], y) /\ NoRun(req[r], y) /\ QueryOn(req[r], y) /\ NoChild(req[r], y)
      BY <1>1, <2>5, <2>8 DEF PutOn, NoRun, QueryOn, NoChild
    <2>11. ReqsOK' /\ req'[r] = y /\ (\A q \in Req : q # r => req'[q] = req[q]) /\ PutsOn /\ NoRuns /\ QueriesOn /\ NoChilds
      BY <2>6, <2>9, <2>10, Changes DEF SidecarInv
    <2>12. BuildingOK'
      <3>1. building' \in [SKey -> Req \cup {None}] BY <2>1, <2>3
      <3>2. ASSUME NEW x \in SKey PROVE building'[x] = None \/ PutOf(req', building'[x], x)
        <4>1. building'[x] \in {None, building[x]} BY <2>1, <2>3
        <4>2. building[x] = None \/ PutOf(req, building[x], x) BY DEF SidecarInv, BuildingOK
        <4> QED BY <4>1, <4>2, <2>11, PutsStay
      <3> QED BY <3>1, <3>2 DEF BuildingOK, PutOf
    <2>13. b # None => b \in Req /\ PutOf(req, b, k) /\ PutOf(req', b, k) /\ b \in asked'
      BY <2>3, <2>4, <2>7, <2>11, PutsStay DEF b
    <2>14. asked \subseteq Req /\ asked \subseteq asked' /\ asked' \subseteq Req BY <2>4, <2>7 DEF SidecarInv, AskedOK
    <2>15. \A d \in Req : d # r => req'[d] = req[d] BY <2>11
    <2>16. FindersOK'
      <3> SUFFICES ASSUME NEW d \in Req, req'[d].op = "delete", req'[d].at \in {"cancel", "forget"}
                   PROVE  req'[d].id \in asked' /\ PutOf(req', req'[d].id, req'[d].key)
        BY DEF FindersOK, PutOf
      <3>1. CASE d = r BY <3>1, <2>5, <2>8, <2>11, <2>13
      <3>2. CASE d # r
        <4>1. req[d].id \in asked /\ PutOf(req, req[d].id, req[d].key) BY <3>2, <2>15 DEF SidecarInv, FindersOK
        <4> QED BY <4>1, <3>2, <2>11, <2>14, <2>15, PutsStay
      <3> QED BY <3>1, <3>2
    <2>17. AskedOK'
      <3>1. ASSUME NEW c \in asked'
            PROVE  /\ req'[c].op = "put"
                   /\ c \in cancelled \/ \E d \in Req : DeleteAt(req', d, req'[c].key, {"cancel"}) /\ req'[d].id = c
        <4>1. CASE c \in asked
          <5>1. req[c].op = "put" /\ (c \in cancelled \/ \E d \in Req : DeleteAt(req, d, req[c].key, {"cancel"}) /\ req[d].id = c)
            BY <4>1 DEF SidecarInv, AskedOK
          <5>2. req'[c].op = "put" /\ req'[c].key = req[c].key BY <5>1, <4>1, <2>11, <2>14 DEF PutsOn, PutOn
          <5>3. \A d \in Req : DeleteAt(req, d, req[c].key, {"cancel"}) => d # r BY <1>1 DEF DeleteAt
          <5> QED BY <5>1, <5>2, <5>3, <2>15 DEF DeleteAt
        <4>2. CASE c \notin asked
          <5>1. c = b /\ b # None BY <4>2, <2>7
          <5>2. req'[c].op = "put" /\ req'[c].key = k BY <5>1, <2>13 DEF PutOf
          <5>3. at = "cancel" BY <5>1 DEF at
          <5> QED BY <5>1, <5>2, <5>3, <2>8, <2>11 DEF DeleteAt
        <4> QED BY <4>1, <4>2
      <3>2. cancelled' = cancelled /\ cancelled \subseteq Object BY <1>2 DEF SidecarInv, AskedOK
      <3> QED BY <3>1, <3>2, <2>14 DEF AskedOK, DeleteAt
    <2>18. GoneOK'
      <3> SUFFICES ASSUME NEW x \in SKey, disk[x] \in asked'
                   PROVE  \E d \in Req : DeleteAt(req', d, x, {"cancel", "forget", "remove"})
        BY <1>2 DEF GoneOK, DeleteAt, sidecarKept
      <3>1. CASE disk[x] \in asked
        <4>1. PICK d \in Req : DeleteAt(req, d, x, {"cancel", "forget", "remove"}) BY <3>1 DEF SidecarInv, GoneOK
        <4>2. d # r BY <4>1, <1>1 DEF DeleteAt
        <4> QED BY <4>1, <4>2, <2>15 DEF DeleteAt
      <3>2. CASE disk[x] \notin asked
        <4>1. disk[x] = b /\ b # None BY <3>2, <2>7
        <4>2. disk[x] # x /\ disk[x] # None BY <4>1, <2>13, SidecarAssumption
        <4>3. PutOf(req, b, x) BY <4>1, <4>2 DEF SidecarInv, DiskOK
        <4>4. x = k BY <4>1, <4>3, <2>13 DEF PutOf
        <4> QED BY <4>4, <2>5, <2>8, <2>11 DEF DeleteAt
      <3> QED BY <3>1, <3>2
    <2> QED BY <1>2, <2>11, <2>12, <2>14, <2>16, <2>17, <2>18, PartsStay DEF SidecarInv
  <1> QED BY <1>3, <1>4
\* A delete goes on: what it has at hand stays, and so do the other requests.
LEMMA DeleteMoves ==
  ASSUME SidecarInv, NEW r \in Req, NEW at \in Removing, req' = StepTo(r, at), req[r].op = "delete", req[r].at \in Removing
  PROVE  /\ ReqsOK' /\ PutsOn /\ NoRuns /\ QueriesOn /\ NoChilds
         /\ req'[r].at = at /\ Alike(req[r], req'[r]) /\ \A q \in Req : q # r => req'[q] = req[q]
         /\ req[r].key \in SKey
  <1>1. DeleteStands(req[r], req[r].at) BY KindsOf DEF SidecarInv
  <1>2. req[r].key \in SKey BY <1>1 DEF DeleteStands
  <1>3. Stands(req[r], at, r) BY <1>2 DEF Stands, DeleteStands, Removing
  <1>4. at \in Places /\ at # "child" /\ "ok" \in Ends BY DEF Places, Ends, Removing
  <1> QED BY <1>2, <1>3, <1>4, Moves DEF SidecarInv

\* A delete that is not at "cancel" leaves the builds that others are about to cancel to them.
LEMMA OthersCancel ==
  ASSUME SidecarInv, NEW r \in Req, req[r].at # "cancel", req'[r].at \notin {"cancel", "forget"},
         \A q \in Req : q # r => req'[q] = req[q], PutsOn, CancelledMore, asked' = asked
  PROVE  AskedOK' /\ FindersOK'
  <1>1. ASSUME NEW b \in asked
        PROVE  /\ req'[b].op = "put"
               /\ b \in cancelled' \/ \E d \in Req : DeleteAt(req', d, req'[b].key, {"cancel"}) /\ req'[d].id = b
    <2>1. b \in Req /\ req[b].op = "put" /\ (b \in cancelled \/ \E d \in Req : DeleteAt(req, d, req[b].key, {"cancel"}) /\ req[d].id = b)
      BY DEF SidecarInv, AskedOK
    <2>2. req'[b].op = "put" /\ req'[b].key = req[b].key BY <2>1 DEF PutsOn, PutOn
    <2>3. \A d \in Req : DeleteAt(req, d, req[b].key, {"cancel"}) => d # r BY DEF DeleteAt
    <2> QED BY <2>1, <2>2, <2>3 DEF DeleteAt, CancelledMore
  <1>2. ASSUME NEW d \in Req, req'[d].op = "delete", req'[d].at \in {"cancel", "forget"}
        PROVE  req'[d].id \in asked /\ PutOf(req', req'[d].id, req'[d].key)
    <2>1. req'[d] = req[d] BY <1>2
    <2>2. req[d].id \in asked /\ PutOf(req, req[d].id, req[d].key) BY <1>2, <2>1 DEF SidecarInv, FindersOK
    <2> QED BY <2>1, <2>2, PutsStay
  <1>3. asked \subseteq Req BY DEF SidecarInv, AskedOK
  <1> QED BY <1>1, <1>2, <1>3 DEF AskedOK, FindersOK, DeleteAt, PutOf, CancelledMore

LEMMA CancelStep ==
  ASSUME SidecarInv, NEW r \in Req, DeleteCancels(r)
  PROVE  SidecarInv'
  <1>1. req[r].op = "delete" /\ req[r].at = "cancel" /\ "forget" \in Removing /\ req[r].at \in Removing
    BY KindsOf DEF SidecarInv, DeleteCancels, Removing
  <1>2. req' = StepTo(r, "forget") /\ cancelled' = cancelled \cup {req[r].id} BY DEF DeleteCancels
  <1>3. UNCHANGED <<sidecarKept, building, flight, mem, asked>> BY DEF DeleteCancels
  <1>4. /\ ReqsOK' /\ PutsOn /\ NoRuns /\ QueriesOn /\ NoChilds
        /\ req'[r].at = "forget" /\ Alike(req[r], req'[r]) /\ \A q \in Req : q # r => req'[q] = req[q]
    BY <1>1, <1>2, DeleteMoves
  <1>5. req[r].id \in asked /\ PutOf(req, req[r].id, req[r].key) BY <1>1 DEF SidecarInv, FindersOK
  <1>6. FindersOK'
    <2> SUFFICES ASSUME NEW d \in Req, req'[d].op = "delete", req'[d].at \in {"cancel", "forget"}
                 PROVE  req'[d].id \in asked /\ PutOf(req', req'[d].id, req'[d].key)
      BY <1>3 DEF FindersOK, PutOf
    <2>1. req'[d].id = req[d].id /\ req'[d].key = req[d].key BY <1>4 DEF Alike
    <2>2. req[d].id \in asked /\ PutOf(req, req[d].id, req[d].key)
      <3>1. CASE d = r BY <3>1, <1>5
      <3>2. CASE d # r BY <3>2, <1>4 DEF SidecarInv, FindersOK
      <3> QED BY <3>1, <3>2
    <2> QED BY <2>1, <2>2, <1>4, PutsStay
  <1>7. AskedOK'
    <2>1. ASSUME NEW b \in asked
          PROVE  /\ req'[b].op = "put"
                 /\ b \in cancelled' \/ \E d \in Req : DeleteAt(req', d, req'[b].key, {"cancel"}) /\ req'[d].id = b
      <3>1. b \in Req /\ req[b].op = "put" /\ (b \in cancelled \/ \E d \in Req : DeleteAt(req, d, req[b].key, {"cancel"}) /\ req[d].id = b)
        BY DEF SidecarInv, AskedOK
      <3>2. req'[b].op = "put" /\ req'[b].key = req[b].key BY <3>1, <1>4 DEF PutsOn, PutOn
      <3>3. ASSUME NEW d \in Req, DeleteAt(req, d, req[b].key, {"cancel"}), req[d].id = b
            PROVE  b \in cancelled' \/ (DeleteAt(req', d, req'[b].key, {"cancel"}) /\ req'[d].id = b)
        <4>1. CASE d = r BY <4>1, <3>3, <1>2
        <4>2. CASE d # r BY <4>2, <3>2, <3>3, <1>4 DEF DeleteAt
        <4> QED BY <4>1, <4>2
      <3> QED BY <3>1, <3>2, <3>3, <1>2
    <2>2. cancelled' \subseteq Object /\ asked \subseteq Req BY <1>2, <1>5 DEF SidecarInv, AskedOK, Object
    <2> QED BY <2>1, <2>2, <1>3 DEF AskedOK, DeleteAt
  <1>8. GoneOK'
    <2> SUFFICES ASSUME NEW x \in SKey, disk[x] \in asked
                 PROVE  \E d \in Req : DeleteAt(req', d, x, {"cancel", "forget", "remove"})
      BY <1>3 DEF GoneOK, DeleteAt, sidecarKept
    <2>1. PICK d \in Req : DeleteAt(req, d, x, {"cancel", "forget", "remove"}) BY DEF SidecarInv, GoneOK
    <2> QED BY <2>1, <1>4 DEF DeleteAt, Alike
  <1> QED BY <1>3, <1>4, <1>6, <1>7, <1>8, PartsStay DEF SidecarInv

LEMMA ForgetStep ==
  ASSUME SidecarInv, NEW r \in Req, DeleteForgets(r)
  PROVE  SidecarInv'
  <1>1. req[r].op = "delete" /\ req[r].at = "forget" /\ "remove" \in Removing /\ req[r].at \in Removing
    BY KindsOf DEF SidecarInv, DeleteForgets, Removing
  <1>2. req' = StepTo(r, "remove") /\ flight' = [flight EXCEPT ![<<"snapshot", req[r].key>>] = None] BY DEF DeleteForgets
  <1>3. UNCHANGED <<sidecarKept, building, cancelled, mem, asked>> BY DEF DeleteForgets
  <1>4. /\ ReqsOK' /\ PutsOn /\ NoRuns /\ QueriesOn /\ NoChilds
        /\ req'[r].at = "remove" /\ Alike(req[r], req'[r]) /\ \A q \in Req : q # r => req'[q] = req[q]
        /\ req[r].key \in SKey
    BY <1>1, <1>2, DeleteMoves
  <1>5. req[r].id \in asked /\ PutOf(req, req[r].id, req[r].key) BY <1>1 DEF SidecarInv, FindersOK
  <1>6. FlightKept
    <2>1. flight \in [FlightName -> Req \cup {None}] BY DEF SidecarInv, FlightOK
    <2>2. flight' \in [FlightName -> Req \cup {None}] BY <2>1, <1>2
    <2>3. ASSUME NEW k \in SKey
          PROVE  flight'[<<"snapshot", k>>] = flight[<<"snapshot", k>>] \/ \E b \in asked : req[b].key = k
      <3>1. CASE k = req[r].key BY <3>1, <1>5 DEF PutOf
      <3>2. CASE k # req[r].key
        <4>1. <<"snapshot", k>> \in FlightName /\ <<"snapshot", k>> # <<"snapshot", req[r].key>> BY <3>2 DEF FlightName
        <4> QED BY <4>1, <2>1, <1>2
      <3> QED BY <3>1, <3>2
    <2> QED BY <2>2, <2>3 DEF FlightKept
  <1>7. CancelledMore BY <1>3 DEF SidecarInv, AskedOK, CancelledMore
  <1>8. AskedOK' /\ FindersOK' BY <1>1, <1>3, <1>4, <1>7, OthersCancel
  <1>9. GoneOK'
    <2> SUFFICES ASSUME NEW x \in SKey, disk[x] \in asked
                 PROVE  \E d \in Req : DeleteAt(req', d, x, {"cancel", "forget", "remove"})
      BY <1>3 DEF GoneOK, DeleteAt, sidecarKept
    <2>1. PICK d \in Req : DeleteAt(req, d, x, {"cancel", "forget", "remove"}) BY DEF SidecarInv, GoneOK
    <2> QED BY <2>1, <1>4 DEF DeleteAt, Alike
  <1> QED BY <1>3, <1>4, <1>6, <1>8, <1>9, PartsStay DEF SidecarInv

LEMMA RemoveStep ==
  ASSUME SidecarInv, NEW r \in Req, DeleteRemoves(r)
  PROVE  SidecarInv'
  <1> DEFINE k == req[r].key
  <1>1. req[r].op = "delete" /\ req[r].at = "remove" /\ req[r].at \in Removing
    BY KindsOf DEF SidecarInv, DeleteRemoves, Removing
  <1>2. PICK at \in {"next", "drop"} : req' = StepTo(r, at) BY DEF DeleteRemoves
  <1>3. /\ disk' = [disk EXCEPT ![k] = None] /\ lru' = Only(lru, {x \in SKey : disk'[x] # None})
        /\ cancelled' = cancelled \cup ({disk[k]} \ {None})
        /\ UNCHANGED <<indexed, building, flight, mem, asked>>
    BY DEF DeleteRemoves, OffDisk
  <1>4. /\ ReqsOK' /\ PutsOn /\ NoRuns /\ QueriesOn /\ NoChilds
        /\ req'[r].at = at /\ Alike(req[r], req'[r]) /\ (\A q \in Req : q # r => req'[q] = req[q])
        /\ k \in SKey
    <2>1. at \in Removing BY DEF Removing
    <2> QED BY <1>1, <1>2, <2>1, DeleteMoves
  <1> HIDE DEF k
  <1>5. /\ disk \in [SKey -> Object \cup {None}] /\ lru \in Seq(SKey) /\ indexed \subseteq Object
        /\ \A x \in SKey : disk[x] # None <=> x \in Elements(lru)
    BY DEF SidecarInv, DiskOK
  <1>6. disk' \in [SKey -> Object \cup {None}] /\ \A x \in SKey : disk'[x] = IF x = k THEN None ELSE disk[x] BY <1>3, <1>5
  <1>7. CancelledMore
    <2>1. disk[k] \in Object \cup {None} /\ cancelled \subseteq Object BY <1>4, <1>5 DEF SidecarInv, AskedOK
    <2> QED BY <2>1, <1>3 DEF CancelledMore
  <1>8. AskedOK' /\ FindersOK' BY <1>1, <1>3, <1>4, <1>7, OthersCancel
  <1>9. GoneOK'
    <2> SUFFICES ASSUME NEW x \in SKey, disk'[x] \in asked
                 PROVE  \E d \in Req : DeleteAt(req', d, x, {"cancel", "forget", "remove"})
      BY <1>3 DEF GoneOK, DeleteAt
    <2>1. None \notin asked BY SidecarAssumption DEF SidecarInv, AskedOK
    <2>2. x # k /\ disk[x] \in asked BY <2>1, <1>6
    <2>3. PICK d \in Req : DeleteAt(req, d, x, {"cancel", "forget", "remove"}) BY <2>2 DEF SidecarInv, GoneOK
    <2>4. d # r BY <2>2, <2>3 DEF DeleteAt, k
    <2> QED BY <2>3, <2>4, <1>4 DEF DeleteAt
  <1>10. DiskOK'
    <2> DEFINE S == {x \in SKey : disk'[x] # None}
    <2>1. lru' = Only(lru, S) BY <1>3
    <2>2. \A x \in SKey : x \in S <=> disk'[x] # None OBVIOUS
    <2> HIDE DEF S
    <2>3. lru' \in Seq(SKey) /\ Elements(lru') = Elements(lru) \cap S BY <1>5, <2>1, OnlyIs
    <2>4. \A x \in SKey : disk'[x] # None <=> x \in Elements(lru') BY <1>5, <1>6, <2>2, <2>3
    <2> QED BY <1>3, <1>4, <1>5, <1>6, <2>3, <2>4, DiskChanges DEF SidecarInv
  <1>11. RoomOK' BY <1>3, <1>6, RoomLess DEF SidecarInv
  <1> QED BY <1>3, <1>4, <1>8, <1>9, <1>10, <1>11, PartsStay DEF SidecarInv

LEMMA DropStep ==
  ASSUME SidecarInv, NEW r \in Req, DeleteDrops(r)
  PROVE  SidecarInv'
  <1>1. req[r] \in Request /\ req[r].op = "delete" /\ req[r].at \in {"drop", "next"} BY KindsOf DEF SidecarInv, DeleteDrops
  <1> DEFINE y == [req[r] EXCEPT !.at = "pop", !.keys = @ \ {req[r].key}, !.id = None]
  <1>2. y \in Request /\ y.op = "delete" /\ y.at = "pop" BY <1>1 DEF Request, Places
  <1>3. req' = [req EXCEPT ![r] = y] BY DEF DeleteDrops, SidecarInv, ReqsOK, Request
  <1> HIDE DEF y
  <1>4. Shape(y, r) BY <1>2 DEF Shape, Stands, DeleteStands, Removing
  <1>5. PutOn(req[r], y) /\ NoRun(req[r], y) /\ FindOn(req[r], y) /\ QueryOn(req[r], y) /\ NoChild(req[r], y)
    BY <1>1, <1>2 DEF PutOn, NoRun, FindOn, QueryOn, NoChild, Finding
  <1>6. ReqsOK' /\ PutsOn /\ NoRuns /\ FindsOn /\ QueriesOn /\ NoChilds BY <1>3, <1>4, <1>5, Changes DEF SidecarInv
  <1>7. mem' = mem \/ mem' = DropKeys({req[r].key}) BY DEF DeleteDrops
  <1>8. MemLess
    <2>1. MemOK BY DEF SidecarInv
    <2> QED BY <2>1, <1>6, <1>7, Dropped, PartsStay
  <1>9. UNCHANGED <<sidecarKept, building, cancelled, flight, asked>> BY DEF DeleteDrops
  <1> QED BY <1>6, <1>8, <1>9, PartsStay DEF SidecarInv
-----------------------------------------------------------------------------
(* The queries.                                                            *)

LEMMA Joined ==
  ASSUME NEW q \in Request, NEW on \in Req \X FlightName
  PROVE  LET y == [q EXCEPT !.at = "joined", !.on = on]
         IN  y \in Request /\ y.at = "joined" /\ Alike(q, y)
  BY DEF Request, Alike, Places, Parting

\* A flight of a variant or of a load that a query starts is none of a put's.
LEMMA OtherFlight ==
  ASSUME SidecarInv, NEW r \in Req, NEW kind \in {"variant", "load"}, NEW k \in SKey,
         flight' = [flight EXCEPT ![<<kind, k>>] = r]
  PROVE  FlightKept
  <1>1. flight \in [FlightName -> Req \cup {None}] BY DEF SidecarInv, FlightOK
  <1>2. <<kind, k>> \in FlightName /\ \A x \in SKey : <<"snapshot", x>> \in FlightName /\ <<"snapshot", x>> # <<kind, k>>
    BY DEF FlightName
  <1>3. flight' \in [FlightName -> Req \cup {None}] BY <1>1
  <1>4. \A x \in SKey : flight'[<<"snapshot", x>>] = flight[<<"snapshot", x>>] BY <1>1, <1>2
  <1> QED BY <1>3, <1>4 DEF FlightKept

\* A query changes, keeping what it reads, and perhaps starts a flight.
LEMMA QueryChanges ==
  ASSUME SidecarInv, NEW r \in Req, NEW y, req' = [req EXCEPT ![r] = y], req[r].op = "query",
         y \in Request, y.op = "query", y.keys = req[r].keys, QueryStands(y, y.at), y.at # "child", FlightKept, MemLess,
         UNCHANGED <<sidecarKept, building, cancelled, asked>>
  PROVE  SidecarInv'
  <1>1. Shape(y, r) BY DEF Shape, Stands, QueryStands, Parting
  <1>2. PutOn(req[r], y) /\ NoRun(req[r], y) /\ FindOn(req[r], y) /\ QueryOn(req[r], y) /\ NoChild(req[r], y)
    BY DEF PutOn, NoRun, FindOn, QueryOn, NoChild
  <1>3. ReqsOK' /\ PutsOn /\ NoRuns /\ FindsOn /\ QueriesOn /\ NoChilds BY <1>1, <1>2, Changes DEF SidecarInv
  <1> QED BY <1>3, PartsStay DEF SidecarInv

LEMMA WantStep ==
  ASSUME SidecarInv, NEW r \in Req, QueryWants(r)
  PROVE  SidecarInv'
  <1> DEFINE q == req[r]
  <1>1. q \in Request /\ q.op = "query" /\ QueryStands(q, q.at) /\ q.at = "want" BY KindsOf DEF SidecarInv, QueryWants
  <1>2. DOMAIN q.held = q.keys /\ q.keys \subseteq SKey /\ \A k \in q.keys : q.held[k] \in Object
    BY <1>1 DEF QueryStands, Request, Held
  <1>3. MemLess
    <2>1. mem' = mem BY DEF QueryWants
    <2> QED BY <2>1 DEF SidecarInv, MemOK, MemLess
  <1>4. UNCHANGED <<sidecarKept, building, cancelled, asked>> BY DEF QueryWants
  <1>5. CASE q.keys \ q.got = {}
    <2>1. PICK at \in {"touch", "merge"} : req' = StepTo(r, at) BY <1>5 DEF QueryWants
    <2>2. Stands(q, at, r) /\ at \in Places /\ at # "child" /\ "ok" \in Ends
      BY <1>1, <1>2 DEF Stands, QueryStands, Parting, Places, Ends
    <2>3. ReqsOK' /\ PutsOn /\ NoRuns /\ FindsOn /\ QueriesOn /\ NoChilds BY <1>1, <2>1, <2>2, MovesAlone
    <2>4. flight' = flight /\ mem' = mem BY <1>5 DEF QueryWants
    <2> QED BY <1>4, <2>3, <2>4, AllStays
  <1>6. CASE q.keys \ q.got # {}
    <2>1. PICK k \in q.keys \ q.got :
            LET name == <<"variant", k>>
                own == [q EXCEPT !.key = k, !.id = q.held[k]]
            IN  IF q.held[k] \in indexed
                  THEN req' = [req EXCEPT ![r] = [own EXCEPT !.at = "mem"]] /\ UNCHANGED flight
                  ELSE IF flight[name] = None
                  THEN /\ flight' = [flight EXCEPT ![name] = r]
                       /\ req' = [req EXCEPT ![r] = [own EXCEPT !.at = "build"]]
                  ELSE /\ UNCHANGED flight
                       /\ req' = [req EXCEPT ![r] = [own EXCEPT !.at = "joined", !.on = <<flight[name], name>>]]
      BY <1>6 DEF QueryWants
    <2> DEFINE own == [q EXCEPT !.key = k, !.id = q.held[k]]
               name == <<"variant", k>>
    <2>2. k \in SKey /\ k \in q.keys /\ q.held[k] \in Object BY <1>2
    <2>3. own \in Request /\ own.op = "query" /\ own.keys = q.keys /\ own.key = k /\ own.id = q.held[k] /\ own.held = q.held
      BY <1>1, <2>2 DEF Request
    <2>4. name \in FlightName /\ flight \in [FlightName -> Req \cup {None}] BY <2>2 DEF FlightName, SidecarInv, FlightOK
    <2>5. PICK y : /\ req' = [req EXCEPT ![r] = y]
                   /\ \/ y = [own EXCEPT !.at = "mem"]
                      \/ y = [own EXCEPT !.at = "build"]
                      \/ flight[name] # None /\ y = [own EXCEPT !.at = "joined", !.on = <<flight[name], name>>]
                   /\ flight' = flight \/ flight' = [flight EXCEPT ![name] = r]
      BY <2>1
    <2> HIDE DEF own
    <2>6. FlightKept
      <3>1. flight' = flight => FlightKept BY <2>4 DEF FlightKept
      <3>2. flight' = [flight EXCEPT ![<<"variant", k>>] = r] => FlightKept BY <2>2, OtherFlight
      <3> QED BY <3>1, <3>2, <2>5
    <2>7. y \in Request /\ y.at \in {"mem", "build", "joined"} /\ Alike(own, y)
      <3>1. CASE y = [own EXCEPT !.at = "mem"] BY <3>1, <2>3 DEF Request, Alike, Places, Parting
      <3>2. CASE y = [own EXCEPT !.at = "build"] BY <3>2, <2>3 DEF Request, Alike, Places, Parting
      <3>3. CASE flight[name] # None /\ y = [own EXCEPT !.at = "joined", !.on = <<flight[name], name>>]
        <4>1. <<flight[name], name>> \in Req \X FlightName BY <3>3, <2>4
        <4> QED BY <4>1, <3>3, <2>3, Joined
      <3> QED BY <2>5, <3>1, <3>2, <3>3
    <2>8. y.op = "query" /\ y.keys = q.keys /\ QueryStands(y, y.at) /\ y.at # "child"
      BY <1>2, <2>2, <2>3, <2>7 DEF Alike, QueryStands, Parting
    <2> QED BY <1>1, <1>3, <1>4, <2>5, <2>6, <2>7, <2>8, QueryChanges
  <1> QED BY <1>5, <1>6

LEMMA FindStep ==
  ASSUME SidecarInv, NEW r \in Req, QueryFinds(r)
  PROVE  SidecarInv'
  <1> DEFINE q == req[r]
             k == q.key
  <1>1. q \in Request /\ q.op = "query" /\ QueryStands(q, q.at) /\ q.at = "mem" BY KindsOf DEF SidecarInv, QueryFinds
  <1>2. DOMAIN q.held = q.keys /\ k \in q.keys /\ k \in SKey /\ q.id \in Object BY <1>1 DEF QueryStands, Request, Parting
  <1>3. UNCHANGED <<sidecarKept, building, cancelled, asked>> BY DEF QueryFinds
  <1>4. CASE {k} \in Elements(mem)
    <2> DEFINE y == [q EXCEPT !.at = "want", !.got = @ \cup {k}]
    <2>1. mem' = Moved(mem, {k}) /\ UNCHANGED flight
          /\ req' = [req EXCEPT ![r].at = "want", ![r].got = @ \cup {k}]
      BY <1>4 DEF QueryFinds
    <2>2. req' = [req EXCEPT ![r] = y] BY <2>1, <1>1 DEF SidecarInv, ReqsOK, Request
    <2>3. y \in Request /\ Alike(q, y) /\ y.at = "want" BY <1>1, <1>2 DEF Request, Alike, Places
    <2> HIDE DEF y
    <2>4. QueryStands(y, y.at) BY <1>2, <2>3 DEF QueryStands, Alike, Parting
    <2>5. MemLess
      <3>1. mem \in Seq(SUBSET SKey) /\ {k} \in SUBSET SKey BY <1>2 DEF SidecarInv, MemOK
      <3>2. Moved(mem, {k}) \in Seq(SUBSET SKey) /\ Elements(Moved(mem, {k})) = Elements(mem) \cup {{k}}
            /\ Len(Moved(mem, {k})) <= Len(mem)
        <4> DEFINE x == {k}
                   T == SUBSET SKey
        <4>1. mem \in Seq(T) /\ x \in T /\ x \in Elements(mem) BY <3>1, <1>4
        <4> HIDE DEF x, T
        <4>2. Moved(mem, x) \in Seq(T) /\ Elements(Moved(mem, x)) = Elements(mem) \cup {x} /\ Len(Moved(mem, x)) <= Len(mem)
          BY <4>1, MovedIs
        <4> QED BY <4>2 DEF x, T
      <3> QED BY <3>2, <2>1, <1>4 DEF MemLess
    <2>6. FlightKept BY <2>1 DEF SidecarInv, FlightOK, FlightKept
    <2> QED BY <1>1, <1>3, <2>2, <2>3, <2>4, <2>5, <2>6, QueryChanges DEF Alike
  <1>5. CASE {k} \notin Elements(mem)
    <2> DEFINE name == <<"load", k>>
    <2>1. mem' = mem /\ Join(r, name, "load") BY <1>5 DEF QueryFinds
    <2>2. name \in FlightName /\ flight \in [FlightName -> Req \cup {None}] BY <1>2 DEF FlightName, SidecarInv, FlightOK
    <2>3. MemLess BY <2>1 DEF MemLess, SidecarInv, MemOK
    <2>4. CASE flight[name] = None
      <3> DEFINE y == [q EXCEPT !.at = "load"]
      <3>1. req' = [req EXCEPT ![r] = y] BY <2>1, <2>4 DEF Join, StepTo, SidecarInv, ReqsOK
      <3>2. y \in Request /\ Alike(q, y) /\ y.at = "load" BY <1>1 DEF Request, Alike, Places, Parting
      <3>3. FlightKept
        <4>1. flight' = [flight EXCEPT ![<<"load", k>>] = r] BY <2>1, <2>4 DEF Join
        <4> QED BY <4>1, <1>2, OtherFlight
      <3> HIDE DEF y
      <3>4. QueryStands(y, y.at) BY <1>2, <3>2 DEF QueryStands, Alike, Parting
      <3> QED BY <1>1, <1>3, <2>3, <3>1, <3>2, <3>3, <3>4, QueryChanges DEF Alike
    <2>5. CASE flight[name] # None
      <3> DEFINE on == <<flight[name], name>>
                 y == [q EXCEPT !.at = "joined", !.on = on]
      <3>1. req' = [req EXCEPT ![r] = y] BY <2>1, <2>5, <1>1 DEF Join, SidecarInv, ReqsOK, Request
      <3>2. on \in Req \X FlightName BY <2>2, <2>5
      <3>3. FlightKept BY <2>1, <2>2, <2>5 DEF Join, FlightKept
      <3> HIDE DEF on
      <3>4. y \in Request /\ Alike(q, y) /\ y.at = "joined" BY <1>1, <3>2, Joined
      <3> HIDE DEF y
      <3>5. QueryStands(y, y.at) BY <1>2, <3>4 DEF QueryStands, Alike, Parting
      <3> QED BY <1>1, <1>3, <2>3, <3>1, <3>3, <3>4, <3>5, QueryChanges DEF Alike
    <2> QED BY <2>4, <2>5
  <1> QED BY <1>4, <1>5

\* What a load or a merge keeps in memory is within the budget, or is what its query reads.
LEMMA PutInMemory ==
  ASSUME SidecarInv, NEW r \in Req, req[r].op = "query", QueriesOn, NEW name \in SUBSET SKey, name \subseteq req[r].keys,
         req[r].keys \subseteq SKey, Put(name, PartsOf(r))
  PROVE  MemOK'
  <1> DEFINE T == SUBSET SKey
             m == Moved(mem, name)
             spared == Spared(PartsOf(r), name)
  <1>1. mem \in Seq(T) /\ name \in T BY DEF SidecarInv, MemOK
  <1>2. mem' \in Trimmed(m, spared) BY DEF Put
  <1>3. \A e \in spared : e \subseteq req[r].keys BY DEF Spared, PartsOf
  <1> HIDE DEF T, spared
  <1>4. m \in Seq(T) BY <1>1, MovedIs
  <1> HIDE DEF m
  <1>5. mem' \in Seq(T) /\ (Len(mem') <= SearchBudget \/ Elements(mem') \subseteq spared) BY <1>2, <1>4, TrimmedIs
  <1>6. req'[r].op = "query" /\ req'[r].keys = req[r].keys BY DEF QueriesOn, QueryOn
  <1>7. Len(mem') <= SearchBudget \/ \A e \in Elements(mem') : e \subseteq req'[r].keys BY <1>3, <1>5, <1>6
  <1>8. Len(mem') <= SearchBudget \/ \E q \in Req : req'[q].op = "query" /\ \A e \in Elements(mem') : e \subseteq req'[q].keys
    BY <1>6, <1>7
  <1> QED BY <1>5, <1>8 DEF MemOK, BudgetKept, T, Elements

LEMMA KeepStep ==
  ASSUME SidecarInv, NEW r \in Req, QueryKeeps(r)
  PROVE  SidecarInv'
  <1>1. req[r] \in Request /\ req[r].op = "query" /\ QueryStands(req[r], req[r].at) /\ req[r].at = "keep"
    BY KindsOf DEF SidecarInv, QueryKeeps
  <1>2. req[r].key \in req[r].keys /\ req[r].keys \subseteq SKey /\ DOMAIN req[r].held = req[r].keys /\ req[r].id \in Object
    BY <1>1 DEF QueryStands, Parting, Request
  <1>3. req' = EndsAt(r, "loaded", "loaded") /\ Put({req[r].key}, PartsOf(r)) BY DEF QueryKeeps
  <1>4. Stands(req[r], "loaded", r) /\ "loaded" \in Places /\ "loaded" \in Ends
    BY <1>1, <1>2 DEF Stands, QueryStands, Parting, Places, Ends
  <1>5. ReqsOK' /\ PutsOn /\ NoRuns /\ FindsOn /\ QueriesOn /\ NoChilds BY <1>1, <1>3, <1>4, MovesAlone
  <1>6. {req[r].key} \in SUBSET SKey /\ {req[r].key} \subseteq req[r].keys BY <1>2
  <1>7. MemOK' BY <1>1, <1>2, <1>3, <1>5, <1>6, PutInMemory
  <1>8. UNCHANGED <<sidecarKept, building, cancelled, flight, asked>> BY DEF QueryKeeps
  <1> QED BY <1>5, <1>7, <1>8, PartsStay DEF SidecarInv

LEMMA MergeStep ==
  ASSUME SidecarInv, NEW r \in Req, QueryMerges(r)
  PROVE  SidecarInv'
  <1>1. req[r] \in Request /\ req[r].op = "query" /\ QueryStands(req[r], req[r].at) /\ req[r].at = "merge"
    BY KindsOf DEF SidecarInv, QueryMerges
  <1>2. req[r].keys \subseteq SKey /\ DOMAIN req[r].held = req[r].keys BY <1>1 DEF QueryStands, Request
  <1>3. req' = StepTo(r, "touch") BY DEF QueryMerges
  <1>4. Stands(req[r], "touch", r) /\ "touch" \in Places /\ "ok" \in Ends
    BY <1>1, <1>2 DEF Stands, QueryStands, Parting, Places, Ends
  <1>5. ReqsOK' /\ PutsOn /\ NoRuns /\ FindsOn /\ QueriesOn /\ NoChilds BY <1>1, <1>3, <1>4, MovesAlone
  <1>6. MemOK'
    <2> DEFINE x == req[r].keys
               T == SUBSET SKey
    <2>1. CASE x \in Elements(mem)
      <3>1. mem' = Moved(mem, x) BY <2>1 DEF QueryMerges
      <3>2. mem \in Seq(T) /\ x \in T BY <1>2 DEF SidecarInv, MemOK
      <3> HIDE DEF x, T
      <3>3. Moved(mem, x) \in Seq(T) /\ Elements(Moved(mem, x)) = Elements(mem) \cup {x} /\ Len(Moved(mem, x)) <= Len(mem)
        BY <3>2, <2>1, MovedIs
      <3>4. MemLess BY <3>1, <3>3, <2>1 DEF MemLess, T
      <3> QED BY <3>4, <1>5, PartsStay
    <2>2. CASE x \notin Elements(mem)
      <3>1. Put(x, PartsOf(r)) BY <2>2 DEF QueryMerges
      <3> QED BY <3>1, <1>1, <1>2, <1>5, PutInMemory
    <2> QED BY <2>1, <2>2
  <1>7. UNCHANGED <<sidecarKept, building, cancelled, flight, asked>> BY DEF QueryMerges
  <1> QED BY <1>5, <1>6, <1>7, PartsStay DEF SidecarInv

\* One list after another.
LEMMA JoinedLists ==
  ASSUME NEW T, NEW s \in Seq(T), NEW t \in Seq(T)
  PROVE  s \o t \in Seq(T) /\ Elements(s \o t) = Elements(s) \cup Elements(t)
  <1>1. s \o t \in Seq(T) /\ Len(s \o t) = Len(s) + Len(t) /\ Len(s) \in Nat /\ Len(t) \in Nat OBVIOUS
  <1>2. /\ \A i \in 1..Len(s) : (s \o t)[i] = s[i] /\ i \in 1..Len(s \o t)
        /\ \A i \in 1..Len(t) : (s \o t)[i + Len(s)] = t[i] /\ i + Len(s) \in 1..Len(s \o t)
    OBVIOUS
  <1>3. \A i \in 1..Len(s \o t) : i \in 1..Len(s) \/ \E j \in 1..Len(t) : i = j + Len(s)
    <2> TAKE i \in 1..Len(s \o t)
    <2>1. CASE i <= Len(s) BY <2>1, <1>1
    <2>2. CASE ~(i <= Len(s))
      <3>1. i - Len(s) \in 1..Len(t) /\ i = (i - Len(s)) + Len(s) BY <2>2, <1>1
      <3> QED BY <3>1
    <2> QED BY <2>1, <2>2
  <1>4. DOMAIN (s \o t) = 1..Len(s \o t) /\ DOMAIN s = 1..Len(s) /\ DOMAIN t = 1..Len(t) BY <1>1
  <1>5. \A x \in Elements(s \o t) : x \in Elements(s) \cup Elements(t)
    <2> TAKE x \in Elements(s \o t)
    <2>1. PICK i \in 1..Len(s \o t) : x = (s \o t)[i] BY <1>4 DEF Elements
    <2>2. CASE i \in 1..Len(s) BY <2>1, <2>2, <1>2, <1>4 DEF Elements
    <2>3. CASE i \notin 1..Len(s)
      <3>1. PICK j \in 1..Len(t) : i = j + Len(s) BY <2>3, <1>3
      <3> QED BY <2>1, <3>1, <1>2, <1>4 DEF Elements
    <2> QED BY <2>2, <2>3
  <1>6. \A x \in Elements(s) \cup Elements(t) : x \in Elements(s \o t) BY <1>2, <1>4 DEF Elements
  <1> QED BY <1>1, <1>5, <1>6

LEMMA TouchStep ==
  ASSUME SidecarInv, NEW r \in Req, QueryTouches(r)
  PROVE  SidecarInv'
  <1> DEFINE live == {k \in req[r].keys : disk[k] = req[r].held[k]}
  <1>1. req[r] \in Request /\ req[r].op = "query" /\ QueryStands(req[r], req[r].at) /\ req[r].at = "touch"
    BY KindsOf DEF SidecarInv, QueryTouches
  <1>2. req[r].keys \subseteq SKey /\ DOMAIN req[r].held = req[r].keys /\ \A k \in req[r].keys : req[r].held[k] \in Object
    BY <1>1 DEF QueryStands, Request, Held
  <1>3. req' = EndsAt(r, "release", "ok") BY DEF QueryTouches
  <1>4. Stands(req[r], "release", r) /\ "release" \in Places /\ "ok" \in Ends
    BY <1>1, <1>2 DEF Stands, QueryStands, Parting, Places, Ends
  <1>5. ReqsOK' /\ PutsOn /\ NoRuns /\ FindsOn /\ QueriesOn /\ NoChilds BY <1>1, <1>3, <1>4, MovesAlone
  <1>6. PICK last \in Orders(live) : lru' = Only(lru, SKey \ live) \o last BY DEF QueryTouches
  <1>7. UNCHANGED <<disk, indexed, building, cancelled, flight, mem, asked>> BY DEF QueryTouches
  <1>8. DiskOK BY DEF SidecarInv
  <1>9. live \subseteq SKey /\ \A k \in live : k \in Elements(lru)
    <2>1. None \notin Object BY SidecarAssumption DEF Object
    <2> QED BY <2>1, <1>2, <1>8 DEF DiskOK
  <1> HIDE DEF live
  <1>10. last \in Seq(SKey) /\ Elements(last) = live
    <2>1. IsFiniteSet(live) BY <1>9, SidecarAssumption, FS_Subset
    <2>2. Cardinality(live) \in Nat BY <2>1, FS_CardinalityType
    <2>3. last \in [1..Cardinality(live) -> live] /\ Elements(last) = live BY DEF Orders
    <2> DEFINE n == Cardinality(live)
    <2>4. n \in Nat /\ last \in [1..n -> SKey] BY <2>2, <2>3, <1>9
    <2> HIDE DEF n
    <2> QED BY <2>3, <2>4
  <1>11. lru' \in Seq(SKey) /\ \A k \in SKey : k \in Elements(lru') <=> k \in Elements(lru)
    <2> DEFINE o == Only(lru, SKey \ live)
    <2>1. lru \in Seq(SKey) BY <1>8 DEF DiskOK
    <2>2. o \in Seq(SKey) /\ Elements(o) = Elements(lru) \cap (SKey \ live) BY <2>1, OnlyIs
    <2>3. lru' = o \o last BY <1>6
    <2> HIDE DEF o
    <2>4. lru' \in Seq(SKey) /\ Elements(lru') = Elements(o) \cup live BY <2>2, <2>3, <1>10, JoinedLists
    <2> QED BY <2>2, <2>4, <1>9
  <1>12. DiskOK' BY <1>5, <1>7, <1>8, <1>11, DiskChanges DEF DiskOK
  <1>13. RoomOK' /\ DiskLess BY <1>7, RoomStays DEF SidecarInv, DiskLess
  <1> QED BY <1>5, <1>7, <1>12, <1>13, PartsStay DEF SidecarInv
-----------------------------------------------------------------------------
(* The store takes in.                                                     *)

\* A list and one more.
LEMMA AppendedIs ==
  ASSUME NEW T, NEW o \in Seq(T), NEW x \in T
  PROVE  Append(o, x) \in Seq(T) /\ Elements(Append(o, x)) = Elements(o) \cup {x}
  <1>1. Append(o, x) \in Seq(T) /\ Len(o) \in Nat /\ DOMAIN Append(o, x) = 1..(Len(o) + 1) /\ DOMAIN o = 1..Len(o) OBVIOUS
  <1>2. Append(o, x)[Len(o) + 1] = x /\ \A i \in 1..Len(o) : Append(o, x)[i] = o[i] OBVIOUS
  <1>3. \A i \in 1..(Len(o) + 1) : i = Len(o) + 1 \/ i \in 1..Len(o) BY <1>1
  <1>4. Len(o) + 1 \in 1..(Len(o) + 1) /\ \A i \in 1..Len(o) : i \in 1..(Len(o) + 1) BY <1>1
  <1> QED BY <1>1, <1>2, <1>3, <1>4 DEF Elements

\* What comes fits when room was made for it: X are the keys it adds, Y those that get the variant.
LEMMA RoomFor ==
  ASSUME NEW stay, stay \subseteq OnDisk, NEW X, NEW Y, IsFiniteSet(X), IsFiniteSet(Y),
         Fits(stay, Cardinality(X) + Cardinality(Y), Cardinality(X)),
         \A x \in SKey : disk'[x] # None => x \in stay \cup X,
         \A x \in SKey : disk'[x] # None /\ disk'[x] \in indexed' => (x \in stay /\ disk[x] \in indexed) \/ x \in Y
  PROVE  RoomOK'
  <1> DEFINE V == {x \in stay : disk[x] \in indexed}
             E == {x \in SKey : disk'[x] # None}
             W == {x \in E : disk'[x] \in indexed'}
             a == Cardinality(X)
             b == Cardinality(Y)
             c == Cardinality(stay)
             v == Cardinality(V)
             e == Cardinality(E)
             w == Cardinality(W)
  <1>1. E \subseteq stay \cup X /\ W \subseteq V \cup Y /\ V \subseteq stay OBVIOUS
  <1>2. c + a <= MaxSnapshots /\ (c + v) + (a + b) <= MaxStorage BY DEF Fits, Storage
  <1>3. OnDisk' = E /\ Storage(OnDisk)' = e + w BY DEF OnDisk, Storage
  <1>4. IsFiniteSet(stay) BY SidecarAssumption, FS_Subset DEF OnDisk
  <1> HIDE DEF V, E, W
  <1>5. IsFiniteSet(V) BY <1>1, <1>4, FS_Subset
  <1>6. a \in Nat /\ b \in Nat /\ c \in Nat /\ v \in Nat BY <1>4, <1>5, FS_CardinalityType
  <1>7. e \in Nat /\ e <= c + a
    <2>1. Cardinality(stay \cup X) = c + a - Cardinality(stay \cap X) /\ IsFiniteSet(stay \cup X) BY <1>4, FS_Union
    <2>2. IsFiniteSet(stay \cap X) BY <1>4, FS_Subset
    <2>3. Cardinality(stay \cap X) \in Nat BY <2>2, FS_CardinalityType
    <2>4. IsFiniteSet(E) /\ e <= Cardinality(stay \cup X) BY <1>1, <2>1, FS_Subset
    <2>5. e \in Nat /\ Cardinality(stay \cup X) \in Nat BY <2>1, <2>4, FS_CardinalityType
    <2> HIDE DEF a, c, e
    <2> QED BY <1>6, <2>1, <2>3, <2>4, <2>5
  <1>8. w \in Nat /\ w <= v + b
    <2>1. Cardinality(V \cup Y) = v + b - Cardinality(V \cap Y) /\ IsFiniteSet(V \cup Y) BY <1>5, FS_Union
    <2>2. IsFiniteSet(V \cap Y) BY <1>5, FS_Subset
    <2>3. Cardinality(V \cap Y) \in Nat BY <2>2, FS_CardinalityType
    <2>4. IsFiniteSet(W) /\ w <= Cardinality(V \cup Y) BY <1>1, <2>1, FS_Subset
    <2>5. w \in Nat /\ Cardinality(V \cup Y) \in Nat BY <2>1, <2>4, FS_CardinalityType
    <2> HIDE DEF v, b, w
    <2> QED BY <1>6, <2>1, <2>3, <2>4, <2>5
  <1>9. e + 0 <= MaxSnapshots /\ (e + w) + 0 <= MaxStorage
    <2> HIDE DEF a, b, c, v, e, w
    <2> QED BY <1>2, <1>6, <1>7, <1>8, SidecarAssumption
  <1> QED BY <1>3, <1>9 DEF RoomOK, Fits

\* The victims of _make_room() are cancelled and dropped from memory.
LEMMA Evicted ==
  ASSUME SidecarInv, NEW stay, Evict(stay)
  PROVE  CancelledMore /\ MemLess
  <1>1. \A k \in OnDisk : disk[k] \in Object BY DEF SidecarInv, DiskOK, OnDisk
  <1>2. cancelled \subseteq Object BY DEF SidecarInv, AskedOK
  <1>3. CancelledMore BY <1>1, <1>2 DEF Evict, CancelledMore
  <1>4. MemLess
    <2>1. MemOK /\ mem' = DropKeys(OnDisk \ stay) BY DEF SidecarInv, Evict
    <2> QED BY <2>1, Dropped
  <1> QED BY <1>3, <1>4

\* No two keys have one snapshot.
LEMMA OneKey ==
  ASSUME DiskOK, NEW x \in SKey, NEW k \in SKey, disk[x] = disk[k], disk[x] # None
  PROVE  x = k
  <1>1. disk[x] = x \/ (PutOf(req, disk[x], x)) BY DEF DiskOK
  <1>2. disk[k] = k \/ (PutOf(req, disk[k], k)) BY DEF DiskOK
  <1> QED BY <1>1, <1>2, SidecarAssumption DEF PutOf

\* The result of a build comes to the disk, is discarded, or finds no room or its key taken.
LEMMA InstallStep ==
  ASSUME SidecarInv, NEW r \in Req, PutInstalls(r)
  PROVE  SidecarInv'
  <1> DEFINE k == req[r].key
             size == IF req[r].end = "built" THEN 2 ELSE 1
  <1>1. req[r] \in Request /\ req[r].op = "put" /\ PutStands(req[r], req[r].at, r) /\ req[r].at = "install"
    BY KindsOf DEF SidecarInv, PutInstalls
  <1>2. k \in SKey /\ req[r].id = r BY <1>1 DEF PutStands, Building
  <1>3. Stands(req[r], "leave", r) /\ "leave" \in Places /\ {"missing", "failed", "ok"} \subseteq Ends
        /\ "leave" \in Over /\ "install" \notin Over /\ "install" \in Running
    BY <1>1, <1>2 DEF Stands, PutStands, Building, Running, Places, Ends, Over
  <1>4. UNCHANGED <<building, flight, asked>> BY DEF PutInstalls
  <1>5. ASSUME NEW end \in {"missing", "failed", "ok"}, req' = EndsAt(r, "leave", end)
        PROVE  /\ ReqsOK' /\ PutsOn /\ NoRuns /\ FindsOn /\ QueriesOn /\ NoChilds
               /\ req'[r].at = "leave" /\ Alike(req[r], req'[r]) /\ \A q \in Req : q # r => req'[q] = req[q]
    <2>1. end \in Ends BY <1>3
    <2> QED BY <1>1, <1>3, <1>5, <2>1, Moves DEF SidecarInv
  <1>6. CASE InstallRefused(r) \/ MakeRoom(size, 1, {k}) = {}
    <2>1. /\ req' = EndsAt(r, "leave", IF InstallRefused(r) THEN "missing" ELSE "failed")
          /\ UNCHANGED <<sidecarKept, cancelled, mem>>
      BY <1>6 DEF PutInstalls
    <2>2. PICK end \in {"missing", "failed", "ok"} : req' = EndsAt(r, "leave", end) BY <2>1
    <2> QED BY <1>4, <1>5, <2>1, <2>2, AllStays
  <1>7. CASE ~(InstallRefused(r) \/ MakeRoom(size, 1, {k}) = {})
    <2>1. PICK stay \in MakeRoom(size, 1, {k}) :
            /\ Evict(stay)
            /\ IF disk[k] # None
                 THEN /\ req' = EndsAt(r, "leave", "failed")
                      /\ disk' = [x \in SKey |-> IF x \in stay THEN disk[x] ELSE None]
                      /\ lru' = Only(lru, stay)
                      /\ UNCHANGED indexed
                 ELSE /\ req' = EndsAt(r, "leave", "ok")
                      /\ disk' = [x \in SKey |-> IF x = k THEN r ELSE IF x \in stay THEN disk[x] ELSE None]
                      /\ lru' = Append(Only(lru, stay), k)
                      /\ indexed' = IF size = 2 THEN indexed \cup {r} ELSE indexed
      BY <1>7 DEF PutInstalls
    <2>2. PICK end \in {"missing", "failed", "ok"} : req' = EndsAt(r, "leave", end) BY <2>1
    <2>3. /\ ReqsOK' /\ PutsOn /\ NoRuns /\ FindsOn /\ QueriesOn /\ NoChilds
          /\ req'[r].at = "leave" /\ Alike(req[r], req'[r]) /\ \A q \in Req : q # r => req'[q] = req[q]
      BY <1>5, <2>2
    <2>4. CancelledMore /\ MemLess BY <2>1, Evicted
    <2>5. /\ disk \in [SKey -> Object \cup {None}] /\ lru \in Seq(SKey) /\ indexed \subseteq Object
          /\ \A x \in SKey : disk[x] # None <=> x \in Elements(lru)
      BY DEF SidecarInv, DiskOK
    <2>6. stay \subseteq OnDisk /\ Fits(stay, size, 1) BY <2>5, StaysIs DEF MakeRoom
    <2>7. PutOf(req', r, k) /\ PutOver(req', r) BY <1>1, <1>3, <2>3 DEF PutOf, PutOver, Alike
    <2>8. ~PutOver(req, r) BY <1>1, <1>3 DEF PutOver
    <2>9. r \notin indexed /\ \A x \in SKey : disk[x] # r
      BY <2>8, SidecarAssumption DEF SidecarInv, DiskOK
    <2>10. r \in Object /\ r # None BY SidecarAssumption DEF Object
    <2>11. lru' \in Seq(SKey) /\ Elements(lru') = (Elements(lru) \cap stay) \cup {x \in {k} : disk[k] = None}
      <3> DEFINE o == Only(lru, stay)
      <3>1. o \in Seq(SKey) /\ Elements(o) = Elements(lru) \cap stay BY <2>5, OnlyIs
      <3>2. lru' = IF disk[k] = None THEN Append(o, k) ELSE o BY <2>1
      <3> HIDE DEF o, k
      <3>3. Append(o, k) \in Seq(SKey) /\ Elements(Append(o, k)) = Elements(o) \cup {k} BY <1>2, <3>1, AppendedIs
      <3> QED BY <3>1, <3>2, <3>3
    <2>12. /\ disk' \in [SKey -> Object \cup {None}]
           /\ \A x \in SKey : disk'[x] = IF x = k /\ disk[k] = None THEN r ELSE IF x \in stay THEN disk[x] ELSE None
      BY <1>2, <2>1, <2>5, <2>10
    <2>13. indexed' = indexed \/ (indexed' = indexed \cup {r} /\ size = 2 /\ disk[k] = None) BY <2>1
    <2> HIDE DEF k
    <2>14. DiskOK'
      <3>1. \A x \in SKey : disk'[x] # None <=> x \in Elements(lru')
        BY <2>5, <2>6, <2>10, <2>11, <2>12 DEF OnDisk
      <3>2. \A x \in SKey : disk'[x] \in {disk[x], None} \/ (PutOf(req', disk'[x], x) /\ PutOver(req', disk'[x]))
        BY <2>7, <2>12
      <3>3. indexed' \subseteq Object /\ \A q \in Req : q \in indexed' => q \in indexed \/ PutOver(req', q)
        BY <2>5, <2>7, <2>10, <2>13
      <3> QED BY <2>3, <2>11, <2>12, <3>1, <3>2, <3>3, DiskChanges DEF SidecarInv
    <2>15. RoomOK'
      <3> DEFINE Y == {x \in {k} : size = 2}
      <3>1. IsFiniteSet({k}) /\ Cardinality({k}) = 1 BY FS_Singleton
      <3>2. IsFiniteSet({}) /\ Cardinality({}) = 0 BY FS_EmptySet
      <3>3. IsFiniteSet(Y) /\ Cardinality({k}) + Cardinality(Y) = size
        <4>1. CASE size = 2
          <5>1. Y = {k} BY <4>1
          <5> QED BY <5>1, <4>1, <3>1
        <4>2. CASE size # 2
          <5>1. Y = {} /\ size = 1 BY <4>2
          <5> QED BY <5>1, <3>1, <3>2
        <4> QED BY <4>1, <4>2
      <3>4. \A x \in SKey : disk'[x] # None => x \in stay \cup {k} BY <2>12
      <3>5. \A x \in SKey : disk'[x] # None /\ disk'[x] \in indexed' => (x \in stay /\ disk[x] \in indexed) \/ x \in Y
        BY <2>9, <2>12, <2>13
      <3> HIDE DEF Y, size
      <3>6. Fits(stay, Cardinality({k}) + Cardinality(Y), Cardinality({k})) BY <2>6, <3>1, <3>3
      <3> QED BY <2>6, <3>1, <3>3, <3>4, <3>5, <3>6, RoomFor
    <2>16. GoneOK'
      <3> SUFFICES ASSUME NEW x \in SKey, disk'[x] \in asked
                   PROVE  \E d \in Req : DeleteAt(req', d, x, {"cancel", "forget", "remove"})
        BY <1>4 DEF GoneOK, DeleteAt
      <3>1. None \notin asked BY SidecarAssumption DEF SidecarInv, AskedOK
      <3>2. PICK d \in Req : DeleteAt(req, d, x, {"cancel", "forget", "remove"})
        <4>1. CASE x = k /\ disk[k] = None
          <5>1. r \in asked /\ r \notin cancelled BY <4>1, <1>7, <2>12 DEF InstallRefused
          <5>2. PICK d \in Req : DeleteAt(req, d, req[r].key, {"cancel"}) BY <5>1 DEF SidecarInv, AskedOK
          <5> QED BY <5>2, <4>1 DEF DeleteAt, k
        <4>2. CASE ~(x = k /\ disk[k] = None)
          <5>1. disk[x] \in asked BY <4>2, <2>12, <3>1
          <5> QED BY <5>1 DEF SidecarInv, GoneOK
        <4> QED BY <4>1, <4>2
      <3>3. d # r BY <3>2, <1>1 DEF DeleteAt
      <3> QED BY <3>2, <3>3, <2>3 DEF DeleteAt
    <2> QED BY <1>4, <2>3, <2>4, <2>14, <2>15, <2>16, PartsStay DEF SidecarInv
  <1> QED BY <1>6, <1>7

\* A variant is added to the snapshot it was built of.
LEMMA AddStep ==
  ASSUME SidecarInv, NEW r \in Req, QueryAdds(r)
  PROVE  SidecarInv'
  <1> DEFINE k == req[r].key
             id == req[r].id
  <1>1. req[r] \in Request /\ req[r].op = "query" /\ QueryStands(req[r], req[r].at) /\ req[r].at = "add"
    BY KindsOf DEF SidecarInv, QueryAdds
  <1>2. DOMAIN req[r].held = req[r].keys /\ k \in req[r].keys /\ k \in SKey /\ id \in Object
    BY <1>1 DEF QueryStands, Request, Parting
  <1>3. Stands(req[r], "land", r) /\ "land" \in Places /\ {"missing", "failed"} \subseteq Ends
    BY <1>1, <1>2 DEF Stands, QueryStands, Parting, Places, Ends
  <1>4. UNCHANGED <<building, flight, asked>> BY DEF QueryAdds
  <1>5. ASSUME NEW end \in {"missing", "failed"}, req' = StepTo(r, "land") \/ req' = EndsAt(r, "land", end)
        PROVE  ReqsOK' /\ PutsOn /\ NoRuns /\ FindsOn /\ QueriesOn /\ NoChilds
    <2>1. end \in Ends BY <1>3
    <2> QED BY <1>1, <1>3, <1>5, <2>1, MovesAlone
  <1>6. CASE disk[k] # id \/ MakeRoom(1, 0, {k}) = {}
    <2>1. /\ req' = EndsAt(r, "land", IF disk[k] # id THEN "missing" ELSE "failed")
          /\ UNCHANGED <<sidecarKept, cancelled, mem>>
      BY <1>6 DEF QueryAdds
    <2>2. PICK end \in {"missing", "failed"} : req' = EndsAt(r, "land", end) BY <2>1
    <2>3. ReqsOK' /\ PutsOn /\ NoRuns /\ FindsOn /\ QueriesOn /\ NoChilds BY <1>5, <2>2
    <2> QED BY <1>4, <2>1, <2>3, AllStays
  <1>7. CASE ~(disk[k] # id \/ MakeRoom(1, 0, {k}) = {})
    <2>1. PICK stay \in MakeRoom(1, 0, {k}) :
            /\ Evict(stay)
            /\ disk' = [x \in SKey |-> IF x \in stay THEN disk[x] ELSE None]
            /\ lru' = Only(lru, stay)
            /\ indexed' = indexed \cup {id}
            /\ req' = StepTo(r, "land")
      BY <1>7 DEF QueryAdds
    <2>2. disk[k] = id BY <1>7
    <2>3. ReqsOK' /\ PutsOn /\ NoRuns /\ FindsOn /\ QueriesOn /\ NoChilds BY <1>5, <2>1
    <2>4. CancelledMore /\ MemLess BY <2>1, Evicted
    <2> HIDE DEF k, id
    <2>5. /\ disk \in [SKey -> Object \cup {None}] /\ lru \in Seq(SKey) /\ indexed \subseteq Object
          /\ \A x \in SKey : disk[x] # None <=> x \in Elements(lru)
      BY DEF SidecarInv, DiskOK
    <2>6. stay \subseteq OnDisk /\ OnDisk \ stay \subseteq OnDisk \ {k} /\ Fits(stay, 1, 0)
      <3> DEFINE c == {x \in OnDisk \ {k} : Uses(x) = {}}
      <3>1. stay \in Stays(c, 1, 0) /\ c \subseteq OnDisk \ {k} BY <2>1 DEF MakeRoom
      <3> HIDE DEF c
      <3> QED BY <2>5, <3>1, StaysIs
    <2>7. id # None BY <1>2, SidecarAssumption DEF Object
    <2>8. k \in stay BY <1>2, <2>2, <2>6, <2>7 DEF OnDisk
    <2>9. disk' \in [SKey -> Object \cup {None}] /\ \A x \in SKey : disk'[x] = IF x \in stay THEN disk[x] ELSE None
      BY <2>1, <2>5
    <2>10. DiskOK'
      <3>1. lru' \in Seq(SKey) /\ Elements(lru') = Elements(lru) \cap stay BY <2>1, <2>5, OnlyIs
      <3>2. \A x \in SKey : disk'[x] # None <=> x \in Elements(lru') BY <2>5, <2>6, <2>9, <3>1 DEF OnDisk
      <3>3. \A x \in SKey : disk'[x] \in {disk[x], None} BY <2>9
      <3>4. id \in Req => PutOver(req', id)
        <4> SUFFICES ASSUME id \in Req PROVE PutOver(req', id) OBVIOUS
        <4>1. PutOf(req, id, k) /\ PutOver(req, id) BY <1>2, <2>2, <2>7, SidecarAssumption DEF SidecarInv, DiskOK
        <4> QED BY <4>1, <2>3, PutsStay
      <3>5. indexed' \subseteq Object /\ \A q \in Req : q \in indexed' => q \in indexed \/ PutOver(req', q)
        BY <1>2, <2>1, <2>5, <3>4
      <3> QED BY <2>3, <2>9, <3>1, <3>2, <3>3, <3>5, DiskChanges DEF SidecarInv
    <2>11. RoomOK'
      <3>1. IsFiniteSet({k}) /\ Cardinality({k}) = 1 BY FS_Singleton
      <3>2. IsFiniteSet({}) /\ Cardinality({}) = 0 BY FS_EmptySet
      <3>3. \A x \in SKey : disk'[x] # None => x \in stay \cup {} BY <2>9
      <3>4. ASSUME NEW x \in SKey, disk'[x] # None, disk'[x] \in indexed'
            PROVE  (x \in stay /\ disk[x] \in indexed) \/ x \in {k}
        <4>1. x \in stay /\ disk[x] # None /\ (disk[x] \in indexed \/ disk[x] = id) BY <2>1, <2>9, <3>4
        <4>2. disk[x] = disk[k] => x = k BY <1>2, <4>1, OneKey DEF SidecarInv
        <4> QED BY <4>1, <4>2, <2>2
      <3>5. Fits(stay, Cardinality({}) + Cardinality({k}), Cardinality({})) BY <2>6, <3>1, <3>2
      <3> QED BY <2>6, <3>1, <3>2, <3>3, <3>4, <3>5, RoomFor
    <2>12. DiskLess BY <2>9 DEF DiskLess
    <2> QED BY <1>4, <2>3, <2>4, <2>10, <2>11, <2>12, PartsStay DEF SidecarInv
  <1> QED BY <1>6, <1>7
-----------------------------------------------------------------------------
(* The sidecar.                                                            *)

\* reconcile() leaves the invariant.
LEMMA SidecarStarts ==
  ASSUME SidecarInit
  PROVE  SidecarInv
  <1>1. PICK ks \in SUBSET SKey, vs \in SUBSET SKey :
          /\ vs \subseteq ks
          /\ Cardinality(ks) <= MaxSnapshots /\ Cardinality(ks) + Cardinality(vs) <= MaxStorage
          /\ disk = [k \in SKey |-> IF k \in ks THEN k ELSE None]
          /\ lru \in Orders(ks)
          /\ indexed = vs
    BY DEF SidecarInit
  <1>2. /\ building = [k \in SKey |-> None] /\ cancelled = {} /\ asked = {}
        /\ flight = [f \in FlightName |-> None] /\ mem = <<>> /\ req = [r \in Req |-> Idle]
    BY DEF SidecarInit
  <1>3. \A r \in Req : req[r] = Idle BY <1>2
  <1>4. ReqsOK
    <2>1. <<>> \in [{} -> Object] /\ {} \in SUBSET SKey OBVIOUS
    <2>2. <<>> \in Held BY <2>1 DEF Held
    <2>3. Idle \in Request BY <2>2 DEF Idle, Request, Places, Ends
    <2>4. \A r \in Req : Stands(Idle, Idle.at, r) BY DEF Idle, Stands, PutStands, DeleteStands, QueryStands
    <2> QED BY <1>2, <2>3, <2>4 DEF ReqsOK, Shape
  <1>5. \A k \in SKey : disk[k] # None <=> k \in ks BY <1>1, SidecarAssumption
  <1>6. IsFiniteSet(ks) /\ IsFiniteSet(vs) BY <1>1, SidecarAssumption, FS_Subset
  <1>7. Cardinality(ks) \in Nat /\ Cardinality(vs) \in Nat BY <1>6, FS_CardinalityType
  <1>8. DiskOK
    <2>1. lru \in Seq(SKey) /\ Elements(lru) = ks
      <3> DEFINE n == Cardinality(ks)
      <3>1. lru \in [1..n -> ks] /\ Elements(lru) = ks BY <1>1 DEF Orders
      <3>2. n \in Nat /\ lru \in [1..n -> SKey] BY <1>7, <3>1
      <3> HIDE DEF n
      <3> QED BY <3>1, <3>2
    <2>2. disk \in [SKey -> Object \cup {None}] /\ \A k \in SKey : disk[k] = k \/ disk[k] = None BY <1>1 DEF Object
    <2>3. indexed \subseteq SKey /\ Req \cap indexed = {} BY <1>1, SidecarAssumption
    <2> QED BY <1>5, <2>1, <2>2, <2>3 DEF DiskOK, Object
  <1>9. RoomOK
    <2>1. OnDisk = ks BY <1>5 DEF OnDisk
    <2>2. {k \in ks : disk[k] \in indexed} = vs BY <1>1
    <2>3. Storage(OnDisk) = Cardinality(ks) + Cardinality(vs) BY <2>1, <2>2 DEF Storage
    <2>4. Cardinality(ks) + 0 <= MaxSnapshots /\ (Cardinality(ks) + Cardinality(vs)) + 0 <= MaxStorage
      BY <1>1, <1>7, SidecarAssumption
    <2> QED BY <2>1, <2>3, <2>4 DEF RoomOK, Fits
  <1>10. BuildingOK BY <1>2 DEF BuildingOK
  <1>11. AskedOK /\ FindersOK BY <1>2, <1>3 DEF AskedOK, FindersOK, Idle
  <1>12. GoneOK BY <1>2 DEF GoneOK
  <1>13. FlightOK BY <1>2, <1>3 DEF FlightOK, Idle
  <1>14. SlotsOK
    <2>1. Children = {} BY <1>3 DEF Children, Idle
    <2>2. Cardinality({}) = 0 BY FS_EmptySet
    <2> QED BY <2>1, <2>2, SidecarAssumption DEF SlotsOK
  <1>15. MemOK
    <2>1. mem \in Seq(SUBSET SKey) /\ Len(mem) = 0 BY <1>2
    <2> QED BY <2>1, SidecarAssumption DEF MemOK, BudgetKept
  <1> QED BY <1>4, <1>8, <1>9, <1>10, <1>11, <1>12, <1>13, <1>14, <1>15 DEF SidecarInv

\* Every step of a request keeps it.
LEMMA SidecarSteps ==
  ASSUME SidecarInv, SidecarNext
  PROVE  SidecarInv'
  <1>1. PICK r \in Req : Arrives(r) \/ Works(r) BY DEF SidecarNext
  <1>2. CASE Arrives(r) BY <1>2, PutArrivesStep, DeleteArrivesStep, QueryArrivesStep DEF Arrives
  <1>3. CASE PutLooks(r) \/ PutRegisters(r) \/ PutExtracts(r) \/ PutInstalls(r) \/ PutLeaves(r) \/ PutLands(r)
    BY <1>3, LookStep, RegisterStep, ExtractStep, InstallStep, LeaveStep, PutLandsStep
  <1>4. CASE SlotComes(r) \/ ChildEnds(r) BY <1>4, SlotStep, ChildStep
  <1>5. CASE \/ DeleteLists(r) \/ DeletePops(r) \/ DeleteCancels(r) \/ DeleteForgets(r) \/ DeleteRemoves(r)
             \/ DeleteDrops(r)
    BY <1>5, DeleteListsStep, PopStep, CancelStep, ForgetStep, RemoveStep, DropStep
  <1>6. CASE QueryWants(r) \/ QueryBuilds(r) \/ QueryAdds(r) \/ QueryLands(r) \/ QueryFlown(r) \/ QueryFinds(r)
    BY <1>6, WantStep, BuildStep, AddStep, QueryLandsStep, FlownStep, FindStep
  <1>7. CASE QueryLoads(r) \/ QueryKeeps(r) \/ QueryMerges(r) \/ QueryTouches(r) \/ QueryReleases(r)
    BY <1>7, LoadStep, KeepStep, MergeStep, TouchStep, ReleaseStep
  <1> QED BY <1>1, <1>2, <1>3, <1>4, <1>5, <1>6, <1>7 DEF Works

LEMMA SidecarStutters ==
  ASSUME SidecarInv, UNCHANGED sidecarVars
  PROVE  SidecarInv'
  <1>1. UNCHANGED <<sidecarKept, building, cancelled, flight, mem, asked>> /\ req' = req
    BY DEF sidecarVars, sidecarKept
  <1>2. ReqsOK'
    <2>1. ReqsOK BY DEF SidecarInv
    <2> QED BY <1>1, <2>1 DEF ReqsOK, Shape, Stands, PutStands, DeleteStands, QueryStands, Request
  <1>3. PutsOn /\ NoRuns /\ FindsOn /\ QueriesOn /\ NoChilds
    BY <1>1 DEF PutsOn, PutOn, NoRuns, NoRun, FindsOn, FindOn, QueriesOn, QueryOn, NoChilds, NoChild
  <1> QED BY <1>1, <1>2, <1>3, AllStays

\* It has the properties of the run.
LEMMA InvIsSound ==
  ASSUME SidecarInv
  PROVE  SidecarSound
  <1>1. SidecarTypeOK
    <2>1. Object \cup {None} = Req \cup SKey \cup {None} BY DEF Object
    <2> QED BY <2>1 DEF SidecarInv, DiskOK, BuildingOK, FlightOK, AskedOK, SidecarTypeOK, Object
  <1>2. SidecarCapsHold BY DEF SidecarInv, RoomOK, SlotsOK, SidecarCapsHold
  <1>3. DeletedGoes BY DEF SidecarInv, GoneOK, DeleteAt, DeletedGoes
  <1>4. OneSidecarBuild
    <2> SUFFICES ASSUME NEW a \in Req, NEW b \in Req, a # b, {req[a].op, req[b].op} = {"put"}, req[a].key = req[b].key,
                        {req[a].at, req[b].at} \subseteq {"extract", "slot", "child", "install"}
                 PROVE  \E d \in asked : req[d].key = req[a].key
      BY DEF OneSidecarBuild
    <2>1. req[a].op = "put" /\ req[b].op = "put" /\ req[a].at \in Running /\ req[b].at \in Running
      BY DEF Running, Building
    <2> QED BY <2>1 DEF SidecarInv, FlightOK
  <1>5. BudgetKept BY DEF SidecarInv, MemOK
  <1> QED BY <1>1, <1>2, <1>3, <1>4, <1>5 DEF SidecarSound

\* The code sidecar keeps its caps, whichever snapshots come, get their variant or are evicted; a build that a
\* DELETE found never stays on disk; two builds of a key run at once only after a DELETE of it; and what is
\* loaded is within the budget or what one query reads.
THEOREM SidecarIsSound == SidecarInit /\ [][SidecarNext]_sidecarVars => []SidecarSound
  <1>1. SidecarInit => SidecarInv BY SidecarStarts
  <1>2. SidecarInv /\ [SidecarNext]_sidecarVars => SidecarInv' BY SidecarSteps, SidecarStutters
  <1>3. SidecarInv => SidecarSound BY InvIsSound
  <1> QED BY <1>1, <1>2, <1>3, PTL

\* Which keys a step may take off the disk.
LEMMA EvictedUnused ==
  ASSUME SidecarInv, NEW bytes, NEW count, NEW protect, NEW stay \in MakeRoom(bytes, count, protect),
         NEW k \in SKey, disk[k] # None, k \notin stay
  PROVE  Uses(k) = {}
  <1> DEFINE c == {x \in OnDisk \ protect : Uses(x) = {}}
  <1>1. stay \in Stays(c, bytes, count) /\ \A x \in c : Uses(x) = {} BY DEF MakeRoom
  <1>2. lru \in Seq(SKey) BY DEF SidecarInv, DiskOK
  <1>3. k \in OnDisk \ stay BY DEF OnDisk
  <1> HIDE DEF c
  <1>4. k \in c BY <1>1, <1>2, <1>3, StaysIs
  <1> QED BY <1>1, <1>4

InUseStays ==
  \A k \in SKey : disk[k] # None /\ disk'[k] = None /\ Uses(k) # {}
    => \E d \in Req : req[d].at = "remove" /\ req[d].key = k

\* Only a DELETE takes what is in use off the disk.
LEMMA UsedStay ==
  ASSUME SidecarInv, [SidecarNext]_sidecarVars
  PROVE  InUseStays
  <1>1. disk' = disk => InUseStays BY DEF InUseStays
  <1>2. CASE UNCHANGED sidecarVars BY <1>1, <1>2 DEF sidecarVars
  <1>3. ASSUME NEW r \in Req, Arrives(r) \/ Works(r) PROVE InUseStays
    <2>1. CASE Arrives(r) BY <2>1, <1>1 DEF Arrives, PutArrives, DeleteArrives, QueryArrives, sidecarKept
    <2>2. CASE PutLooks(r) \/ PutRegisters(r) \/ PutExtracts(r) \/ PutLeaves(r) \/ PutLands(r) \/ SlotComes(r) \/ ChildEnds(r)
      BY <2>2, <1>1 DEF PutLooks, PutRegisters, PutExtracts, PutLeaves, PutLands, SlotComes, ChildEnds, sidecarKept
    <2>3. CASE DeleteLists(r) \/ DeletePops(r) \/ DeleteCancels(r) \/ DeleteForgets(r) \/ DeleteDrops(r)
      BY <2>3, <1>1 DEF DeleteLists, DeletePops, DeleteCancels, DeleteForgets, DeleteDrops, sidecarKept
    <2>4. CASE QueryWants(r) \/ QueryBuilds(r) \/ QueryLands(r) \/ QueryFlown(r) \/ QueryFinds(r) \/ QueryLoads(r)
      BY <2>4, <1>1 DEF QueryWants, QueryBuilds, QueryLands, QueryFlown, QueryFinds, QueryLoads, sidecarKept
    <2>5. CASE QueryKeeps(r) \/ QueryMerges(r) \/ QueryTouches(r) \/ QueryReleases(r)
      BY <2>5, <1>1 DEF QueryKeeps, QueryMerges, QueryTouches, QueryReleases, sidecarKept
    <2>6. CASE DeleteRemoves(r)
      <3>1. req[r].at = "remove" /\ disk' = [disk EXCEPT ![req[r].key] = None] BY <2>6 DEF DeleteRemoves, OffDisk
      <3>2. disk \in [SKey -> Object \cup {None}] BY DEF SidecarInv, DiskOK
      <3> QED BY <3>1, <3>2 DEF InUseStays
    <2>7. CASE PutInstalls(r)
      <3>1. \/ disk' = disk
            \/ \E bytes \in {1, 2} : \E stay \in MakeRoom(bytes, 1, {req[r].key}) :
                 \A k \in SKey : k \in stay => disk'[k] = disk[k] \/ disk'[k] = r
        BY <2>7 DEF PutInstalls, sidecarKept
      <3>2. r # None BY SidecarAssumption
      <3> QED BY <3>1, <3>2, <1>1, EvictedUnused DEF InUseStays
    <2>8. CASE QueryAdds(r)
      <3>1. \/ disk' = disk
            \/ \E stay \in MakeRoom(1, 0, {req[r].key}) : \A k \in SKey : k \in stay => disk'[k] = disk[k]
        BY <2>8 DEF QueryAdds, sidecarKept
      <3> QED BY <3>1, <1>1, EvictedUnused DEF InUseStays
    <2> QED BY <1>3, <2>1, <2>2, <2>3, <2>4, <2>5, <2>6, <2>7, <2>8 DEF Works
  <1> QED BY <1>2, <1>3 DEF SidecarNext

\* A snapshot that a query holds leaves the disk by a DELETE of it only: neither a PUT nor a build on demand makes
\* room of it.
THEOREM HeldStays == SidecarInit /\ [][SidecarNext]_sidecarVars => InUseKept
  <1>1. SidecarInit => SidecarInv BY SidecarStarts
  <1>2. SidecarInv /\ [SidecarNext]_sidecarVars => SidecarInv' BY SidecarSteps, SidecarStutters
  <1>3. SidecarInv /\ [SidecarNext]_sidecarVars =>
          [\A k \in SKey : disk[k] # None /\ disk'[k] = None /\ Uses(k) # {}
             => \E d \in Req : req[d].at = "remove" /\ req[d].key = k]_sidecarVars
    BY UsedStay DEF InUseStays
  <1> QED BY <1>1, <1>2, <1>3, PTL DEF InUseKept
=============================================================================
