----------------------------- MODULE CodeSidecar -----------------------------
(***************************************************************************)
(* The code sidecar while it serves: sidecars/code/src/vaultgate_code/     *)
(* {service,store,builder,indexes,memory,query}.py.  Every request has a   *)
(* thread of its own, and a step here is what a thread does between two    *)
(* releases of a lock.  A snapshot object is named by the PUT that built   *)
(* it, or by its key when it was found at start-up; its size is one, and   *)
(* one more with the variant.                                              *)
(***************************************************************************)
EXTENDS Integers, Subsequences

CONSTANTS
  SKey, Owned,           \* snapshot keys; those of the owner that is deleted as one
  Req,                   \* requests
  None,                  \* no snapshot, no flight
  MaxSnapshots, MaxStorage, Concurrency, SearchBudget

ASSUME SidecarAssumption ==
  /\ Owned \subseteq SKey /\ None \notin SKey \cup Req /\ SKey \cap Req = {}
  /\ IsFiniteSet(SKey) /\ IsFiniteSet(Req)
  /\ {MaxSnapshots, MaxStorage, Concurrency, SearchBudget} \subseteq Nat

VARIABLES
  disk,      \* Store._snapshots: key -> the snapshot object, or None
  lru,       \* the keys on disk by last_used_at, the oldest first
  indexed,   \* the snapshot objects that have the variant
  building,  \* Service._building: key -> the build's state, or None
  cancelled, \* the snapshot objects whose cancel event is set
  flight,    \* Flights._running: name -> the request that runs it, or None
  mem,       \* Loaded._entries, least recently used first: a variant is {key}, a merge its keys
  req,       \* the requests
  asked      \* the snapshot objects that were being built when a DELETE of their key came
sidecarVars == <<disk, lru, indexed, building, cancelled, flight, mem, req, asked>>
sidecarKept == <<disk, lru, indexed>>

FlightName == {"snapshot", "variant", "load"} \X SKey
Idle == [op |-> "none", at |-> "idle", keys |-> {}, key |-> None, id |-> None, held |-> <<>>,
         on |-> None, got |-> {}, end |-> "none"]

Elements(s) == {s[i] : i \in DOMAIN s}
Only(s, S) == Kept(s, {i \in DOMAIN s : s[i] \in S})

Orders(S) == {s \in [1..Cardinality(S) -> S] : Elements(s) = S}

SidecarTypeOK ==
  /\ disk \in [SKey -> Req \cup SKey \cup {None}]
  /\ \A k \in SKey : disk[k] # None <=> k \in Elements(lru)
  /\ building \in [SKey -> Req \cup {None}]
  /\ flight \in [FlightName -> Req \cup {None}]
  /\ {indexed, cancelled, asked} \subseteq SUBSET (Req \cup SKey)

Uses(k) == {r \in Req : k \in DOMAIN req[r].held}
Children == {r \in Req : req[r].at = "child"}
OnDisk == {k \in SKey : disk[k] # None}
Storage(ks) == Cardinality(ks) + Cardinality({k \in ks : disk[k] \in indexed})

-----------------------------------------------------------------------------
(* The store.                                                              *)

Fits(ks, bytes, count) ==
  /\ Cardinality(ks) + count <= MaxSnapshots
  /\ Storage(ks) + bytes <= MaxStorage
\* The keys that stay when as few as possible of the candidates go, in order:
\* one set of keys, or none at all.
Stays(candidates, bytes, count) ==
  LET out == Only(lru, candidates)
      Stay(n) == OnDisk \ {out[i] : i \in 1..n}
  IN  {Stay(n) : n \in {n \in 0..Len(out) : /\ Fits(Stay(n), bytes, count)
                                          /\ \A m \in 0..(n - 1) : ~Fits(Stay(m), bytes, count)}}

\* Mutants: a snapshot in use is a candidate too; what comes is not counted.
RoomOfUsed(bytes, count, protect) == Stays(OnDisk \ protect, bytes, count)
RoomBefore(bytes, count, protect) == Stays({k \in OnDisk \ protect : Uses(k) = {}}, 0, 0)
\* _make_room(): the least recently used snapshots that are neither protected nor
\* in use go until the caps hold with the extra; no room is storage_full.
MakeRoom(bytes, count, protect) == Stays({k \in OnDisk \ protect : Uses(k) = {}}, bytes, count)

\* remove() of the victims: their builds on demand are cancelled, and what was
\* loaded of them is dropped.
DropKeys(gone) == Only(mem, {e \in Elements(mem) : e \cap gone = {}})
Evict(stay) ==
  /\ cancelled' = cancelled \cup {disk[k] : k \in OnDisk \ stay}
  /\ mem' = DropKeys(OnDisk \ stay)
Moved(seq, x) == Append(Only(seq, Elements(seq) \ {x}), x)

-----------------------------------------------------------------------------
(* Single flight: Flights.run.  A flight is named by the request that runs *)
(* it; whoever joined it goes on with its end.                             *)

StepTo(r, at) == [req EXCEPT ![r].at = at]
EndsAt(r, at, end) == [req EXCEPT ![r].at = at, ![r].end = end]

Join(r, name, at) ==
  IF flight[name] = None
    THEN flight' = [flight EXCEPT ![name] = r] /\ req' = StepTo(r, at)
    ELSE UNCHANGED flight /\ req' = [req EXCEPT ![r].at = "joined", ![r].on = <<flight[name], name>>]

\* The flight is over: it leaves the map if it is still its own, and those who
\* wait for it wake.
Land(r, name, next) ==
  /\ flight' = IF flight[name] = r THEN [flight EXCEPT ![name] = None] ELSE flight
  /\ req' = [q \in Req |->
       CASE q = r -> [req[q] EXCEPT !.at = next]
         [] req[q].at = "joined" /\ req[q].on = <<r, name>> ->
              [req[q] EXCEPT !.at = IF req[q].op = "put" THEN "done" ELSE "flown", !.end = req[r].end]
         [] OTHER -> req[q]]

-----------------------------------------------------------------------------
(* PUT /v1/snapshots/{key}.                                                *)

PutArrives(r) ==
  /\ req[r].at = "idle"
  /\ \E k \in SKey :
       LET q == [req EXCEPT ![r].op = "put", ![r].key = k]
           name == <<"snapshot", k>>
       IN  IF flight[name] = None
             THEN flight' = [flight EXCEPT ![name] = r] /\ req' = [q EXCEPT ![r].at = "look"]
             ELSE /\ UNCHANGED flight
                  /\ req' = [q EXCEPT ![r].at = "joined", ![r].on = <<flight[name], name>>]
  /\ UNCHANGED <<sidecarKept, building, cancelled, mem, asked>>

PutLooks(r) ==
  /\ req[r].at = "look"
  /\ req' = IF disk[req[r].key] # None THEN EndsAt(r, "land", "ok") ELSE StepTo(r, "register")
  /\ UNCHANGED <<sidecarKept, building, cancelled, flight, mem, asked>>

PutRegisters(r) ==
  /\ req[r].at = "register"
  /\ building' = [building EXCEPT ![req[r].key] = r]
  /\ req' = [req EXCEPT ![r].at = "extract", ![r].id = r]
  /\ UNCHANGED <<sidecarKept, cancelled, flight, mem, asked>>

\* Extractor.run: the cancel event is looked at before every member, so a build
\* cancelled after the last one goes on.  A spec may ask for no variant.
PutExtracts(r) ==
  /\ req[r].at = "extract"
  /\ \/ \E at \in {"slot", "install"} : req' = StepTo(r, at)
     \/ req' = EndsAt(r, "leave", "failed")
     \/ r \in cancelled /\ req' = EndsAt(r, "leave", "missing")
  /\ UNCHANGED <<sidecarKept, building, cancelled, flight, mem, asked>>

\* Mutant: what was deleted meanwhile is installed all the same.
InstallRefusedNever(r) == FALSE
\* install(): a deleted build's result is discarded.
InstallRefused(r) == r \in cancelled

\* The rename fails where a snapshot of the key is already.
PutInstalls(r) ==
  /\ req[r].at = "install"
  /\ LET k == req[r].key
         size == IF req[r].end = "built" THEN 2 ELSE 1
         rooms == MakeRoom(size, 1, {k})
     IN  IF InstallRefused(r) \/ rooms = {}
           THEN /\ req' = EndsAt(r, "leave", IF InstallRefused(r) THEN "missing" ELSE "failed")
                /\ UNCHANGED <<sidecarKept, cancelled, mem>>
           ELSE \E stay \in rooms :
                /\ Evict(stay)
                /\ IF disk[k] # None
                     THEN /\ req' = EndsAt(r, "leave", "failed")
                          /\ disk' = [x \in SKey |-> IF x \in stay THEN disk[x] ELSE None]
                          /\ lru' = Only(lru, stay)
                          /\ UNCHANGED indexed
                     ELSE /\ req' = EndsAt(r, "leave", "ok")
                          /\ disk' = [x \in SKey |-> IF x = k THEN r ELSE IF x \in stay THEN disk[x] ELSE None]
                          /\ lru' = Append(Only(lru, stay), k)
                          /\ indexed' = IF size = 2 THEN indexed \cup {r} ELSE indexed
  /\ UNCHANGED <<building, flight, asked>>

PutLeaves(r) ==
  /\ req[r].at = "leave"
  /\ building' = IF building[req[r].key] = r THEN [building EXCEPT ![req[r].key] = None] ELSE building
  /\ req' = StepTo(r, "land")
  /\ UNCHANGED <<sidecarKept, cancelled, flight, mem, asked>>

PutLands(r) ==
  /\ req[r].op = "put" /\ req[r].at = "land"
  /\ Land(r, <<"snapshot", req[r].key>>, "done")
  /\ UNCHANGED <<sidecarKept, building, cancelled, mem, asked>>

-----------------------------------------------------------------------------
(* The build child, of a PUT and of a query: Runner.build.                 *)

\* Mutant: a child starts whether or not a slot is free.
SlotAlways == TRUE
SlotFree == Cardinality(Children) < Concurrency

SlotComes(r) ==
  /\ req[r].at = "slot" /\ SlotFree
  /\ req' = IF req[r].id \notin cancelled THEN StepTo(r, "child")
            ELSE EndsAt(r, IF req[r].op = "put" THEN "leave" ELSE "land", "missing")
  /\ UNCHANGED <<sidecarKept, building, cancelled, flight, mem, asked>>

\* It answers, fails, is killed at its timeout, or is killed within a poll of
\* the deletion.
ChildEnds(r) ==
  /\ req[r].at = "child"
  /\ LET out == IF req[r].op = "put" THEN "leave" ELSE "land"
     IN  \/ req' = EndsAt(r, IF req[r].op = "put" THEN "install" ELSE "add", "built")
         \/ req' = EndsAt(r, out, "failed")
         \/ req[r].id \in cancelled /\ req' = EndsAt(r, out, "missing")
  /\ UNCHANGED <<sidecarKept, building, cancelled, flight, mem, asked>>

-----------------------------------------------------------------------------
(* DELETE of a key and of an owner.                                        *)

DeleteArrives(r) ==
  /\ req[r].at = "idle"
  /\ \/ \E k \in SKey : req' = [req EXCEPT ![r].op = "delete", ![r].at = "pop", ![r].keys = {k}]
     \/ req' = [req EXCEPT ![r].op = "delete", ![r].at = "list", ![r].keys = OnDisk \cap Owned]
  /\ UNCHANGED <<sidecarKept, building, cancelled, flight, mem, asked>>

DeleteLists(r) ==
  /\ req[r].at = "list"
  /\ req' = [req EXCEPT ![r].at = "pop", ![r].keys = @ \cup {k \in Owned : building[k] # None}]
  /\ UNCHANGED <<sidecarKept, building, cancelled, flight, mem, asked>>

DeletePops(r) ==
  /\ req[r].at = "pop"
  /\ IF req[r].keys = {}
       THEN req' = EndsAt(r, "done", "ok") /\ UNCHANGED <<building, asked>>
       ELSE \E k \in req[r].keys :
              /\ building' = [building EXCEPT ![k] = None]
              /\ asked' = asked \cup ({building[k]} \ {None})
              /\ req' = [req EXCEPT ![r].key = k, ![r].id = building[k],
                                    ![r].at = IF building[k] = None THEN "remove" ELSE "cancel"]
  /\ UNCHANGED <<sidecarKept, cancelled, flight, mem>>

DeleteCancels(r) ==
  /\ req[r].at = "cancel"
  /\ cancelled' = cancelled \cup {req[r].id}
  /\ req' = StepTo(r, "forget")
  /\ UNCHANGED <<sidecarKept, building, flight, mem, asked>>

\* Whichever flight of the key there is by now.
DeleteForgets(r) ==
  /\ req[r].at = "forget"
  /\ flight' = [flight EXCEPT ![<<"snapshot", req[r].key>>] = None]
  /\ req' = StepTo(r, "remove")
  /\ UNCHANGED <<sidecarKept, building, cancelled, mem, asked>>

\* Mutant: a delete that found a build leaves the disk alone.
OffDiskUnbuilt(r, k) == IF req[r].id = None THEN [disk EXCEPT ![k] = None] ELSE disk
OffDisk(r, k) == [disk EXCEPT ![k] = None]
DeleteRemoves(r) ==
  /\ req[r].at = "remove"
  /\ LET k == req[r].key IN
       /\ disk' = OffDisk(r, k)
       /\ lru' = Only(lru, {x \in SKey : disk'[x] # None})
       /\ cancelled' = cancelled \cup ({disk[k]} \ {None})
       /\ req' = StepTo(r, IF disk[k] = None THEN "next" ELSE "drop")
  /\ UNCHANGED <<indexed, building, flight, mem, asked>>

\* on_evict, outside the store's lock.
DeleteDrops(r) ==
  /\ req[r].op = "delete" /\ req[r].at \in {"drop", "next"}
  /\ mem' = IF req[r].at = "drop" THEN DropKeys({req[r].key}) ELSE mem
  /\ req' = [req EXCEPT ![r].at = "pop", ![r].keys = @ \ {req[r].key}, ![r].id = None]
  /\ UNCHANGED <<sidecarKept, building, cancelled, flight, asked>>

-----------------------------------------------------------------------------
(* The queries.                                                            *)

\* using(): every snapshot is held, or the query is answered snapshot_missing.
QueryArrives(r) ==
  /\ req[r].at = "idle"
  /\ \E ks \in SUBSET SKey \ {{}} :
       req' = [req EXCEPT ![r] =
         IF ks \subseteq OnDisk
           THEN [@ EXCEPT !.op = "query", !.at = "want", !.keys = ks, !.held = [k \in ks |-> disk[k]]]
           ELSE [@ EXCEPT !.op = "query", !.at = "done", !.end = "missing"]]
  /\ UNCHANGED <<sidecarKept, building, cancelled, flight, mem, asked>>

\* part(): the variant of the next snapshot, or a flight that builds it.
QueryWants(r) ==
  /\ req[r].at = "want"
  /\ LET q == req[r]
         left == q.keys \ q.got
     IN  IF left = {} THEN req' = StepTo(r, IF Cardinality(q.keys) = 1 THEN "touch" ELSE "merge")
                           /\ UNCHANGED flight
         ELSE \E k \in left :
           LET name == <<"variant", k>>
               own == [q EXCEPT !.key = k, !.id = q.held[k]]
           IN  IF q.held[k] \in indexed
                 THEN req' = [req EXCEPT ![r] = [own EXCEPT !.at = "mem"]] /\ UNCHANGED flight
                 ELSE IF flight[name] = None
                 THEN /\ flight' = [flight EXCEPT ![name] = r]
                      /\ req' = [req EXCEPT ![r] = [own EXCEPT !.at = "build"]]
                 ELSE /\ UNCHANGED flight
                      /\ req' = [req EXCEPT ![r] = [own EXCEPT !.at = "joined", !.on = <<flight[name], name>>]]
  /\ UNCHANGED <<sidecarKept, building, cancelled, mem, asked>>

\* build_on_demand(): one that joined late finds it built.
QueryBuilds(r) ==
  /\ req[r].at = "build"
  /\ req' = IF req[r].id \in indexed THEN EndsAt(r, "land", "built") ELSE StepTo(r, "slot")
  /\ UNCHANGED <<sidecarKept, building, cancelled, flight, mem, asked>>

\* add_variant(): into the snapshot it was built from, never into one that has
\* replaced it.
QueryAdds(r) ==
  /\ req[r].at = "add"
  /\ LET k == req[r].key
         rooms == MakeRoom(1, 0, {k})
     IN  IF disk[k] # req[r].id \/ rooms = {}
           THEN /\ req' = EndsAt(r, "land", IF disk[k] # req[r].id THEN "missing" ELSE "failed")
                /\ UNCHANGED <<sidecarKept, cancelled, mem>>
           ELSE \E stay \in rooms :
                /\ Evict(stay)
                /\ disk' = [x \in SKey |-> IF x \in stay THEN disk[x] ELSE None]
                /\ lru' = Only(lru, stay)
                /\ indexed' = indexed \cup {req[r].id}
                /\ req' = StepTo(r, "land")
  /\ UNCHANGED <<building, flight, asked>>

\* The flight of a variant's build or of its load is over.
QueryLands(r) ==
  /\ req[r].op = "query" /\ req[r].at \in {"land", "loaded"}
  /\ IF req[r].at = "land"
       THEN Land(r, <<"variant", req[r].key>>, "flown")
       ELSE Land(r, <<"load", req[r].key>>, "flown")
  /\ UNCHANGED <<sidecarKept, building, cancelled, mem, asked>>

QueryFlown(r) ==
  /\ req[r].at = "flown"
  /\ req' = [req EXCEPT ![r] =
       CASE @.end = "built"  -> [@ EXCEPT !.at = "mem", !.end = "none"]
         [] @.end = "loaded" -> [@ EXCEPT !.at = "want", !.end = "none", !.got = @ \cup {req[r].key}]
         [] OTHER            -> [@ EXCEPT !.at = "release"]]
  /\ UNCHANGED <<sidecarKept, building, cancelled, flight, mem, asked>>

\* The index in memory, or a flight that loads it.
QueryFinds(r) ==
  /\ req[r].at = "mem"
  /\ LET k == req[r].key IN
       IF {k} \in Elements(mem)
         THEN /\ mem' = Moved(mem, {k})
              /\ req' = [req EXCEPT ![r].at = "want", ![r].got = @ \cup {k}]
              /\ UNCHANGED flight
         ELSE UNCHANGED mem /\ Join(r, <<"load", k>>, "load")
  /\ UNCHANGED <<sidecarKept, building, cancelled, asked>>

\* load(): from the directory of the key, whichever snapshot is there by now.
QueryLoads(r) ==
  /\ req[r].at = "load"
  /\ req' = IF {req[r].key} \in Elements(mem) THEN EndsAt(r, "loaded", "loaded")
            ELSE IF disk[req[r].key] \in indexed THEN StepTo(r, "keep")
            ELSE EndsAt(r, "loaded", "failed")
  /\ UNCHANGED <<sidecarKept, building, cancelled, flight, mem, asked>>

\* Mutant: everything loaded so far is spared.
SparedAll(protect, name) == Elements(mem) \cup {name}
Spared(protect, name) == protect \cup {name}
\* _drop(): a variant goes with every merge it is part of.
GoesWith(e, victim) == e = victim \/ (Cardinality(victim) = 1 /\ victim \subseteq e)
\* Loaded.put(): then the least recently used that nothing spares go until the
\* budget holds, no more of them than it takes.
Trimmed(m, spared) ==
  LET victims == Only(m, Elements(m) \ spared)
      Left(n) == Only(m, {e \in Elements(m) : \A i \in 1..n : ~GoesWith(e, victims[i])})
  IN  {Left(n) : n \in {n \in 0..Len(victims) : /\ n = Len(victims) \/ Len(Left(n)) <= SearchBudget
                                              /\ \A i \in 0..(n - 1) : Len(Left(i)) > SearchBudget}}
Put(name, protect) == mem' \in Trimmed(Moved(mem, name), Spared(protect, name))

PartsOf(r) == {{k} : k \in req[r].keys}
QueryKeeps(r) ==
  /\ req[r].at = "keep"
  /\ Put({req[r].key}, PartsOf(r))
  /\ req' = EndsAt(r, "loaded", "loaded")
  /\ UNCHANGED <<sidecarKept, building, cancelled, flight, asked>>

\* combined(): the merge in memory, or a new one.
QueryMerges(r) ==
  /\ req[r].at = "merge"
  /\ IF req[r].keys \in Elements(mem) THEN mem' = Moved(mem, req[r].keys)
                                   ELSE Put(req[r].keys, PartsOf(r))
  /\ req' = StepTo(r, "touch")
  /\ UNCHANGED <<sidecarKept, building, cancelled, flight, asked>>

\* touch(): what is still the snapshot it was is the most recently used.
QueryTouches(r) ==
  /\ req[r].at = "touch"
  /\ LET live == {k \in req[r].keys : disk[k] = req[r].held[k]}
     IN  \E last \in Orders(live) : lru' = Only(lru, SKey \ live) \o last
  /\ req' = EndsAt(r, "release", "ok")
  /\ UNCHANGED <<disk, indexed, building, cancelled, flight, mem, asked>>

QueryReleases(r) ==
  /\ req[r].at = "release"
  /\ req' = [req EXCEPT ![r].at = "done", ![r].held = <<>>]
  /\ UNCHANGED <<sidecarKept, building, cancelled, flight, mem, asked>>

-----------------------------------------------------------------------------
\* reconcile(): what was found on disk, the caps enforced; tmp/ is empty.
SidecarInit ==
  /\ \E ks \in SUBSET SKey, vs \in SUBSET SKey :
       /\ vs \subseteq ks
       /\ Cardinality(ks) <= MaxSnapshots /\ Cardinality(ks) + Cardinality(vs) <= MaxStorage
       /\ disk = [k \in SKey |-> IF k \in ks THEN k ELSE None]
       /\ lru \in Orders(ks)
       /\ indexed = vs
  /\ building = [k \in SKey |-> None]
  /\ cancelled = {} /\ asked = {}
  /\ flight = [f \in FlightName |-> None]
  /\ mem = <<>>
  /\ req = [r \in Req |-> Idle]

Arrives(r) == PutArrives(r) \/ DeleteArrives(r) \/ QueryArrives(r)
Works(r) ==
  \/ PutLooks(r) \/ PutRegisters(r) \/ PutExtracts(r) \/ PutInstalls(r) \/ PutLeaves(r) \/ PutLands(r)
  \/ SlotComes(r) \/ ChildEnds(r)
  \/ DeleteLists(r) \/ DeletePops(r) \/ DeleteCancels(r) \/ DeleteForgets(r) \/ DeleteRemoves(r)
  \/ DeleteDrops(r)
  \/ QueryWants(r) \/ QueryBuilds(r) \/ QueryAdds(r) \/ QueryLands(r) \/ QueryFlown(r) \/ QueryFinds(r)
  \/ QueryLoads(r) \/ QueryKeeps(r) \/ QueryMerges(r) \/ QueryTouches(r) \/ QueryReleases(r)
SidecarNext == \E r \in Req : Arrives(r) \/ Works(r)

-----------------------------------------------------------------------------
(* Properties.                                                             *)

\* The caps of the store hold whatever is installed, added or evicted, and no
\* more children run than there are slots.
SidecarCapsHold ==
  /\ Fits(OnDisk, 0, 0)
  /\ Cardinality(Children) <= Concurrency

\* A build that a DELETE found does not outlive it: it is on disk only while
\* that DELETE is on its way to the disk, whenever in the build it came.
DeletedGoes ==
  \A k \in SKey : disk[k] \in asked =>
    \E d \in Req : req[d].op = "delete" /\ req[d].key = k /\ req[d].at \in {"cancel", "forget", "remove"}

\* Two builds of one key run at once only after a DELETE of that key, which
\* forgets whichever flight it finds.
OneSidecarBuild ==
  \A a, b \in Req : a # b /\ {req[a].op, req[b].op} = {"put"} /\ req[a].key = req[b].key
      /\ {req[a].at, req[b].at} \subseteq {"extract", "slot", "child", "install"}
    => \E d \in asked : req[d].key = req[a].key

\* What is loaded stays within the budget, or is all of what one query reads.
BudgetKept ==
  \/ Len(mem) <= SearchBudget
  \/ \E r \in Req : req[r].op = "query" /\ \A e \in Elements(mem) : e \subseteq req[r].keys

SidecarSound == SidecarTypeOK /\ SidecarCapsHold /\ DeletedGoes /\ OneSidecarBuild /\ BudgetKept

\* A snapshot that a query holds leaves the disk by a DELETE of it only, never
\* to make room.
InUseKept ==
  [][\A k \in SKey : disk[k] # None /\ disk'[k] = None /\ Uses(k) # {}
       => \E d \in Req : req[d].at = "remove" /\ req[d].key = k]_sidecarVars

\* A thread that can go on does: a child ends or is killed at its time limit.
SidecarFairness == \A r \in Req : WF_sidecarVars(Works(r))

\* Every request ends: no build that others joined and no query that holds a
\* slot waits for one that waits for it.
RequestsEnd == \A r \in Req : req[r].at \notin {"idle", "done"} ~> req[r].at = "done"
=============================================================================
