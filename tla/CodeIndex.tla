------------------------------ MODULE CodeIndex ------------------------------
(***************************************************************************)
(* Which snapshot a call of the code connector reads, and what vaultgate   *)
(* remembers about a code target between calls: src/actions/connectors/    *)
(* code/{indexes,resolution,state,control,builds,run,index}.ts over the    *)
(* sidecar, GitHub and the row kept by src/actions/kept-snapshots.ts.      *)
(*                                                                         *)
(* One target, whose documents are abstracted to the fingerprint of what   *)
(* shapes an extraction; a snapshot's key is then a fingerprint and a      *)
(* commit.  Calls, builds, the operator's background work, the             *)
(* reconciliation and restarts interleave at the awaits.  A time is only   *)
(* compared with the refresh interval, so it is whether that has passed.   *)
(***************************************************************************)
EXTENDS Integers, FiniteSets

CONSTANTS
  Docs, Sha,             \* extraction fingerprints; commits
  CodeCall, CodeBuild,   \* the calls and the builds there may be at once
  Nothing,               \* no snapshot, no row, no resolution
  TurnsMax               \* a bound on what the world does

ASSUME NothingAssumption ==
  Nothing \notin Docs \cup Sha \cup Docs \X Sha \cup [docs : Docs, on : BOOLEAN] /\ "failed" \notin Sha
SnapKey == Docs \X Sha
DocsOf(k) == k[1]
ShaOf(k) == k[2]

VARIABLES
  stored,    \* the target's row: its documents and whether it is enabled; or Nothing
  head,      \* the commit the configured ref names on GitHub
  been,      \* every commit it has named
  snaps,     \* the sidecar's snapshots: key -> the documents it was extracted under
  resolution,\* TargetState.resolution while it is fresh: a commit, "failed" or Nothing
  resolved,  \* TargetState.resolvedCommit
  current,   \* TargetState.current: its key
  failed,    \* TargetState.failed: keys whose build failed within the interval
  kept,      \* the row of action_code_snapshots: a key or Nothing
  cbuilds,   \* the builds of this process
  ccalls,    \* the calls
  task,      \* the background work of a save, of Rebuild index or of a deletion
  sweep,     \* the reconciliation that runs
  turns      \* how often the ref moved, the interval passed, the operator acted or
             \* vaultgate restarted

held == <<resolution, resolved, current, failed>>
world == <<stored, head, been, turns>>
codeVars == <<world, snaps, held, kept, cbuilds, ccalls, task, sweep>>

IdleCall == [at |-> "idle", docs |-> Nothing, named |-> FALSE, saw |-> Nothing, asked |-> Nothing,
             key |-> Nothing, build |-> Nothing, tries |-> 0, read |-> Nothing]
NewBuild == [at |-> "new", key |-> Nothing, configured |-> FALSE, abandoned |-> FALSE, under |-> Nothing]
IdleTask == [at |-> "idle", docs |-> Nothing, asked |-> Nothing]
IdleSweep == [at |-> "idle", keys |-> {}]

CodeTypeOK ==
  /\ stored \in [docs : Docs, on : BOOLEAN] \cup {Nothing}
  /\ DOMAIN snaps \subseteq SnapKey
  /\ resolution \in Sha \cup {"failed", Nothing}
  /\ {current, kept} \subseteq SnapKey \cup {Nothing}
  /\ failed \subseteq SnapKey

\* A start of vaultgate: hold() has loaded what an earlier process kept.
CodeInit ==
  /\ stored \in [docs : Docs, on : {TRUE}]
  /\ head \in Sha
  /\ \E k \in {Nothing} \cup {stored.docs} \X Sha :
       /\ current = k /\ kept = k
       /\ been = {head} \cup (IF k = Nothing THEN {} ELSE {ShaOf(k)})
       /\ snaps = IF k = Nothing THEN <<>> ELSE [x \in {k} |-> stored.docs]
  /\ resolution = Nothing /\ resolved = Nothing /\ failed = {}
  /\ cbuilds = [b \in CodeBuild |-> NewBuild]
  /\ ccalls = [c \in CodeCall |-> IdleCall]
  /\ task = IdleTask
  /\ sweep = IdleSweep
  /\ turns = 0

-----------------------------------------------------------------------------
(* The state of a target.                                                  *)

\* setCurrent(): in memory and in the database, which keeps no row of a target
\* it does not have.
KeptAfter(k) == IF k # Nothing /\ stored = Nothing THEN kept ELSE k
SetCurrent(k) == current' = k /\ kept' = KeptAfter(k)

\* drop(): everything about the target is forgotten, the kept row too.
Drop ==
  /\ resolution' = Nothing /\ resolved' = Nothing /\ current' = Nothing /\ failed' = {}
  /\ kept' = Nothing

\* resolved(): a failed resolution leaves the commit as it was.
Resolved(outcome) ==
  /\ resolution' = outcome
  /\ resolved' = IF outcome = "failed" THEN resolved ELSE outcome

\* Mutant: a build that finishes is current whatever the ref names by then.
CurrentAfterAny(b) == b.key

\* currentAfter(): a build of the configured ref becomes current while the ref
\* still points at its commit.
CurrentAfter(b) ==
  IF b.configured /\ resolved = ShaOf(b.key) THEN b.key ELSE current

\* finished(): what a build's end leaves behind.  "refused" is an end that is
\* not remembered (an unreachable sidecar, no credential, a changed target).
Finished(b, end) ==
  /\ UNCHANGED <<resolution, resolved>>
  /\ IF b.abandoned THEN UNCHANGED <<current, failed, kept>>
     ELSE CASE end = "built"   -> failed' = failed \ {b.key} /\ SetCurrent(CurrentAfter(b))
            [] end = "failed"  -> failed' = failed \cup {b.key} /\ UNCHANGED <<current, kept>>
            [] end = "refused" -> UNCHANGED <<current, failed, kept>>

-----------------------------------------------------------------------------
(* The builds.  BuildFlight has their slots and their queue.               *)

Joinable(k) == {b \in CodeBuild : cbuilds[b].at \in {"waiting", "loading"} /\ cbuilds[b].key = k
                                    /\ ~cbuilds[b].abandoned}

\* start() and tryStart(): the build of the key that runs, or a new one.  b is
\* the build whose end the caller may wait for.
StartBuild(b, k, configured) ==
  IF Joinable(k) # {}
    THEN b \in Joinable(k) /\ UNCHANGED cbuilds
    ELSE /\ cbuilds[b].at = "new"
         /\ cbuilds' = [cbuilds EXCEPT ![b] =
              [at |-> "waiting", key |-> k, configured |-> configured, abandoned |-> FALSE, under |-> Nothing]]

\* A build is over once nobody waits for its end.
Waited(calls, b) == \E c \in CodeCall : calls[c].at = "waiting" /\ calls[c].build = b
Settled(builds, calls) ==
  [b \in CodeBuild |-> IF builds[b].at \in {"built", "failed", "refused"} /\ ~Waited(calls, b)
                         THEN NewBuild ELSE builds[b]]

Forgotten == [b \in CodeBuild |-> [cbuilds[b] EXCEPT !.abandoned = @ \/ cbuilds[b].at # "new"]]

\* Mutant: a build goes on whatever the documents have become.
LendsAny(b) == stored # Nothing /\ stored.on /\ cbuilds[b].at = "waiting"
\* withOwnCredential(): the target lends its credential while it is stored,
\* enabled and still has the documents the build was asked for.
Lends(b) == stored # Nothing /\ stored.on /\ stored.docs = DocsOf(cbuilds[b].key)

\* The build's slot came.  One that was forgotten never works.
BuildBegins(b) ==
  /\ cbuilds[b].at = "waiting"
  /\ IF Lends(b) /\ ~cbuilds[b].abandoned
       THEN /\ cbuilds' = [cbuilds EXCEPT ![b].at = "loading", ![b].under = stored.docs]
            /\ UNCHANGED <<held, kept>>
       ELSE /\ cbuilds' = Settled([cbuilds EXCEPT ![b].at = "refused"], ccalls)
            /\ Finished(cbuilds[b], "refused")
  /\ UNCHANGED <<world, snaps, ccalls, task, sweep>>

\* openArchive(): a commit without an archive and an archive past the caps are
\* failures of the build, which are remembered; a transport's failure is not.
ArchiveEnds == {"built", "failed", "refused"}

\* download(): the archive streamed to the sidecar, or one of its failures.  What
\* the sidecar holds under the key already is its answer.
BuildEnds(b) ==
  /\ cbuilds[b].at = "loading"
  /\ \E end \in ArchiveEnds :
       /\ cbuilds' = Settled([cbuilds EXCEPT ![b].at = end], ccalls)
       /\ snaps' = IF end # "built" \/ cbuilds[b].key \in DOMAIN snaps THEN snaps
                   ELSE [k \in DOMAIN snaps \cup {cbuilds[b].key} |->
                           IF k = cbuilds[b].key THEN cbuilds[b].under ELSE snaps[k]]
       /\ Finished(cbuilds[b], end)
  /\ UNCHANGED <<world, ccalls, task, sweep>>

-----------------------------------------------------------------------------
(* A call.                                                                 *)

\* A call that failed keeps nothing.
Goes(c, at) == [ccalls EXCEPT ![c] =
  IF at = "failed" THEN [IdleCall EXCEPT !.at = at] ELSE [@ EXCEPT !.at = at, !.build = Nothing]]
Reads(c, k) == [ccalls EXCEPT ![c].at = "reading", ![c].key = k]

\* runCode(): the engine checked the target and lent its documents.
CallBegins(c) ==
  /\ ccalls[c].at = "idle"
  /\ stored # Nothing /\ stored.on
  /\ \E named \in BOOLEAN :
       ccalls' = [ccalls EXCEPT ![c] = [IdleCall EXCEPT !.at = "preparing", !.docs = stored.docs,
                                                        !.named = named, !.tries = 1]]
  /\ UNCHANGED <<world, snaps, held, kept, cbuilds, task, sweep>>

\* Mutant: the documents of the snapshot are not compared with the call's.
UsableAny(c) == IF ccalls[c].named THEN Nothing ELSE current
\* prepare(): the current snapshot, when it is of the documents the call holds.
Usable(c) ==
  IF ~ccalls[c].named /\ current # Nothing /\ DocsOf(current) = ccalls[c].docs THEN current ELSE Nothing

\* resolveReference(): the commits GitHub may answer, when it answers at all.
Named(c) == IF ccalls[c].named THEN Sha ELSE {head}

\* resolveFor(), up to its request: what GitHub's answer will be from.
CallAsks(c) ==
  /\ ccalls[c].at = "preparing"
  /\ \E sha \in Named(c) :
       ccalls' = [ccalls EXCEPT ![c].at = "resolving", ![c].saw = Usable(c), ![c].asked = sha]
  /\ UNCHANGED <<world, snaps, held, kept, cbuilds, task, sweep>>

\* The last resolution while it is fresh, its failure only beside a snapshot.
Cached(c) ==
  /\ ~ccalls[c].named
  /\ resolution # Nothing
  /\ resolution = "failed" => ccalls[c].saw # Nothing

\* A failed resolution never fails a call that has a snapshot to answer from.
CallUnresolved(c) ==
  /\ ccalls[c].at = "resolving"
  /\ IF Cached(c) THEN resolution = "failed" /\ UNCHANGED held
     ELSE IF ccalls[c].named THEN UNCHANGED held
     ELSE Resolved("failed") /\ UNCHANGED <<current, failed>>
  /\ ccalls' = IF ccalls[c].saw = Nothing THEN Goes(c, "failed") ELSE Reads(c, ccalls[c].saw)
  /\ UNCHANGED <<world, snaps, kept, cbuilds, task, sweep>>

\* The commit a call goes on with, and what it leaves in the state.
Commits(c, sha) ==
  IF Cached(c) THEN sha = resolution /\ UNCHANGED held
  ELSE /\ sha \in {ccalls[c].asked} \cup IF ccalls[c].named THEN {} ELSE {head}
       /\ IF ccalls[c].named THEN UNCHANGED held ELSE Resolved(sha) /\ UNCHANGED <<current, failed>>

\* The configured ref moved: its new commit builds in the background unless it
\* just failed, and the call is answered from the snapshot there is.
CallMoved(c) ==
  /\ ccalls[c].at = "resolving"
  /\ ccalls[c].saw # Nothing
  /\ \E sha \in Sha :
       /\ Commits(c, sha)
       /\ sha # ShaOf(ccalls[c].saw)
       /\ IF <<ccalls[c].docs, sha>> \in failed THEN UNCHANGED cbuilds
          ELSE \E b \in CodeBuild : StartBuild(b, <<ccalls[c].docs, sha>>, TRUE)
  /\ ccalls' = Reads(c, ccalls[c].saw)
  /\ UNCHANGED <<world, snaps, kept, task, sweep>>

\* ensureSnapshot(), up to its question to the sidecar.
CallResolved(c) ==
  /\ ccalls[c].at = "resolving"
  /\ \E sha \in Sha :
       /\ Commits(c, sha)
       /\ ccalls[c].saw # Nothing => sha = ShaOf(ccalls[c].saw)
       /\ ccalls' = IF <<ccalls[c].docs, sha>> \in failed THEN Goes(c, "failed")
                    ELSE [ccalls EXCEPT ![c].at = "asking", ![c].key = <<ccalls[c].docs, sha>>]
  /\ UNCHANGED <<world, snaps, kept, cbuilds, task, sweep>>

\* The snapshot is there: a call of the configured ref makes it the current one.
Adopts(c) == IF ccalls[c].named THEN UNCHANGED <<current, kept>> ELSE SetCurrent(ccalls[c].key)

CallReady(c) ==
  /\ ccalls[c].at = "asking"
  /\ ccalls[c].key \in DOMAIN snaps
  /\ Adopts(c)
  /\ ccalls' = Goes(c, "reading")
  /\ UNCHANGED <<world, snaps, resolution, resolved, failed, cbuilds, task, sweep>>

\* It is built while the call waits.  A named ref past the caps is rate_limited.
CallBuilds(c) ==
  /\ ccalls[c].at = "asking"
  /\ ccalls[c].key \notin DOMAIN snaps
  /\ \/ /\ \E b \in CodeBuild :
             /\ StartBuild(b, ccalls[c].key, ~ccalls[c].named)
             /\ ccalls' = [ccalls EXCEPT ![c].at = "waiting", ![c].build = b]
        /\ UNCHANGED <<world, snaps, held, kept, task, sweep>>
     \/ /\ ccalls[c].named
        /\ ccalls' = Goes(c, "failed")
        /\ UNCHANGED <<world, snaps, held, kept, cbuilds, task, sweep>>

\* An unreachable sidecar, or the deadline of the wait.
CallGivesUp(c) ==
  /\ ccalls[c].at \in {"asking", "waiting", "reading"}
  /\ ccalls' = Goes(c, "failed")
  /\ cbuilds' = Settled(cbuilds, ccalls')
  /\ UNCHANGED <<world, snaps, held, kept, task, sweep>>

\* until(): the build the call waits for ended.
CallBuilt(c) ==
  /\ ccalls[c].at = "waiting"
  /\ cbuilds[ccalls[c].build].at = "built"
  /\ Adopts(c)
  /\ ccalls' = Goes(c, "reading")
  /\ cbuilds' = Settled(cbuilds, ccalls')
  /\ UNCHANGED <<world, snaps, resolution, resolved, failed, task, sweep>>

CallNotBuilt(c) ==
  /\ ccalls[c].at = "waiting"
  /\ cbuilds[ccalls[c].build].at \in {"failed", "refused"}
  /\ ccalls' = Goes(c, "failed")
  /\ cbuilds' = Settled(cbuilds, ccalls')
  /\ UNCHANGED <<world, snaps, held, kept, task, sweep>>

\* answer(): the sidecar reads the snapshot.
CallReads(c) ==
  /\ ccalls[c].at = "reading"
  /\ ccalls[c].key \in DOMAIN snaps
  /\ ccalls' = [ccalls EXCEPT ![c] = [IdleCall EXCEPT !.at = "answered", !.docs = ccalls[c].docs,
                                                      !.read = snaps[ccalls[c].key]]]
  /\ UNCHANGED <<world, snaps, held, kept, cbuilds, task, sweep>>

\* Mutant: an evicted snapshot is prepared for as often as it takes.
AgainAlways(c) == [ccalls EXCEPT ![c].at = "preparing", ![c].tries = @ + 1]
\* runCode(): one more preparation, then index_unavailable.
Again(c) == IF ccalls[c].tries = 1 THEN [ccalls EXCEPT ![c].at = "preparing", ![c].tries = 2]
            ELSE Goes(c, "failed")

\* afterFailure(): the snapshot is gone, so it is forgotten and prepared again.
CallMisses(c) ==
  /\ ccalls[c].at = "reading"
  /\ ccalls[c].key \notin DOMAIN snaps
  /\ IF current = ccalls[c].key THEN SetCurrent(Nothing) ELSE UNCHANGED <<current, kept>>
  /\ ccalls' = Again(c)
  /\ UNCHANGED <<world, snaps, resolution, resolved, failed, cbuilds, task, sweep>>

CallSteps(c) ==
  \/ CallAsks(c) \/ CallUnresolved(c) \/ CallMoved(c) \/ CallResolved(c) \/ CallReady(c) \/ CallBuilds(c)
  \/ CallGivesUp(c) \/ CallBuilt(c) \/ CallNotBuilt(c) \/ CallReads(c) \/ CallMisses(c)

-----------------------------------------------------------------------------
(* The operator.  A change that resets forgets the snapshots as it is      *)
(* saved, up to its request to the sidecar; the rest runs after the save.  *)

Resets(reset) ==
  IF reset THEN Drop /\ cbuilds' = Forgotten ELSE UNCHANGED <<held, kept, cbuilds>>

\* resetFingerprint(): the extraction, and also the content, the ref and a cap.
MustReset(new, old) == new # old

\* saved() and refresh(), up to their first await.
Save ==
  /\ stored # Nothing /\ task.at = "idle" /\ turns < TurnsMax
  /\ \E docs \in Docs, on \in BOOLEAN, reset \in BOOLEAN :
       /\ MustReset(docs, stored.docs) => reset
       /\ stored' = [docs |-> docs, on |-> on]
       /\ Resets(reset)
       /\ task' = [at |-> IF reset THEN "deleting" ELSE IF on THEN "resolving" ELSE "idle",
                   docs |-> docs, asked |-> head]
  /\ turns' = turns + 1
  /\ UNCHANGED <<head, been, snaps, ccalls, sweep>>

\* Rebuild index: a disabled target is refused before anything is deleted.
Rebuild ==
  /\ stored # Nothing /\ stored.on /\ task.at = "idle" /\ turns < TurnsMax
  /\ Resets(TRUE)
  /\ task' = [at |-> "deleting", docs |-> stored.docs, asked |-> head]
  /\ turns' = turns + 1
  /\ UNCHANGED <<stored, head, been, snaps, ccalls, sweep>>

\* remove(): the kept row goes with the target's (ON DELETE CASCADE).
RemoveTarget ==
  /\ stored # Nothing /\ task.at = "idle" /\ turns < TurnsMax
  /\ stored' = Nothing
  /\ Drop
  /\ cbuilds' = Forgotten
  /\ task' = [at |-> "deleting", docs |-> Nothing, asked |-> Nothing]
  /\ turns' = turns + 1
  /\ UNCHANGED <<head, been, snaps, ccalls, sweep>>

\* forgetTarget(): deleteOwner, which may not arrive; a deletion and a disabled
\* target end there, and withTarget lends the rest its documents.
TaskDeletes ==
  /\ task.at = "deleting"
  /\ \E arrives \in BOOLEAN : snaps' = IF arrives THEN <<>> ELSE snaps
  /\ task' = IF stored # Nothing /\ stored.on
               THEN [task EXCEPT !.at = "resolving", !.docs = stored.docs, !.asked = head]
               ELSE IdleTask
  /\ UNCHANGED <<world, held, kept, cbuilds, ccalls, sweep>>

\* buildConfigured(): the configured ref resolved, and its failures forgotten.
TaskResolves ==
  /\ task.at = "resolving"
  /\ \/ Resolved("failed") /\ UNCHANGED <<current, failed>> /\ task' = IdleTask
     \/ \E sha \in {task.asked, head} :
          /\ Resolved(sha) /\ failed' = {} /\ UNCHANGED current
          /\ task' = [task EXCEPT !.at = "asking", !.asked = sha]
  /\ UNCHANGED <<world, snaps, kept, cbuilds, ccalls, sweep>>

\* A snapshot that exists is left for the next call; otherwise it is built.
TaskBuilds ==
  /\ task.at = "asking"
  /\ \/ <<task.docs, task.asked>> \in DOMAIN snaps /\ UNCHANGED cbuilds
     \/ \E b \in CodeBuild : StartBuild(b, <<task.docs, task.asked>>, TRUE)
  /\ task' = IdleTask
  /\ UNCHANGED <<world, snaps, held, kept, ccalls, sweep>>

-----------------------------------------------------------------------------
(* The reconciliation: what it lists, compares and deletes are three       *)
(* moments.                                                                *)

SweepLists ==
  /\ sweep.at = "listing"
  /\ sweep' = [at |-> "comparing", keys |-> DOMAIN snaps]
  /\ UNCHANGED <<world, snaps, held, kept, cbuilds, ccalls, task>>

SweepCompares ==
  /\ sweep.at = "comparing"
  /\ sweep' = [at |-> "deleting", keys |-> {k \in sweep.keys : stored = Nothing \/ DocsOf(k) # stored.docs}]
  /\ UNCHANGED <<world, snaps, held, kept, cbuilds, ccalls, task>>

SweepDeletes ==
  /\ sweep.at = "deleting"
  /\ IF sweep.keys = {} THEN sweep' = IdleSweep /\ UNCHANGED snaps
     ELSE \E k \in sweep.keys, arrives \in BOOLEAN :
            /\ snaps' = IF arrives THEN [x \in DOMAIN snaps \ {k} |-> snaps[x]] ELSE snaps
            /\ sweep' = [sweep EXCEPT !.keys = @ \ {k}]
  /\ UNCHANGED <<world, held, kept, cbuilds, ccalls, task>>

-----------------------------------------------------------------------------
(* The world.                                                              *)

\* Someone pushes to the ref.
HeadMoves ==
  /\ turns < TurnsMax
  /\ head' \in Sha \ {head}
  /\ been' = been \cup {head'}
  /\ turns' = turns + 1
  /\ UNCHANGED <<stored, snaps, held, kept, cbuilds, ccalls, task, sweep>>

\* The refresh interval of the last resolution, and of the failures, passes.
IntervalPasses ==
  /\ turns < TurnsMax
  /\ resolution # Nothing \/ failed # {}
  /\ turns' = turns + 1
  /\ resolution' = Nothing
  /\ failed' = {}
  /\ UNCHANGED <<stored, head, been, snaps, resolved, current, kept, cbuilds, ccalls, task, sweep>>

\* The sidecar evicts a snapshot to make room, or starts without its state.
SidecarLoses ==
  /\ \E k \in DOMAIN snaps : snaps' = [x \in DOMAIN snaps \ {k} |-> snaps[x]]
  /\ UNCHANGED <<world, held, kept, cbuilds, ccalls, task, sweep>>

\* The sidecar answers again after it had not.
SidecarFound ==
  /\ turns < TurnsMax /\ sweep.at = "idle"
  /\ turns' = turns + 1
  /\ sweep' = [at |-> "listing", keys |-> {}]
  /\ UNCHANGED <<stored, head, been, snaps, held, kept, cbuilds, ccalls, task>>

\* vaultgate stops and starts: hold() loads what the database kept, and the
\* check of the sidecar reconciles.
VaultgateRestarts ==
  /\ turns < TurnsMax
  /\ turns' = turns + 1
  /\ resolution' = Nothing /\ resolved' = Nothing /\ failed' = {}
  /\ current' = kept
  /\ cbuilds' = [b \in CodeBuild |-> NewBuild]
  /\ ccalls' = [c \in CodeCall |-> IF ccalls[c].at \in {"idle", "answered"} THEN ccalls[c]
                                   ELSE [IdleCall EXCEPT !.at = "failed"]]
  /\ task' = IdleTask
  /\ sweep' = [at |-> "listing", keys |-> {}]
  /\ UNCHANGED <<stored, head, been, snaps, kept>>

CodeNext ==
  \/ \E c \in CodeCall : CallBegins(c) \/ CallSteps(c)
  \/ \E b \in CodeBuild : BuildBegins(b) \/ BuildEnds(b)
  \/ Save \/ Rebuild \/ RemoveTarget \/ TaskDeletes \/ TaskResolves \/ TaskBuilds
  \/ SweepLists \/ SweepCompares \/ SweepDeletes
  \/ HeadMoves \/ IntervalPasses \/ SidecarLoses \/ SidecarFound \/ VaultgateRestarts

CodeSpec == CodeInit /\ [][CodeNext]_codeVars

-----------------------------------------------------------------------------
(* Properties.                                                             *)

\* No snapshot is ever keyed by documents it was not extracted under, though
\* the target may be saved between a call's check, its build's request and its
\* build's slot: what a call reads was extracted under the documents the policy
\* checked it against, whichever way it came to the snapshot.
ReadAsAuthorized ==
  /\ \A k \in DOMAIN snaps : snaps[k] = DocsOf(k)
  /\ \A c \in CodeCall : ccalls[c].at = "answered" => ccalls[c].read = ccalls[c].docs

\* A call prepares its snapshot at most twice, however often it is evicted.
PreparedTwice == \A c \in CodeCall : ccalls[c].tries <= 2

\* The snapshot that calls without a ref are answered from is one of a commit
\* the configured ref has named, never one a call asked for by name, and it is
\* the one a restart would go on with; nothing is kept of a deleted target.
CurrentIsConfigured ==
  /\ current # Nothing => ShaOf(current) \in been
  /\ kept = (IF stored = Nothing THEN Nothing ELSE current)

\* The three together: what a call reads, how often it prepares it and what the
\* target is answered from afterwards.
IndexSound == ReadAsAuthorized /\ PreparedTwice /\ CurrentIsConfigured

\* state.ts:145: a build that finishes after the ref moved on is "never answered
\* from": the current snapshot is not set to another commit than the one the
\* configured ref last resolved to.
NeverOlder == [][current' \in {current, Nothing} \/ resolved' \in {Nothing, ShaOf(current')}]_codeVars
=============================================================================
