----------------------------- MODULE ActionCalls -----------------------------
(***************************************************************************)
(* A tool call through the actions engine (src/actions/engine*.ts,         *)
(* limits.ts, calls.ts), over targets and grants that change meanwhile     *)
(* (ActionTargets).                                                        *)
(*                                                                         *)
(* A call names one target, or several (callMany); the first is modelled   *)
(* as the second with one name, as the two take the same steps.  Resolving *)
(* every name and taking the limits is one turn.  Then, one target at a    *)
(* time, every credential field is fetched from the vault and the          *)
(* destination resolved, each an await; then the rows are reserved and     *)
(* the connector started in one turn; and the call ends with the           *)
(* connector's answer or with the timer, whichever is first.  A connector  *)
(* that the timer has overtaken goes on by itself.                         *)
(*                                                                         *)
(* What a connector does and what it answers are external.  SQLite is      *)
(* taken not to fail.                                                      *)
(***************************************************************************)
EXTENDS ActionTargets, FiniteSets

CONSTANTS
  Calls,      \* the calls that may be made, each once
  Requests,   \* what they may ask: [client, names, op]
  Permits,    \* by documents: the operations their policy allows
  Fields,     \* secret fields of a credential
  MaxNames,   \* how many names the tool's list takes
  TargetCap,  \* TARGET_IN_FLIGHT
  ClientCap,  \* CLIENT_IN_FLIGHT
  NoRequest   \* a call that was not made yet

ASSUME CallsAssumption ==
  /\ Requests \subseteq [client : Clients, names : Seq(Names),
                         op : {"read", "write", "unfit"}]
  /\ \A r \in Requests : r.names # <<>>
  /\ NoRequest \notin Requests
  /\ Permits \in [Docs -> SUBSET {"read", "write"}]
  /\ {Fields, MaxNames, TargetCap, ClientCap} \subseteq Nat \ {0}

VARIABLES
  call,     \* by call: how far it is and what it holds
  rows,     \* by call: its rows of action_calls, in the order inserted
  flying    \* the in-flight counters, by target id and by client

callVars == <<call, rows, flying>>
vars == <<target, grant, form, call, rows, flying>>

\* A call: its request, the targets as resolved, the index of the one being
\* prepared, the fields fetched of it, the indexes whose secrets are in a
\* holder that was not disposed, the fetched buffers nobody holds, and
\* what has become of the connector.
Fresh == [at |-> "idle", request |-> NoRequest, seen |-> <<>>, k |-> 0, got |-> 0,
          holders |-> {}, loose |-> 0, connector |-> "none"]

\* What a call resolved one name to.
Snapshots == [id : Ids, revision : 1..MaxRevision, docs : Docs]

CallRecords ==
  [at : {"idle", "fetching", "pinning", "running", "ended", "cut"},
   request : Requests \cup {NoRequest}, seen : Seq(Snapshots), k : Nat, got : Nat,
   holders : SUBSET Nat, loose : Nat,
   connector : {"none", "running", "abandoned", "done"}]

CallsTypeOK ==
  /\ TargetsTypeOK
  /\ call \in [Calls -> CallRecords]
  /\ rows \in [Calls -> Seq([name : Names,
                             outcome : {"interrupted", "ok", "error", "denied"}])]
  /\ flying \in [targets : [Ids -> Nat], clients : [Clients -> Nat]]

Underway(c) == call[c].at \in {"fetching", "pinning", "running"}

CallsInit ==
  /\ TargetsInit
  /\ call = [c \in Calls |-> Fresh]
  /\ rows = [c \in Calls |-> <<>>]
  /\ flying = [targets |-> [i \in Ids |-> 0], clients |-> [k \in Clients |-> 0]]
-----------------------------------------------------------------------------
(* Resolution (ACT-16).                                                    *)

\* repoProblem: a list repeats no name and is not too long.
ListProblem(r) ==
  \/ Len(r.names) > MaxNames
  \/ \E j, m \in 1..Len(r.names) : j # m /\ r.names[j] = r.names[m]

\* findByName: the saved target of that name, of which there is one at most.
Found(n) == {i \in Ids : Saved(i) /\ target[i].name = n}

\* resolveGranted, resolveOperation: switched on, and the arguments, the
\* scopes and the policy allow the operation.
Allowed(i, r) == target[i].enabled /\ r.op \in Permits[target[i].docs]

\* resolveCall: found, granted, allowed, and no write through a read-only
\* grant.  A list carries reads only (multi_target_write).
Resolves(r, n) ==
  /\ r.op = "write" => Len(r.names) = 1
  /\ \E i \in Found(n) :
       /\ Active(grant[i][r.client])
       /\ Allowed(i, r)
       /\ r.op = "write" => grant[i][r.client] # "read"

\* What a resolved call works with to its end, whatever becomes of the row.
Resolved(r) ==
  [j \in 1..Len(r.names) |->
     LET i == CHOOSE i \in Found(r.names[j]) : TRUE
     IN  [id |-> i, revision |-> target[i].revision, docs |-> target[i].docs]]
-----------------------------------------------------------------------------
(* Limits.                                                                 *)

\* InFlight.enter for the target and the client of every name in js.
Enter(f, r, seen, js) ==
  [targets |-> [i \in Ids |-> f.targets[i] + Cardinality({j \in js : seen[j].id = i})],
   clients |-> [f.clients EXCEPT ![r.client] = @ + Cardinality(js)]]

\* Mutant: the release forgets the client's counter.
LeaveTarget(f, r, seen, js) ==
  [targets |-> [i \in Ids |-> f.targets[i] - Cardinality({j \in js : seen[j].id = i})],
   clients |-> f.clients]

\* Mutant: the limits of every name are given back, also of those refused.
LeaveAll(f, r, seen, js) ==
  [targets |-> [i \in Ids |-> f.targets[i] - Cardinality({j \in DOMAIN seen : seen[j].id = i})],
   clients |-> [f.clients EXCEPT ![r.client] = @ - Len(seen)]]

\* The release of what Enter took.
Leave(f, r, seen, js) ==
  [targets |-> [i \in Ids |-> f.targets[i] - Cardinality({j \in js : seen[j].id = i})],
   clients |-> [f.clients EXCEPT ![r.client] = @ - Cardinality(js)]]

\* acquire() for each name in turn, whatever it answered for the others.  A name
\* in broke found the token bucket of its target or client empty, and does not
\* reach the counters; no two names have one target.
Entered(r, seen, broke) ==
  LET free == {j \in DOMAIN seen : j \notin broke /\ flying.targets[seen[j].id] < TargetCap}
      before(j) == {m \in free : m < j}
  IN  {j \in free : flying.clients[r.client] + Cardinality(before(j)) < ClientCap}
-----------------------------------------------------------------------------
(* Rows.                                                                   *)

Entry(n, out) == [name |-> n, outcome |-> out]

\* One row for every name of the call (failAll, reserveCall).
ForEach(r, out) == [j \in 1..Len(r.names) |-> Entry(r.names[j], out)]

\* The row of a list that is refused as such bears the first name only.
ForList(r, out) == <<Entry(Head(r.names), out)>>

\* completeCall: the reserved rows are updated in place.
Completed(rs, out) == [j \in DOMAIN rs |-> [rs[j] EXCEPT !.outcome = out]]

\* The end of call c: its rows, its limits and its secrets.
Ends(c, last, entries) ==
  /\ call' = [call EXCEPT ![c] = last]
  /\ rows' = [rows EXCEPT ![c] = entries]
  /\ flying' = Leave(flying, call[c].request, call[c].seen, 1..Len(call[c].seen))
  /\ UNCHANGED targetVars
-----------------------------------------------------------------------------
(* The call.                                                               *)

Made(r) == [Fresh EXCEPT !.at = "ended", !.request = r]

\* A call that gets no further than its first turn: one row for a list that
\* is no list, otherwise one row for every name of it.
Refused(c, r, entries) ==
  /\ call' = [call EXCEPT ![c] = Made(r)]
  /\ rows' = [rows EXCEPT ![c] = entries]

Resolvable(r) == ~ListProblem(r) /\ \A j \in 1..Len(r.names) : Resolves(r, r.names[j])

\* callMany, call: the list, a name or the policy over all of them refuses.
Deny(c, r) ==
  /\ call[c].at = "idle"
  /\ \/ ListProblem(r) /\ Refused(c, r, ForList(r, "denied"))
     \/ /\ ~ListProblem(r)
        /\ ~Resolvable(r) \/ Len(r.names) > 1
        /\ Refused(c, r, ForEach(r, "denied"))
  /\ UNCHANGED <<targetVars, flying>>

\* Every name resolves; the limits are taken for all of them or, if one is
\* refused, given back by the finally of callMany.
Acquire(c, r) ==
  /\ call[c].at = "idle"
  /\ Resolvable(r)
  /\ LET seen == Resolved(r)
         all == 1..Len(seen)
     IN  \E broke \in SUBSET all :
           LET js == Entered(r, seen, broke)
               entered == Enter(flying, r, seen, js)
           IN  IF js = all
                 THEN /\ call' = [call EXCEPT ![c] = [Fresh EXCEPT
                                    !.at = "fetching", !.request = r, !.seen = seen, !.k = 1]]
                      /\ flying' = entered
                      /\ UNCHANGED rows
                 ELSE /\ Refused(c, r, ForEach(r, "denied"))
                      /\ flying' = Leave(entered, r, seen, js)
  /\ UNCHANGED targetVars

\* Mutant: the holder is made one fetch late.
WithFieldLate(x) ==
  IF x.got < Fields
    THEN [x EXCEPT !.got = x.got + 1]
    ELSE [x EXCEPT !.at = "pinning", !.got = 0, !.holders = x.holders \cup {x.k}]

\* The last field makes the holder that can be disposed.
WithField(x) ==
  IF x.got + 1 < Fields
    THEN [x EXCEPT !.got = x.got + 1]
    ELSE [x EXCEPT !.at = "pinning", !.got = 0, !.holders = x.holders \cup {x.k}]

\* fetchCredential: the vault answers with one field.
FetchField(c) ==
  /\ call[c].at = "fetching"
  /\ call' = [call EXCEPT ![c] = WithField(call[c])]
  /\ UNCHANGED <<targetVars, rows, flying>>

\* It has none to give: the holders of the targets before this one are
\* disposed; the fields of this one that were fetched are in no holder.
FetchFails(c) ==
  /\ call[c].at = "fetching"
  /\ Ends(c, [call[c] EXCEPT !.at = "ended", !.holders = {}, !.loose = call[c].got],
          ForEach(call[c].request, "error"))

\* pinDestination refuses the address or finds none.
PinFails(c) ==
  /\ call[c].at = "pinning"
  /\ Ends(c, [call[c] EXCEPT !.at = "ended", !.holders = {}],
          ForEach(call[c].request, "error"))

\* The destination is pinned, and the next target's turn is come.
Pinned(c) ==
  /\ call[c].at = "pinning"
  /\ call[c].k < Len(call[c].seen)
  /\ call' = [call EXCEPT ![c].at = "fetching", ![c].k = @ + 1]
  /\ UNCHANGED <<targetVars, rows, flying>>

\* Mutant: the connector is started and nothing is reserved.
RunUnreserved(c) ==
  /\ call[c].at = "pinning"
  /\ call[c].k = Len(call[c].seen)
  /\ call' = [call EXCEPT ![c].at = "running", ![c].connector = "running"]
  /\ UNCHANGED <<targetVars, rows, flying>>

\* It was the last: the rows are reserved, then the connector is started.
Run(c) ==
  /\ call[c].at = "pinning"
  /\ call[c].k = Len(call[c].seen)
  /\ call' = [call EXCEPT ![c].at = "running", ![c].connector = "running"]
  /\ rows' = [rows EXCEPT ![c] = ForEach(call[c].request, "interrupted")]
  /\ UNCHANGED <<targetVars, flying>>

\* runConnector: the connector answers, or throws, before the timer.
ConnectorEnds(c) ==
  /\ call[c].at = "running"
  /\ \E out \in {"ok", "error"} :
       Ends(c, [call[c] EXCEPT !.at = "ended", !.holders = {}, !.connector = "done"],
            Completed(rows[c], out))

\* Mutant: the timer is armed for calls of one target only.
TimesOutAlone(c) ==
  /\ call[c].at = "running"
  /\ Len(call[c].seen) = 1
  /\ Ends(c, [call[c] EXCEPT !.at = "ended", !.holders = {}, !.connector = "abandoned"],
          Completed(rows[c], "error"))

\* The timer is first: the connector is told by its signal and left behind.
TimesOut(c) ==
  /\ call[c].at = "running"
  /\ Ends(c, [call[c] EXCEPT !.at = "ended", !.holders = {}, !.connector = "abandoned"],
          Completed(rows[c], "error"))

\* A connector left behind ends; nothing waits for it any more.
AbandonedEnds(c) ==
  /\ call[c].connector = "abandoned"
  /\ call' = [call EXCEPT ![c].connector = "done"]
  /\ UNCHANGED <<targetVars, rows, flying>>

\* The process dies and another starts: the tables stay, the calls, the pages
\* being checked and the counters do not.
Crash ==
  /\ call' = [c \in Calls |->
                IF Underway(c) \/ call[c].connector = "abandoned"
                  THEN [call[c] EXCEPT !.at = IF Underway(c) THEN "cut" ELSE @,
                                       !.holders = {}, !.connector = "none"]
                  ELSE call[c]]
  /\ flying' = [targets |-> [i \in Ids |-> 0], clients |-> [k \in Clients |-> 0]]
  /\ form' = [f \in Forms |-> NoForm]
  /\ UNCHANGED <<target, grant, rows>>

Proceeds(c) ==
  \/ FetchField(c) \/ FetchFails(c)
  \/ PinFails(c) \/ Pinned(c) \/ Run(c)
  \/ ConnectorEnds(c) \/ TimesOut(c)

CallsNext ==
  \/ TargetsNext /\ UNCHANGED callVars
  \/ \E c \in Calls, r \in Requests : Deny(c, r) \/ Acquire(c, r)
  \/ \E c \in Calls : Proceeds(c) \/ AbandonedEnds(c)
  \/ Crash

CallsSpec == CallsInit /\ [][CallsNext]_vars

\* The vault answers or times out, so does the resolver, and the timer of a
\* run fires.  That a connector ends is not assumed.
CallsFairness ==
  \A c \in Calls :
    /\ WF_vars(FetchField(c) \/ FetchFails(c))
    /\ WF_vars(PinFails(c) \/ Pinned(c) \/ Run(c))
    /\ WF_vars(TimesOut(c))

CallsFairSpec == CallsSpec /\ CallsFairness
-----------------------------------------------------------------------------
(* Properties.                                                             *)

\* The names of the calls in flight that count against target i, client k.
OnTarget(i) == UNION {{<<c, j>> : j \in {j \in DOMAIN call[c].seen : call[c].seen[j].id = i}} :
                        c \in {c \in Calls : Underway(c)}}
OfClient(k) == UNION {{<<c, j>> : j \in DOMAIN call[c].seen} :
                        c \in {c \in Calls : Underway(c) /\ call[c].request.client = k}}

\* The counters are exactly the calls in flight, by target and by client, so
\* no path out of a call forgets or repeats a release and no caller is locked
\* out; and they are within the caps of ACT-59.
LimitsExact ==
  /\ \A i \in Ids :
       flying.targets[i] = Cardinality(OnTarget(i)) /\ flying.targets[i] <= TargetCap
  /\ \A k \in Clients :
       flying.clients[k] = Cardinality(OfClient(k)) /\ flying.clients[k] <= ClientCap

\* The outcomes a call in its state may have been recorded with.
OutcomesOf(c) ==
  CASE call[c].at \in {"running", "cut"} -> {"interrupted"}
    [] call[c].at = "ended" ->
         IF call[c].seen = <<>> THEN {"denied"}
         ELSE IF call[c].connector = "abandoned" THEN {"error"} ELSE {"ok", "error"}
    [] OTHER -> {}

\* ACT-60, ACT-62, ACT-116: before its connector runs, and at its end, a call
\* has one row for every name it gave, all with the one outcome; a call that
\* died with the process while its connector ran is left interrupted.
RowsTell ==
  \A c \in Calls :
    LET r == call[c].request IN
    \/ rows[c] = <<>> /\ call[c].at \in {"idle", "fetching", "pinning", "cut"}
    \/ \E out \in OutcomesOf(c) :
         rows[c] = IF ListProblem(r) THEN ForList(r, out) ELSE ForEach(r, out)

\* ACT-50: a connector has the secrets of every target of its call until it
\* answers or is left behind, and a call that is over holds none of them.
SecretsKept ==
  \A c \in Calls :
    /\ call[c].at = "running" => call[c].holders = DOMAIN call[c].seen
    /\ ~Underway(c) => call[c].holders = {}

\* What a call records and what it holds agree at every await and on every
\* way out.
CallTold == RowsTell /\ SecretsKept

\* A call goes on with what it resolved, also when the grant is revoked, the
\* policy narrowed or the target removed under it: to its end it does only
\* what the documents it was let in with allow, through one list of targets
\* in which none comes twice.
AsResolved ==
  \A c \in Calls : \A j, m \in DOMAIN call[c].seen :
    /\ call[c].request.op \in Permits[call[c].seen[j].docs]
    /\ call[c].seen[j].id = call[c].seen[m].id => j = m

\* Fetched values are left in no holder only by a call that ended in an error
\* with its connector never started, and never all the values of a credential.
LooseOnlyPartial ==
  \A c \in Calls : call[c].loose > 0 =>
    /\ call[c].loose < Fields
    /\ call[c].at = "ended" /\ call[c].connector = "none"
    /\ rows[c] = ForEach(call[c].request, "error")

\* Those, as one invariant of the module.
CallsSound == CallsTypeOK /\ LimitsExact /\ CallTold /\ AsResolved /\ LooseOnlyPartial

\* ACT-1, ACT-60: the revision in a call's row names the documents it ran
\* with: two calls of one target that saw one revision saw the same documents,
\* and so does who reads the target at that revision, although edits that
\* were checked at the same time overlap.
RevisionNames ==
  \A c \in Calls : \A j \in DOMAIN call[c].seen :
    LET s == call[c].seen[j] IN
    /\ Saved(s.id) /\ target[s.id].revision = s.revision => target[s.id].docs = s.docs
    /\ \A d \in Calls : \A m \in DOMAIN call[d].seen :
         LET t == call[d].seen[m] IN
         s.id = t.id /\ s.revision = t.revision => s.docs = t.docs

\* Every call that was let in ends, whatever its connector does, so its limits
\* come back.
CallsEnd == \A c \in Calls : Underway(c) ~> ~Underway(c)

\* engine-run-many.ts:5-7, ACT-50: "Every injected buffer is zeroed at the end
\* whatever happens".
NothingLoose == \A c \in Calls : call[c].loose = 0

\* ACT-9: revoking a grant takes effect: a connector that starts has a target
\* that is granted and switched on.
StartsGranted ==
  [][\A c \in Calls : Run(c) =>
       \A j \in DOMAIN call[c].seen :
         LET i == call[c].seen[j].id IN
         Saved(i) /\ target[i].enabled /\ Active(grant[i][call[c].request.client])]_vars
=============================================================================
