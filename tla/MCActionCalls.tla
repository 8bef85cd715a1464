---------------------------- MODULE MCActionCalls ----------------------------
(***************************************************************************)
(* ActionCalls for TLC.                                                    *)
(***************************************************************************)
EXTENDS ActionCalls, TLC

CONSTANTS n1, n2, k1, policy1, policy2

Request(k, ns, op) == [client |-> k, names |-> ns, op |-> op]

\* One target read or written, two at once, and a list that repeats a name.
MCRequests == {Request(k1, <<n1>>, "read"), Request(k1, <<n1>>, "write"),
               Request(k1, <<n1, n2>>, "read"), Request(k1, <<n1, n1>>, "read")}

\* Two targets, or one after the other of the same name, all with the first
\* documents; they are edited to the second.
MCNewTargets == [name : {n1, n2}, enabled : {TRUE}, docs : {policy1}]

\* The second documents allow no write.
MCPermits == [d \in Docs |-> IF d = policy1 THEN {"read", "write"} ELSE {"read"}]

\* The calls are alike, and so are the identifiers newId() makes.
MCSymmetry == Permutations(Calls) \cup Permutations(Ids)

\* What a step of the run leaves out: it could change nothing that a later step
\* of the run still reads.  Once every call was made, no grant is given or
\* revoked any more; and a connector left behind ends before anything else
\* happens but a crash.
GrantsInTime == (\A c \in Calls : call[c].at # "idle") => grant' = grant \/ target' # target
LeftBehindFirst ==
  LET left == {c \in Calls : call[c].connector = "abandoned"}
  IN  left # {} => \E c \in left : call'[c] # call[c]

MCNext == CallsNext /\ GrantsInTime /\ LeftBehindFirst
MCSpec == CallsInit /\ [][MCNext]_vars
=============================================================================
