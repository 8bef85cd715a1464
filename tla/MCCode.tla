------------------------------- MODULE MCCode -------------------------------
(* The code connector: the two limits its builds run under, the index of    *)
(* the builds it keeps, and the sidecar that builds and searches the        *)
(* snapshots, each on a small instance: "part" is the one that runs, the    *)
(* others rest at one of their initial states.                              *)
EXTENDS BuildFlight, CodeIndex, CodeSidecar, TLC

CONSTANTS ThirdRequest, LastRequest
VARIABLE part

(* Two turns of the world are for one call and no build. *)
FewTurns(calls, builds, taken) ==
  taken = 2 => /\ Cardinality({c \in CodeCall : calls[c].at # "idle"}) <= 1
               /\ \A b \in CodeBuild : builds[b] = NewBuild
(* Who has nothing left to do with anybody else goes first, which no other step can tell: a call whose build failed or *)
(* was refused, and a request to the sidecar that its flight let go.                                                   *)
TellsFirst ==
  LET told == {c \in CodeCall : ccalls[c].at = "waiting" /\ cbuilds[ccalls[c].build].at \in {"failed", "refused"}}
  IN told # {} => \E c \in told : ccalls'[c] # ccalls[c]
FlownFirst ==
  LET flown == {r \in Req : req[r].at \in {"flown", "next"}}
  IN flown # {} => \E r \in flown : req'[r] # req[r]
(* Of three requests no more than two query and one deletes.  A fourth is for three that put one key while one deletes it. *)
FewRequests(requests) ==
  /\ requests[ThirdRequest].op # "query"
  /\ Cardinality({r \in Req : requests[r].op = "delete"}) <= 1
  /\ requests[LastRequest].op # "none" =>
       /\ requests[ThirdRequest].op = "delete"
       /\ \A r \in Req \ {ThirdRequest} : requests[r].op = "put"
       /\ \E k \in Owned : \A r \in Req : {requests[r].key} \cup requests[r].keys \subseteq {k, None}

\* The index starts with nothing kept, or with a snapshot of the commit its ref names.
CodePartsInit ==
  /\ part \in {"builds", "index", "sidecar"}
  /\ FlightsInit /\ CodeInit /\ SidecarInit
  /\ part # "index" => stored.docs = (CHOOSE d \in Docs : TRUE) /\ head = (CHOOSE s \in Sha : TRUE) /\ current = Nothing
  /\ been = {head}
  /\ part # "sidecar" => lru = <<>>
CodePartsNext ==
  /\ UNCHANGED part
  /\ \/ part = "builds" /\ FlightsNext /\ UNCHANGED <<codeVars, sidecarVars>>
     \/ part = "index" /\ CodeNext /\ FewTurns(ccalls', cbuilds', turns') /\ TellsFirst /\ UNCHANGED <<flightVars, sidecarVars>>
     \/ part = "sidecar" /\ SidecarNext /\ FewRequests(req') /\ FlownFirst /\ UNCHANGED <<flightVars, codeVars>>
CodePartsSpec == CodePartsInit /\ [][CodePartsNext]_<<part, flightVars, codeVars, sidecarVars>>

(* Calls, fingerprints, commits and builds are alike.  A target stands for a *)
(* fingerprint, and a build of the index for one of the flights.             *)
CodeSymmetry ==
  Permutations(CodeCall) \cup Permutations(Docs) \cup Permutations(Sha) \cup Permutations(CodeBuild)
=============================================================================
