-------------------------- MODULE MCVaultSupervisor --------------------------
(***************************************************************************)
(* VaultSupervisor for TLC, with what the repository says of it and the    *)
(* code does not do: each of these is a run that finds a counterexample    *)
(* (README, "Where the code and its documents differ").                    *)
(***************************************************************************)
EXTENDS VaultSupervisor

\* VAULT-7 (05-vault-backend.md:51): on SIGTERM the child is locked, sent
\* SIGTERM and waited for.
StopLeavesNothingRunning ==
    pc["stop"] = "done" => \A c \in Children : ~IsUp(c)

\* VAULT-18 (05-vault-backend.md:73): "readiness is `false` in between", from
\* the halt of the old generation to the hand-over of the new one.
SwitchingIsNotReady == pc["switch"] # "idle" => ~isReady

\* VAULT-15, credentials.ts:52: reading disposed credentials "is a programmer
\* error and throws"; credentials() hands out those of the generation in use.
CredentialsReadable == IsRunning => generation \notin disposed

\* VAULT-18 (05-vault-backend.md:73): "A failure at any step stops whatever was
\* started, restores the previous generation".
SwitchRestores ==
    [][ pc["switch"] # "idle" /\ pc'["switch"] = "idle" /\ ~isStopping =>
            \/ generation' = created /\ pc'["loop"] = "serving"
            \/ generation' = previous ]_vars
=============================================================================
