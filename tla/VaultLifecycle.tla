---------------------------- MODULE VaultLifecycle ----------------------------
(***************************************************************************)
(* What the vault backend promises its callers (VAULT-5, 7, 18; the        *)
(* VaultSupervisor interface of src/src/bitwarden/supervisor.ts): which    *)
(* connection is in force, whether it is being served, and whether a       *)
(* replacement is being tried.  Connections are numbered as the process    *)
(* creates them; 0 stands for none.                                        *)
(***************************************************************************)
EXTENDS Naturals

CONSTANT Connections    \* a set of positive numbers

VARIABLES
    inForce,    \* the connection a caller reaches once it is served
    trying,     \* the connection a reconfiguration is bringing up
    retired,    \* connections given up for good
    serving     \* calls are being answered

vars == <<inForce, trying, retired, serving>>

Init ==
    /\ inForce \in Connections \cup {0}
    /\ trying = 0
    /\ retired = {}
    /\ serving = FALSE

\* The connection in force comes up - never during a switch.
Up ==
    /\ inForce # 0 /\ trying = 0
    /\ serving' = TRUE
    /\ UNCHANGED <<inForce, trying, retired>>

\* It goes down: a crash, a halt.
Down ==
    /\ serving' = FALSE
    /\ UNCHANGED <<inForce, trying, retired>>

\* A reconfiguration begins, with a connection never used before.
Try(c) ==
    /\ trying = 0 /\ ~serving
    /\ c \in Connections \ (retired \cup {inForce})
    /\ trying' = c
    /\ UNCHANGED <<inForce, retired, serving>>

\* It succeeds: from now on the new connection is in force.  It may be served
\* in the same step.
Adopt ==
    /\ trying # 0
    /\ inForce' = trying
    /\ trying' = 0
    /\ retired' = retired \cup ({inForce} \ {0})
    /\ serving' \in BOOLEAN

\* It fails: what was in force stays in force.
GiveUp ==
    /\ trying # 0
    /\ trying' = 0
    /\ retired' = retired \cup {trying}
    /\ UNCHANGED <<inForce, serving>>

Next == Up \/ Down \/ (\E c \in Connections : Try(c)) \/ Adopt \/ GiveUp

Spec == Init /\ [][Next]_vars
===============================================================================
