--------------------------- MODULE MCActionTargets ---------------------------
(***************************************************************************)
(* ActionTargets for TLC.                                                  *)
(***************************************************************************)
EXTENDS ActionTargets, TLC

\* Every target the values allow may be created.
MCNewTargets == [name : Names, enabled : BOOLEAN, docs : Docs]

\* Identifiers, names, clients and open pages are each alike.
MCSymmetry == Permutations(Ids) \cup Permutations(Names)
                \cup Permutations(Clients) \cup Permutations(Forms)
=============================================================================
