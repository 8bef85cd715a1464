----------------------------- MODULE Connectors -----------------------------
(***************************************************************************)
(* The connectors side by side: they share no state, and every one of them *)
(* is bound in what a single step may do.                                  *)
(***************************************************************************)
EXTENDS HttpConnector, SqlConnector, ShellConnectors

(* graph.ts, session.ts and winrm's client.ts: what a connector may not do in one step - retry with the token a 401 *)
(* refused, let a statement start after the deadline, leave a command it started without Signal.                    *)
ConnectorSteps == RetriesAfresh /\ LateStatementCancelled /\ SignalFirst
=============================================================================
