---------------------------- MODULE SqlConnector ----------------------------
(***************************************************************************)
(* One sql_query or sql_execute: src/actions/connectors/sql/.  The         *)
(* connector, the engine's deadline and the database each take steps; the  *)
(* engine answers timeout at the deadline and abandons the connector,      *)
(* which goes on (engine-run.ts), so what the database does after the      *)
(* answer matters as much as before it.                                    *)
(***************************************************************************)
EXTENDS Integers

CONSTANTS
  SqlDocument,   \* the documents an operator may submit
  SqlStatement   \* the statements an agent may ask for
ASSUME SqlDocumentAssumption == \A d \in SqlDocument : d.engine \in {"postgres", "mssql"}
ASSUME StatementAssumption ==
  SqlStatement \subseteq [tool : {"sql_query", "sql_execute"}, class : {"read", "dml", "ddl", "other", "two"},
                          bound : BOOLEAN, listed : BOOLEAN, writes : BOOLEAN, exact : BOOLEAN]

VARIABLES
  sqlDoc,      \* the target's document
  statement,   \* the call's statement
  sqlAt,       \* where the connector is
  told,        \* what the agent was answered, "nothing" until then
  link,        \* the connection: "none", "open", "dropped"
  listening,   \* the session heard of, or will hear of, the deadline
  deadline,    \* the policy timeout elapsed
  sent,        \* the request on its way to the database, or "none"
  transaction, \* at the database: "none", "open", "committed", "rolled_back"
  wrote,       \* the statement changed data in the open transaction
  fault        \* the failure the connector found, or "none"

sqlVars == <<sqlDoc, statement, sqlAt, told, link, listening, deadline, sent, transaction, wrote, fault>>
database == <<transaction, wrote>>

(* Documents a save accepts. *)
SqlSavable(d) ==
  /\ (d.tls = "verify-full") <=> d.ca
  /\ ~(d.engine = "mssql" /\ d.tls # "disable" /\ ~d.named)
  /\ "write" \in d.operations => "read" \in d.operations

(* The policy decision and what else is refused before anything connects. *)
ReadDecision(d, s) ==
  IF "read" \in d.operations /\ s.class = "read" THEN "allowed" ELSE "policy_denied"
WriteDecision(d, s) ==
  IF "write" \in d.operations /\ s.class \in {"dml", "ddl"} \cap d.classes /\ s.listed THEN "allowed" ELSE "policy_denied"
SqlAuthorize(d, s) ==
  IF s.class = "two" THEN "policy_denied"
  ELSE IF s.tool = "sql_query" THEN ReadDecision(d, s) ELSE WriteDecision(d, s)
SqlBound(s) == IF s.bound THEN "allowed" ELSE "invalid_arguments"
Prepare(d, s, held) ==
  IF SqlAuthorize(d, s) # "allowed" THEN "policy_denied"
    ELSE IF SqlBound(s) # "allowed" THEN SqlBound(s)
    ELSE IF ~held THEN "credential_unavailable"
    ELSE "allowed"
Mode(s) == IF s.tool = "sql_query" THEN "read" ELSE "write"

(* A driver's failure as one code of the engine. *)
PostgresFaults == [login |-> "authentication_failed", cancelled |-> "timeout", socket |-> "connection_failed"]
MssqlFaults == [login |-> "authentication_failed", cancelled |-> "timeout", socket |-> "connection_failed",
                certificate |-> "tls_error"]
ActionErrorOf(why) ==
  LET table == IF sqlDoc.engine = "postgres" THEN PostgresFaults ELSE MssqlFaults
  IN IF why = "certificate" THEN "tls_error" ELSE IF why \in DOMAIN table THEN table[why] ELSE "upstream_error"

(* The certificate the database presents, judged as the driver was configured. *)
SslOf(d, certificate) ==
  CASE d.tls = "disable" -> TRUE
    [] d.tls = "require" -> certificate = "store"
    [] OTHER -> certificate = "authority"

(* What the database lets a session do. *)
ReadOnlyNever(d, s) == FALSE
ReadOnly(d, s) == d.engine = "postgres" /\ Mode(s) = "read"
HasTransaction(d, s) == d.engine = "postgres" \/ Mode(s) = "write"

SqlInit ==
  /\ sqlDoc \in {d \in SqlDocument : SqlSavable(d)} /\ statement \in SqlStatement
  /\ sqlAt = "idle" /\ told = "nothing" /\ link = "none" /\ listening = FALSE /\ deadline = FALSE
  /\ sent = "none" /\ transaction = "none" /\ wrote = FALSE /\ fault = "none"

(* The first of the connector's outcome and the deadline is the answer. *)
Tell(outcome) == told' = IF told = "nothing" THEN outcome ELSE told
Goes(at) == sqlAt' = at

SqlArrive ==
  /\ sqlAt = "idle"
  /\ \E held \in BOOLEAN :
       LET verdict == Prepare(sqlDoc, statement, held)
       IN IF verdict = "allowed" THEN Goes("connecting") /\ UNCHANGED told
          ELSE Goes("done") /\ Tell(verdict)
  /\ UNCHANGED <<sqlDoc, statement, link, listening, deadline, sent, database, fault>>

(* Opening: the session hears of a deadline only if it had not passed. *)
SqlConnect ==
  /\ sqlAt = "connecting"
  /\ \E certificate \in {"store", "authority", "other"} : SslOf(sqlDoc, certificate)
  /\ link' = "open" /\ listening' = ~deadline
  /\ Goes(IF HasTransaction(sqlDoc, statement) THEN "begin" ELSE "statement")
  /\ UNCHANGED <<sqlDoc, statement, told, deadline, sent, database, fault>>
SqlOpenFails ==
  /\ sqlAt = "connecting"
  /\ \E why \in {"certificate", "login", "socket"} : fault' = ActionErrorOf(why) /\ Tell(fault')
  /\ Goes("done")
  /\ UNCHANGED <<sqlDoc, statement, link, listening, deadline, sent, database>>

(* mssql remembers the request it runs and cancels one that starts late. *)
RememberNever == FALSE
Remember == sqlDoc.engine = "mssql" /\ deadline
SendStatement(request) == sent' = request
SqlRequest ==
  /\ sqlAt \in {"begin", "statement", "commit"} /\ sent = "none"
  /\ IF link = "dropped" \/ (sqlAt = "statement" /\ Remember)
     THEN fault' = ActionErrorOf(IF link = "dropped" THEN "socket" ELSE "cancelled") /\ Goes("rollback") /\ UNCHANGED sent
     ELSE SendStatement(sqlAt) /\ UNCHANGED <<fault, sqlAt>>
  /\ UNCHANGED <<sqlDoc, statement, told, link, listening, deadline, database>>

(* The database: what it received is done, or fails, even on a dropped link. *)
SqlRefuses == ReadOnly(sqlDoc, statement) /\ statement.writes
DatabaseDoes ==
  /\ sent \in {"begin", "statement", "commit", "rollback"}
  /\ \/ /\ sent = "begin" /\ transaction' = "open" /\ sent' = "began" /\ UNCHANGED wrote
     \/ /\ sent = "statement" /\ ~SqlRefuses /\ sent' = "ran"
        /\ wrote' = statement.writes
        /\ transaction' = IF HasTransaction(sqlDoc, statement) THEN transaction
                          ELSE IF statement.writes THEN "committed" ELSE "none"
     \/ /\ sent = "statement" /\ sent' = "refused" /\ UNCHANGED database
     \/ /\ sent = "commit" /\ transaction' = "committed" /\ sent' = "committed" /\ UNCHANGED wrote
     \/ /\ sent = "rollback" /\ transaction' = "rolled_back" /\ wrote' = FALSE /\ sent' = "rolled"
  /\ UNCHANGED <<sqlDoc, statement, sqlAt, told, link, listening, deadline, fault>>

(* A transaction whose connection is gone is rolled back by the database. *)
DatabaseRollsBack ==
  /\ link = "dropped" /\ transaction = "open"
  /\ transaction' = "rolled_back" /\ wrote' = FALSE
  /\ sent' = IF sent \in {"none", "rolled"} THEN sent ELSE "refused"
  /\ UNCHANGED <<sqlDoc, statement, sqlAt, told, link, listening, deadline, fault>>

(* Rows: postgres renders before COMMIT, mssql after its transaction ended. *)
Exact == statement.exact \/ sqlDoc.engine = "postgres"
AfterStatement == IF HasTransaction(sqlDoc, statement) THEN "commit" ELSE "rows"
SqlAnswer ==
  /\ sent \in {"began", "ran", "refused", "committed", "rolled"} /\ sent' = "none"
  /\ IF sqlAt = "rollback" THEN Goes("closing") /\ UNCHANGED fault
     ELSE IF link = "dropped" THEN Goes("rollback") /\ fault' = ActionErrorOf("socket")
     ELSE CASE sent = "began" -> Goes("statement") /\ UNCHANGED fault
            [] sent = "ran" -> Goes(AfterStatement) /\ UNCHANGED fault
            [] sent = "committed" -> Goes("rows") /\ UNCHANGED fault
            [] OTHER -> Goes("rollback") /\ fault' = ActionErrorOf("sql")
  /\ UNCHANGED <<sqlDoc, statement, told, link, listening, deadline, database>>
SqlRows ==
  /\ sqlAt = "rows" /\ Goes("closing")
  /\ fault' = IF Exact THEN "none" ELSE "connector_fault"
  /\ UNCHANGED <<sqlDoc, statement, told, link, listening, deadline, sent, database>>

(* The rollback of a failed statement, quietly: nothing to send on a dropped link. *)
SqlRollback ==
  /\ sqlAt = "rollback" /\ sent = "none"
  /\ IF link = "open" /\ transaction = "open" THEN SendStatement("rollback") /\ UNCHANGED sqlAt
     ELSE Goes("closing") /\ UNCHANGED sent
  /\ UNCHANGED <<sqlDoc, statement, told, link, listening, deadline, database, fault>>

(* finally: the session is closed and the outcome offered. *)
ClosedOnSuccess == fault = "none"
Closed == TRUE
Outcome == IF fault = "none" THEN "ok" ELSE fault
SqlClose ==
  /\ sqlAt = "closing" /\ Goes("done") /\ listening' = FALSE
  /\ link' = IF Closed THEN "dropped" ELSE link
  /\ Tell(Outcome)
  /\ UNCHANGED <<sqlDoc, statement, deadline, sent, database, fault>>

(* The policy timeout: the agent is answered, and a session that listens drops its connection. *)
SqlDeadline ==
  /\ sqlAt \notin {"idle", "done"} /\ ~deadline
  /\ deadline' = TRUE /\ Tell("timeout")
  /\ link' = IF listening /\ link = "open" THEN "dropped" ELSE link
  /\ UNCHANGED <<sqlDoc, statement, sqlAt, listening, sent, database, fault>>

(* The network may break an open connection. *)
LinkBreaks ==
  /\ link = "open" /\ sqlAt \notin {"rows", "closing"} /\ link' = "dropped"
  /\ UNCHANGED <<sqlDoc, statement, sqlAt, told, listening, deadline, sent, database, fault>>

SqlWorks == SqlConnect \/ SqlOpenFails \/ SqlRequest \/ DatabaseDoes \/ DatabaseRollsBack \/ SqlAnswer \/ SqlRows \/ SqlRollback \/ SqlClose
SqlStep == SqlWorks \/ SqlDeadline
SqlNext == SqlArrive \/ SqlStep \/ LinkBreaks
SqlSpec == SqlInit /\ [][SqlNext]_sqlVars

----------------------------------------------------------------------------

SqlTypeOK ==
  /\ SqlSavable(sqlDoc)
  /\ sqlAt \in {"idle", "connecting", "begin", "statement", "commit", "rows", "rollback", "closing", "done"}
  /\ link \in {"none", "open", "dropped"} /\ transaction \in {"none", "open", "committed", "rolled_back"}

(* ACT-26: a call that was refused never reached the database.            *)
RefusedUnopened == told \in {"policy_denied", "invalid_arguments", "credential_unavailable"} => link = "none" /\ transaction = "none"

(* ACT-37, ACT-85: what a read leaves in a PostgreSQL database is nothing, *)
(* even when the statement calls a function that writes.                  *)
ReadsLeaveNothing == sqlDoc.engine = "postgres" /\ Mode(statement) = "read" => ~wrote

(* ACT-25 as far as the code keeps it: an answer of success is a commit;  *)
(* a failure with a commit behind it is one of three the code cannot      *)
(* take back: the deadline or the network cut the answer of the COMMIT, a *)
(* PostgreSQL session was opened after the deadline, or SQL Server's rows *)
(* could not be rendered after the commit.                                *)
SqlToldTrue ==
  Mode(statement) = "write" =>
    /\ told = "ok" => transaction = "committed"
    /\ transaction = "committed" /\ told \notin {"ok", "nothing"} =>
         \/ told = "timeout" /\ deadline
         \/ told = "connection_failed" /\ link = "dropped"
         \/ told = "connector_fault" /\ sqlDoc.engine = "mssql"

(* A statement SQL Server starts after the deadline is cancelled before it *)
(* runs (session.ts, remember).                                           *)
LateStatementCancelled ==
  [][sqlDoc.engine = "mssql" /\ deadline /\ sqlAt = "statement" /\ sent = "none" => sent' # "statement"]_sqlVars

(* The driver or the deadline ends every wait for the database.          *)
SqlFairness == WF_sqlVars(SqlStep)
(* ACT-86: the session of every call is closed and nothing of it stays    *)
(* open in the database.                                                  *)
SqlEnds == sqlAt = "connecting" ~> sqlAt = "done" /\ link # "open" /\ transaction # "open"

(* ACT-25 as written: "commits on success and rolls back on any error or   *)
(* on the timeout".                                                       *)
RollsBackOnFailure == told \notin {"ok", "nothing"} => transaction # "committed"

SqlSafe == SqlTypeOK /\ RefusedUnopened /\ ReadsLeaveNothing /\ SqlToldTrue
=============================================================================
