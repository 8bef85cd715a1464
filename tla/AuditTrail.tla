------------------------------ MODULE AuditTrail ------------------------------
(***************************************************************************)
(* The two audit streams (src/audit) and the tables they are kept in: one  *)
(* row appended per event inside the request that caused it, retired by    *)
(* age in the store's maintenance (src/storage/maintenance.ts), and read   *)
(* page by page, newest first on (at, id), by the export and by the call   *)
(* pages of the console (src/actions/pages/calls.ts).  A reader takes its  *)
(* next page whenever it likes: rows come and go in between, the clock is  *)
(* the wall clock and may be set back, and ids are random, so a row of the *)
(* same instant sorts on either side of the cursor.                        *)
(***************************************************************************)
EXTENDS Integers, FiniteSets, Sequences

CONSTANTS
  RowId,        \* row ids, ordered as the store orders their text
  Instants,     \* the wall clock's readings
  Retention,    \* VAULTGATE_AUDIT_RETENTION_DAYS
  PageSize,     \* rows of a page: EXPORT_PAGE_SIZE, HISTORY_LIMIT
  Appends       \* bound: events recorded
ASSUME TrailAssumption == RowId \subseteq Nat /\ Instants \subseteq Nat /\ PageSize \in Nat \ {0} /\ Retention \in Nat

VARIABLES
  trail,     \* the rows of the table
  appended,  \* ids used so far
  reader     \* an export, or an operator following "Older calls"
trailVars == <<trail, appended, reader>>

NoCursor == [at |-> -1, id |-> -1]
IdleReader == [at |-> "idle"]
TrailInit == trail = {} /\ appended = {} /\ reader = IdleReader

-----------------------------------------------------------------------------
(* Writing and retiring. *)
DetailKeys == {"reason", "credential"}     \* a key that names a credential, and one that does not
SecretFreeNever(keys) == keys
SecretFree(keys) == keys \ {"credential"}
Filed(at, id, operation, keys) == [at |-> at, id |-> id, operation |-> operation, keys |-> SecretFree(keys)]
(* The event's request goes on either way: a failed insert is only logged. *)
InsertRow(at, id, operation) ==
  /\ Cardinality(appended) < Appends /\ appended' = appended \cup {id}
  /\ trail' \in {trail, trail \cup {Filed(at, id, operation, DetailKeys)}}
RecordEvent ==
  /\ UNCHANGED reader
  /\ \E at \in Instants, id \in RowId \ appended, operation \in {"read", "write", "unknown"} :
       InsertRow(at, id, operation)
Retired(row, now) == row.at < now - Retention
(* Rows that stay all through a reading are what the reader is owed. *)
RunMaintenance ==
  /\ UNCHANGED appended
  /\ \E now \in Instants :
       /\ trail' = {row \in trail : ~Retired(row, now)}
       /\ reader' = IF reader.at = "reading" THEN [reader EXCEPT !.stayed = @ \cap trail'] ELSE reader

-----------------------------------------------------------------------------
(* Reading. *)
Newer(a, b) == a.at > b.at \/ (a.at = b.at /\ a.id > b.id)
PastCursorAtOnly(row, cursor) == cursor = NoCursor \/ row.at < cursor.at
PastCursorOrAt(row, cursor) == cursor = NoCursor \/ row.at <= cursor.at
PastCursor(row, cursor) == cursor = NoCursor \/ Newer(cursor, row)
(* A call refused before its operation was known has none, and SQL's <> is not true of it. *)
Matches(row, filter) == filter = "writes" => row.operation \notin {"read", "unknown"}
Selected(r) ==
  {row \in trail : row.at >= r.from /\ row.at < r.to /\ PastCursor(row, r.cursor) /\ Matches(row, r.filter)}
(* The statement orders the rows and stops after limit + 1 of them, which tells whether there is a next page: *)
(* what the store may answer, the newest rows first and no older one in place of a newer.                     *)
Fetched(r) ==
  {rows \in UNION {[1..n -> Selected(r)] : n \in 0..PageSize + 1} :
     /\ \A i, j \in DOMAIN rows : i < j => Newer(rows[i], rows[j])
     /\ \A row \in Selected(r) :
          \/ \E i \in DOMAIN rows : rows[i] = row
          \/ Len(rows) > PageSize /\ Newer(rows[PageSize + 1], row)}
CursorOf(row) == [at |-> row.at, id |-> row.id]
NextCursorExtra(rows) == IF Len(rows) > PageSize THEN CursorOf(rows[PageSize + 1]) ELSE NoCursor
NextCursor(rows) == IF Len(rows) > PageSize THEN CursorOf(rows[PageSize]) ELSE NoCursor
Given(rows) == IF Len(rows) > PageSize THEN [i \in 1..PageSize |-> rows[i]] ELSE rows
After(r, rows) ==
  [r EXCEPT !.given = @ \o Given(rows), !.cursor = NextCursor(rows),
            !.at = IF NextCursor(rows) = NoCursor THEN "over" ELSE "reading"]
NewReader(from, to, filter) ==
  [at |-> "reading", from |-> from, to |-> to, filter |-> filter, cursor |-> NoCursor, given |-> <<>>, stayed |-> trail']
(* parseExportRequest refuses an empty window; the export is itself recorded before its first page is read. *)
OpenExport ==
  /\ reader = IdleReader
  /\ \E at \in Instants, id \in RowId \ appended, from \in Instants, to \in {i + 1 : i \in Instants} :
       /\ from < to /\ InsertRow(at, id, "unknown")
       /\ reader' = NewReader(from, to, "all")
(* A call page reads all time; the writes leave the reads out. *)
OpenCalls ==
  /\ reader = IdleReader /\ UNCHANGED <<trail, appended>>
  /\ \E to \in {i + 1 : i \in Instants}, filter \in {"all", "writes"} :
       /\ \A i \in Instants : i < to
       /\ reader' = NewReader(0, to, filter)
ReadPage ==
  /\ reader.at = "reading" /\ UNCHANGED <<trail, appended>>
  /\ \E rows \in Fetched(reader) : reader' = After(reader, rows)
(* The download is broken off, or the operator leaves. *)
LeaveReader == reader.at # "idle" /\ reader' = IdleReader /\ UNCHANGED <<trail, appended>>
TrailNext == RecordEvent \/ RunMaintenance \/ OpenExport \/ OpenCalls \/ ReadPage \/ LeaveReader
TrailSpec == TrailInit /\ [][TrailNext]_trailVars

-----------------------------------------------------------------------------
TrailTypeOK ==
  /\ \A row \in trail : row.at \in Instants /\ row.id \in appended
  /\ reader.at \in {"idle", "reading", "over"}
(* What a reader has been given is strictly newest first, so no row comes twice and none out of order; it is in the window and as asked. *)
GivenInOrder ==
  reader # IdleReader =>
    /\ \A i, j \in 1..Len(reader.given) : i < j => Newer(reader.given[i], reader.given[j])
    /\ \A i \in 1..Len(reader.given) :
         /\ reader.given[i].at >= reader.from /\ reader.given[i].at < reader.to
         /\ Matches(reader.given[i], reader.filter)
(* A reader that reached the end was given every row that was there all along, whatever was recorded or retired between its pages. *)
NothingSkipped ==
  reader.at = "over" =>
    \A row \in reader.stayed :
      row.at >= reader.from /\ row.at < reader.to /\ Matches(row, reader.filter)
        => \E i \in 1..Len(reader.given) : reader.given[i] = row
NoCredentialFiled == \A row \in trail : "credential" \notin row.keys
(* An audit reader gets each row that stayed exactly once, in order, and no row names a credential (OPS-5, MCP-15). *)
TrailReadWhole == TrailTypeOK /\ GivenInOrder /\ NothingSkipped /\ NoCredentialFiled

(* An export reads on as long as it is read from. *)
TrailFairness == WF_trailVars(ReadPage)
(* A reader that goes on reading comes to an end, though rows are appended under it. *)
ReadersEnd == [](reader.at = "reading" => <>(reader.at # "reading"))
=============================================================================
