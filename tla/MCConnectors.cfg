\* Inputs of up to six characters; two HTTP calls over three tokens; one call to a
\* database or a shell, of every kind; one page that is edited and saved twice; two
\* calls on two items.
SPECIFICATION ConnectorsSpec
CONSTANTS
  PatternMax = 4
  SubjectMax = 4
  StatementMax = 5
  SegmentMax = 4
  TextMax = 6
  HttpCall = {c1, c2}
  NoToken = NoToken
  Document <- HttpDocuments
  HttpOperation <- HttpOperations
  EndpointHabit = {"echoes", "keeps", "revokes"}
  IssuedMax = 3
  RevisionMax = 2
  SqlDocument <- SqlDocuments
  SqlStatement <- SqlStatements
  ShellDocument <- ShellDocuments
  ShellCommand <- ShellCommands
  FormPage = {p1}
  FormKind = {"ssh", "winrm", "http", "code", "sql"}
  VaultItem = {"item1"}
  Absent = Absent
  TypedMax = 2
  SavesMax = 2
  Agent = {"plain", "trusted"}
  ScopesOf <- Scopes
  ItemCall = {i1, i2}
  Patch <- Patches
  FieldsAtFirst <- ItemFields
  Missing = Missing
  Purged = Purged
  Engine = Engine
  ItemMax = 2
  RevMax = 2
SYMMETRY Symmetry
INVARIANTS  HttpSafe SqlSafe ShellSafe FormsSafe ItemsSafe
PROPERTIES ConnectorSteps ShownAgain OverwritesOnlyRaced
\* A call that ended does nothing more.
CHECK_DEADLOCK FALSE
