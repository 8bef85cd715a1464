\* One call of each connector, one visit of a consent page over a restart amid it, one request at
\* the gates, two starts over two releases and two events read a row at a time.  No symmetry.
SPECIFICATION EndsSpec
CONSTANTS
  t1 = t1
  doc1 = doc1
  dyn1 = dyn1
  other = other
  HttpCall = {c1}
  NoToken = NoToken
  Document <- HttpDocuments
  HttpOperation <- HttpOperations
  EndpointHabit = {"echoes"}
  IssuedMax = 2
  RevisionMax = 2
  SqlDocument <- SqlDocuments
  SqlStatement <- SqlStatements
  ShellDocument <- ShellDocuments
  ShellCommand <- ShellCommands
  DocumentClient = {doc1}
  DynamicClient = {dyn1}
  ConfiguredClient = {}
  ConfiguredUris <- OwnUris
  Metadata <- Documents
  Uri <- Uris
  AnyScope = {"read"}
  Browser = {w1}
  Visit = {v1}
  Nobody = Nobody
  SessionMax = 1
  PendingMax = 1
  FetchBudget = 1
  RestartMax = 1
  Peer = {p1}
  Bearer = {t1}
  GrantedTo <- GrantedHere
  EnabledHere = {"read", "run"}
  Need <- Needs
  GateCall = {c1}
  RelayListMax = 2
  SyncEvery = 2
  Syncs = 2
  GateClockMax = 2
  Releases <- ReleaseLists
  Environment <- Environments
  WebRequest = {w1}
  StartMax = 2
  RowId = {1, 2}
  Instants = {1, 2}
  Retention = 0
  PageSize = 1
  Appends = 2
PROPERTY ServeEnds
CHECK_DEADLOCK FALSE
