\* Three starts over three releases; three keys for two entries; two requests at the
\* gates, two at the consent page from two browsers.  Two of the keys share the
\* symmetry of the requests, and one of the three is never dropped for room.
SPECIFICATION EndpointsSpec
CONSTANTS
  t1 = t1
  doc1 = doc1
  conf1 = conf1
  other = other
  Releases <- ReleaseLists
  Environment <- Environments
  WebRequest = {w1, w2}
  StartMax = 3
  LimitKey = {k1, v1, v2}
  BucketLimit = 2
  WindowLimit = 2
  WindowTicks = 2
  MaxKeys = 2
  ColdBatch = 1
  TickMax = 4
  Peer = {n1}
  Bearer = {t1}
  GrantedTo <- Granted
  EnabledHere = {"read", "reveal", "run"}
  Need <- Needs
  GateCall = {v1, v2}
  RelayListMax = 2
  SyncEvery = 2
  Syncs = 2
  GateClockMax = 3
  DocumentClient = {doc1}
  DynamicClient = {}
  ConfiguredClient = {conf1}
  ConfiguredUris <- OwnUris
  Metadata <- Documents
  Uri <- Uris
  AnyScope = {"read"}
  Browser = {b1, b2}
  Visit = {v1, v2}
  Nobody = Nobody
  SessionMax = 2
  PendingMax = 1
  FetchBudget = 1
  RestartMax = 0
SYMMETRY Symmetry
INVARIANTS  LimiterSound GatesSafe ConsentSafe
PROPERTY ClosedStays
\* A server that stopped, a request that ended and a clock at its bound do nothing more.
CHECK_DEADLOCK FALSE
