\* Four children in turn and two callers; one call on two items; three builds over two
\* slots; one call to two targets; two requests to a sidecar with one slot and
\* no index on disk.  No symmetry.
SPECIFICATION EndsSpec
CONSTANTS
  n1 = n1
  n2 = n2
  k1 = k1
  policy1 = policy1
  policy2 = policy2
  MaxChildren = 4
  MaxTimers = 3
  MaxCallers = 2
  Agent = {"plain", "trusted"}
  ScopesOf <- Scopes
  ItemCall = {c1}
  Patch <- Patches
  FieldsAtFirst <- FirstFields
  Missing = Missing
  Purged = Purged
  Engine = Engine
  ItemMax = 2
  RevMax = 2
  Target = {x1, x2}
  Extraction = {x}
  Commit = {m1}
  Build = {b1, b2, b3}
  NoBuild = NoBuild
  NoKey = NoKey
  Total = 2
  PerTarget = 1
  Ids = {i1, i2}
  Names = {n1, n2}
  Clients = {k1}
  Docs = {policy1, policy2}
  Forms = {f1}
  MaxRevision = 2
  NewTargets <- FirstTargets
  Edits = {policy2}
  Calls = {c1}
  Requests <- SomeRequests
  Permits <- Permitted
  Fields = 1
  MaxNames = 2
  TargetCap = 1
  ClientCap = 2
  NoRequest = NoRequest
  SKey = {s1, s2}
  Owned = {s1}
  Req = {q1, q2}
  None = None
  MaxSnapshots = 2
  MaxStorage = 3
  Concurrency = 1
  SearchBudget = 2
PROPERTY WorkEnds
CHECK_DEADLOCK FALSE
