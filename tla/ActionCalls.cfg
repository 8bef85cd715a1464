CONSTANTS
  n1 = n1
  n2 = n2
  k1 = k1
  policy1 = policy1
  policy2 = policy2
  Ids = {t1, t2}
  Names = {n1, n2}
  Clients = {k1}
  Docs = {policy1, policy2}
  Forms = {f1}
  MaxRevision = 2
  NewTargets <- MCNewTargets
  Edits = {policy2}
  Calls = {c1, c2}
  Requests <- MCRequests
  Permits <- MCPermits
  Fields = 2
  MaxNames = 2
  TargetCap = 1
  ClientCap = 2
  NoRequest = NoRequest
SPECIFICATION MCSpec
SYMMETRY MCSymmetry
INVARIANTS CallsSound RevisionNames
\* Stops when every call was made and every target removed.
CHECK_DEADLOCK FALSE
