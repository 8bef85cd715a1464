CONSTANTS
  Ids = {t1, t2}
  Names = {n1, n2}
  Clients = {k1, k2}
  Docs = {d1, d2}
  NewTargets <- MCNewTargets
  Edits = {d1, d2}
  Forms = {f1, f2}
  MaxRevision = 3
SPECIFICATION TargetsSpec
SYMMETRY MCSymmetry
INVARIANT NameUnique
PROPERTIES SwitchStays CeilingKept
\* Stops when every identifier was used and removed.
CHECK_DEADLOCK FALSE
