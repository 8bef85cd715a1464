\* Two codes of a client under consents that are withdrawn and given again,
\* families of up to three pairs, and time for every row to expire and be deleted.
CONSTANTS
  Client = {c1}
  Scope = {s1, s2}
  Consent = {n1, n2}
  Code = {k1, k2}
  Pair = {p1, p2, p3}
  NoRow = NoRow
  Never = Never
  CodeTTL = 1
  AccessTTL = 2
  RefreshTTL = 2
  Grace = 2
  MaxTime = 2
SPECIFICATION Spec
SYMMETRY Symmetry
INVARIANTS FamiliesSound ReplaySeen AccessSound
CHECK_DEADLOCK FALSE
