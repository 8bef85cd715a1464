\* Two slots and one build per target for a named ref: four builds of two targets fill
\* the slots, queue, are forgotten and are built again.  Two calls and two builds of
\* two commits under two documents, or one call over two turns of the world.  Three
\* requests, no more than two of them queries and one a delete, to a sidecar with one
\* slot and room for two snapshots, or three that put one key while a fourth deletes it;
\* one loaded entry is the budget, which a query over two snapshots exceeds.
SPECIFICATION CodePartsSpec
CONSTANTS
  ThirdRequest = r3
  LastRequest = r4
  Docs = {d1, d2}
  Sha = {s1, s2}
  CodeCall = {q1, q2}
  CodeBuild = {n1, n2}
  Nothing = Nothing
  TurnsMax = 2
  SKey = {k1, k2}
  Owned = {k1}
  Req = {q1, q2, r3, r4}
  None = None
  MaxSnapshots = 2
  MaxStorage = 3
  Concurrency = 1
  SearchBudget = 1
  Target = {d1, d2}
  Extraction = {x}
  Commit = {m1}
  Build = {n1, n2, b3, b4}
  NoBuild = NoBuild
  NoKey = NoKey
  Total = 2
  PerTarget = 1
SYMMETRY CodeSymmetry
INVARIANTS SlotsSound OneToJoin IndexSound SidecarSound
PROPERTY InUseKept
CHECK_DEADLOCK FALSE
