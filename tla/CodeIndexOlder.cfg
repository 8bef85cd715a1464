SPECIFICATION CodeSpec
CONSTANTS
  Docs = {d1, d2}
  Sha = {s1, s2}
  CodeCall = {q1}
  CodeBuild = {n1, n2}
  Nothing = Nothing
  TurnsMax = 2
PROPERTIES NeverOlder
CHECK_DEADLOCK FALSE
