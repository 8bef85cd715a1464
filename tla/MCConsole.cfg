\* Two forms with two tokens that are drawn and one that is preset; four requests, two at a time; four children in turn;
\* two accounts over three generations; three events read a row at a time.
SPECIFICATION ConsoleSpec
CONSTANTS
  Token = {t1, t2, t3}
  Random = {t1, t2}
  NoToken = NoToken
  Preset = {t3}
  Email = {e1, e2}
  SetupForm = {f1, f2}
  NoSetupRow = NoSetupRow
  NoText = NoText
  SetupOver = SetupOver
  TTL = 2
  SetupTimeMax = 3
  Request = {r1, r2, r3, r4}
  Session = {s1, s2}
  Password = {p1, p2}
  Secret = {k1, k2}
  RecoveryCode = {c1, c2}
  NoLoginRow = NoLoginRow
  NoCode = NoCode
  IdleTTL = 1
  AbsoluteTTL = 2
  ThrottleWindow = 1
  StateTTL = 2
  MaxTime = 2
  MaxOpen = 2
  MaxChildren = 4
  MaxTimers = 3
  MaxCallers = 3
  Accounts = {A, B}
  NoAccount = NoAccount
  MaxGenerations = 3
  DiesSwitching = FALSE
  RowId = {1, 2, 3}
  Instants = {1, 2}
  Retention = 0
  PageSize = 1
  Appends = 3
SYMMETRY Symmetry
INVARIANTS SetupSound   TrailReadWhole
PROPERTY SignedOutStays
\* Requests, tokens and children run out.
CHECK_DEADLOCK FALSE
