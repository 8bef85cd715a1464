CONSTANTS
  Accounts = {A, B}
  NoAccount = NoAccount
  MaxGenerations = 3
  MaxChildren = 3
  MaxFailures = 2
  MaxFaults = 2
  RemovalMayFail = FALSE
SPECIFICATION FairSpec
INVARIANTS StartersSound SupervisorSafe
PROPERTIES SwitchSafe LifecycleSpec Progress
\* A backend whose stop() hangs behind a healthy child does nothing more.
CHECK_DEADLOCK FALSE
