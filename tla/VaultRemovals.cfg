\* The backend of VaultSupervisor.cfg when the removal of an app-data directory may
\* fail part way through a switch.
CONSTANTS
  Accounts = {A, B}
  NoAccount = NoAccount
  MaxGenerations = 3
  MaxChildren = 3
  MaxFailures = 2
  MaxFaults = 2
  RemovalMayFail = TRUE
SPECIFICATION Spec
INVARIANT ChildInUse
\* A backend that stopped does nothing more.
CHECK_DEADLOCK FALSE
