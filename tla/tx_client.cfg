\* Three calls for one account, two faults.
CONSTANTS
  Jobs = {j1, j2, j3}
  Accounts = {a1}
  NoAccount = NoAccount
  MaxFaults = 2
SPECIFICATION FairSpec
INVARIANTS AloneIsAccepted
PROPERTIES ImplementsTxReports EveryCallSettles
CHECK_DEADLOCK FALSE
