\* A perfect network and one disconnect().
CONSTANTS
  MaxRequests = 1
  MaxFaults = 0
  MaxDisconnects = 1
  CleanCloses = FALSE
SPECIFICATION Spec
PROPERTY NoConnectAfterDisconnect
CHECK_DEADLOCK FALSE
