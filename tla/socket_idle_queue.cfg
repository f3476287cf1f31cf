\* A perfect network.
CONSTANTS
  MaxRequests = 2
  MaxFaults = 0
  MaxDisconnects = 0
  CleanCloses = FALSE
SPECIFICATION FairSpec
PROPERTY QueuedIsWritten
CHECK_DEADLOCK FALSE
