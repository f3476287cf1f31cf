\* Faults, clean closes and disconnect() at any time.
CONSTANTS
  MaxRequests = 3
  MaxFaults = 2
  MaxDisconnects = 1
  CleanCloses = TRUE
SPECIFICATION FairSpec
INVARIANTS RequestsConserved FreshRequestsInOrder OneLiveConnection
  DisconnectedHasTimer StatusMatchesSocket
PROPERTIES ImplementsOutbox EventuallyConnected PrequeuedIsWritten
CHECK_DEADLOCK FALSE
