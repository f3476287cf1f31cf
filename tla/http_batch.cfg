\* Both kinds of server; a full batch, and batches sent by the interval.
CONSTANTS
  c1 = c1
  c2 = c2
  c3 = c3
  c4 = c4
  Calls = {c1, c2, c3}
  Nobody = Nobody
  Ids <- MCIds
  idOf <- MCIdOf
  BatchSizeLimit = 2
SPECIFICATION FairSpec
INVARIANTS QueueBelowLimit PlacedOnce NoneStranded AnswersMatch
PROPERTIES ImplementsRpcCalls EverySettles
CHECK_DEADLOCK FALSE
