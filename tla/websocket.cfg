\* Calls beside a stream that is stopped and started again; MCLimits are the bounds.
CONSTANTS
  MaxCalls = 2
  Streams = {q1}
  Nobody = Nobody
  Limits <- MCLimits
SPECIFICATION FairSpec
INVARIANTS EventsOnceInOrder SubscriptionsAgree
PROPERTIES ImplementsRpcCalls OnlyLostCallsHang
CHECK_DEADLOCK FALSE
