CONSTANTS
  Producers = {p1, p2}
  Consumers = {c1, c2, c3}
  MaxSize = 2
  MaxCalls = 2
SPECIFICATION FairSpec
INVARIANTS TypeOK Conservation NoLostWakeup NoWaiterAfterShutdown
PROPERTIES ImplementsBoundedQueue ShutdownReleases PushReturns Delivered
