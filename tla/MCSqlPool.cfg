CONSTANTS
  m1 = m1
  m2 = m2
  t1 = t1
  t2 = t2
  t3 = t3
  NULL = NULL
  Nothing = Nothing
  Nobody = Nobody
  Threads <- ThreeThreads
  Connections <- TwoConnections
  MaxHandles = 6
SPECIFICATION FairSpec
CHECK_DEADLOCK FALSE
PROPERTIES
  ImplementsPool
  WaitersServed
INVARIANTS
  PopFindsOne
  CountersAgree
