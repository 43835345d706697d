CONSTANTS
  a = a
  b = b
  c = c
  w1 = w1
  w2 = w2
  w3 = w3
  Empty = Empty
  Loop = Loop
  Nobody = Nobody
  Tasks <- TwoTasks
  Workers <- ThreeWorkers
  MaxRequests = 2
  MaxAppends = 5
  LoopEnds = TRUE
SPECIFICATION FairSpec
PROPERTIES
  ImplementsQueue
  TasksExecuted
INVARIANTS
  NoSleepOverWork
