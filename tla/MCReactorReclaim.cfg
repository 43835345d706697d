CONSTANTS
  c1 = c1
  c2 = c2
  c3 = c3
  w1 = w1
  w2 = w2
  NoClient = NoClient
  Clients <- TwoClients
  Fds <- OneFd
  Workers <- OneWorker
  MAX_FD = 1
  MaxRequests = 1
  BufferSize = 2
  Segments = 1
  Requests = 1
  KeepAlive <- OneClient
  Slow <- OneClient
  Late <- NoClients
  Outcomes <- AllVerdicts
  Overrun = TRUE
  Terminate = TRUE
SPECIFICATION FairSpec
INVARIANTS
  UserCount
  TimerOwnsSocket
  BatchIsFresh
  TickChain
PROPERTY Reclaimed
