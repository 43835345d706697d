CONSTANTS
  c1 = c1
  c2 = c2
  c3 = c3
  w1 = w1
  w2 = w2
  NoClient = NoClient
  Clients <- TwoClients
  Fds <- TwoFds
  Workers <- TwoWorkers
  MAX_FD = 1
  MaxRequests = 2
  BufferSize = 3
  Segments = 2
  Requests = 1
  KeepAlive <- NoClients
  Slow <- NoClients
  Late <- SecondClient
  Outcomes <- FileOnly
  Overrun = FALSE
  Terminate = FALSE
SPECIFICATION FairSpec
INVARIANTS
  OneOwner
  OwnAnswers
  BacklogWatched
PROPERTIES
  ImplementsService
  RequestAnswered
