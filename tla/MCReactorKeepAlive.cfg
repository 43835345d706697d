CONSTANTS
  c1 = c1
  c2 = c2
  c3 = c3
  w1 = w1
  w2 = w2
  NoClient = NoClient
  Clients <- OneClient
  Fds <- OneFd
  Workers <- TwoWorkers
  MAX_FD = 1
  MaxRequests = 2
  BufferSize = 2
  Segments = 1
  Requests = 2
  KeepAlive <- OneClient
  Slow <- NoClients
  Late <- NoClients
  Outcomes <- FileOnly
  Overrun = FALSE
  Terminate = FALSE
SPECIFICATION Spec
INVARIANT OneOwner
