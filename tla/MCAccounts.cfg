CONSTANTS
  c1 = c1
  c2 = c2
  h1 = h1
  h2 = h2
  n1 = n1
  n2 = n2
  p1 = p1
  p2 = p2
  w1 = w1
  w2 = w2
  Loop = Loop
  Nobody = Nobody
  None = None
  Absent = Absent
  Unconnected = Unconnected
  Names <- TwoNames
  Passwords <- TwoPasswords
  Conns <- TwoConns
  Workers <- TwoWorkers
  Handles <- TwoHandles
  Opened <- InOrder
  Stored <- OneRow
  UniqueKey = TRUE
  DbFails = TRUE
  LogsInfo = TRUE
  MaxAccepts = 3
  MaxRequests = 2
  MaxCrashes = 1
SPECIFICATION FairSpec
CHECK_DEADLOCK FALSE
INVARIANTS
  AcknowledgedIsStored
  OneAcknowledged
  HandlesApart
PROPERTIES
  SettledForGood
  RequestsEnd
