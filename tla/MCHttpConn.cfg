CONSTANTS
  Requests <- SiteRequests
  Number <- SiteNumber
  Files <- SiteFiles
  Forms <- SiteForms
  FormPages <- SiteFormPages
  READ_BUFFER_SIZE = 13
  MaxClients = 2
  MaxRequests = 2
  HeaderSize = 2
  SPEC_SIZE = 5
  BYTE = 3
  JsonLength <- TextLengths
  HeaderCuts = 1
SPECIFICATION Spec
CHECK_DEADLOCK FALSE
INVARIANTS
  RightVerdict
  WholeRequestDecided
  ResponseInOrder
