SPECIFICATION Spec
CONSTANTS
  MemPages <- MCMemPages
  TopPage <- MCTopPage
  PageSize <- MCPageSize
  PagesPerHuge <- MCPagesPerHuge
  Requests <- MCRequests
  ExactModes = {TRUE, FALSE}
INVARIANTS
  TypeOK
  PagesAccounted
  SmallRequestsServed
CHECK_DEADLOCK FALSE
