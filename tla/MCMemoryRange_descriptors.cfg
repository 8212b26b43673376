SPECIFICATION Spec
CONSTANTS
  MemPages <- MCMemPages
  TopPage <- MCTopPage
  PageSize <- MCPageSize
  PagesPerHuge <- MCPagesPerHuge
  Requests <- MCRequests
  ExactModes = {TRUE, FALSE}
INVARIANT
  DescriptorsSafe
CHECK_DEADLOCK FALSE
