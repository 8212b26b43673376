SPECIFICATION Spec
CONSTANTS
  MemPages <- MCMemPages
  TopPage <- MCTopPage
  PageSize <- MCPageSize
  PagesPerHuge <- MCPagesPerHuge
  Requests <- MCRequests
  ExactModes = {TRUE}
INVARIANTS
  Coalesced
  DescriptorsSafe
PROPERTY
  ImplementsPageAllocator
