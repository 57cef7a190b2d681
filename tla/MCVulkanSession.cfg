CONSTANTS
  Requests <- MCRequests
  NoRequest = NoRequest
  MaxViews = 2
  MaxBuilds = 4

SPECIFICATION FairSpec

INVARIANTS
  InFlightRetained
  HandlesExact
  OkMeansGpuOutput

PROPERTIES
  PipelineOutlivesUsers
  DispatchReturns
  ImplementsContract

CHECK_DEADLOCK FALSE
