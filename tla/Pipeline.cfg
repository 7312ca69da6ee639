CONSTANTS
  N = 3
  Statuses <- MCStatuses
  External <- MCExternal
  Modes <- MCModes
SPECIFICATION Spec
INVARIANTS TypeOK InternalCancelStaysInside NoErrorSwallowed LossIsReported NoCircularWait
PROPERTIES CancelledPipelineReturns
