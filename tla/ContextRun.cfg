SPECIFICATION ContextSpec
CONSTANTS
  Executions = 3
  Contexts = {k1, k2, k3}
  NoContext = nil
INVARIANT OnlyCurrentLive
PROPERTIES
  AsyncIsContract
  CancelReachesFn
  ExecutionsEnd
