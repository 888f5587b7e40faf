SPECIFICATION FairSpec
CONSTANTS
  Procs = {p1, p2}
  Keys = {k1, k2}
  MaxProviders = 2
  Channels = {ch1, ch2, ch3}
  None = none
INVARIANT QueryAnswer
PROPERTIES
  NestedQueryBlocks
  QueryReturns
CHECK_DEADLOCK FALSE
