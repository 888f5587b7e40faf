SPECIFICATION FairSpec
CONSTANTS
  Workers = {w1, w2}
  Nodes = {a, b, c}
  NoWorker = none
INVARIANT RunningBounded
PROPERTY TicksReturn
