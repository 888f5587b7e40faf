SPECIFICATION FairSpec
CONSTANTS
  Workers = {w1, w2}
  Nodes = {a, b}
  NoWorker = none
PROPERTY RealTickAllowed
