SPECIFICATION Spec
CONSTANTS
  MaxChildren = 2
  Wraps = {"any"}
  MaxShuffled = 0
INVARIANT AnyOnlyIfSucceeded
