SPECIFICATION InspectSpec
CONSTANTS
  MaxAttached = 3
  MaxPlain = 4
  Trees <- SmallTrees
INVARIANTS
  WalkVisitsLogicalTree
  WalkVisitsWhatIsDrawn
  DrawingTellsTree
CHECK_DEADLOCK FALSE
