SPECIFICATION JobsSpec
CONSTANTS
  Names = {a, b, c, x, y}
  Durations = {0, 1, 2}
  MaxNow = 7
SYMMETRY Symmetry
INVARIANTS
  ListIsAlive
  OldestFirst
  NoStarvation
  GrowthBounded
