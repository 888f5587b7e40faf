SPECIFICATION AnySpec
CONSTANT MaxChildren = 4
INVARIANTS
  ErrorsKept
  NothingLeftBehind
PROPERTIES
  ForkIsContract
  CycleOverridden
  TickEnds
