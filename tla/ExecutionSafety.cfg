SPECIFICATION Spec
CONSTANTS
  MaxChildren = 4
  Wraps = {"plain", "memorize", "sync", "any", "not"}
  MaxShuffled = 3
INVARIANTS
  OutcomeOfTick
  OutcomeOfExecution
  SyncReleases
  AnySucceeds
PROPERTIES
  NoTickAfterFinal
  ResumesRunning
