SPECIFICATION FairSpec
CONSTANTS
  Runner = runner
  Stoppers = {s1, s2}
INVARIANTS
  FreedWhenDone
  ErrIsTheCause
PROPERTIES
  NoTickAfterStop
  TickerIsTicker
  TickerEnds
