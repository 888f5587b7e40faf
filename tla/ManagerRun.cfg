SPECIFICATION FairSpec
CONSTANTS
  Callers = {c1, c2}
  Stoppers = {s1}
  Tickers = {t1}
INVARIANTS
  IInv
  QuiescentWhenDone
  ErrorsCompleteWhenDone
  RefusalNamesCause
PROPERTIES
  ManagerIsTicker
  ErrorStopsManager
  StopReturns
  StopLeadsToDone
