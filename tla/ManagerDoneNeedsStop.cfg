SPECIFICATION FairSpec
CONSTANTS
  Callers = {c1, c2}
  Stoppers = {s1}
  Tickers = {t1}
PROPERTY DoneWhenAllFinished
