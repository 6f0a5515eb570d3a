SPECIFICATION FairSpec
CONSTANTS
  a = a  c = c  d = d  w1 = w1  w2 = w2  w3 = w3
  None = None
  Paths = {a, c, d}
  Closure <- MCClosure
  Absent = {d}
  Workers = {w1, w2, w3}
  Concurrency = 2
  BatchCap = 2
  Signals = {"TERM", "HUP"}
  MaxLines = 3
\* The process ends.
CHECK_DEADLOCK FALSE
INVARIANTS JobsBounded NoJobAfterExit CleanExitComplete NothingForgotten
PROPERTIES EndOfInputStops SignalStops
