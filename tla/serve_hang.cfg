SPECIFICATION FairSpec
CONSTANTS
  r1 = r1  r2 = r2  r3 = r3  t1 = t1  t2 = t2
  None = None
  Tasks = {t1, t2}
  Requests = {r1, r2}
  PoolSize = 4
\* The server ends, or hangs on a lost connection.
CHECK_DEADLOCK FALSE
PROPERTY SignalStops
