SPECIFICATION FairSpec
CONSTANTS
  s1 = s1  s2 = s2
  Senders = {s1, s2}
  Args <- MCArgs
  Finishing = {s1}
  PipeBufSize = 4
  AtomicSize = 4
  Capacity = 6
  MaxTokenSize = 7
  Modes = {TRUE, FALSE}
  Scans <- MCScans
  InputBytes = 4
  BufferSizes = {3, 5}
\* Everybody ends, or waits for a writer or a reader that never comes.
CHECK_DEADLOCK FALSE
INVARIANTS StreamWhole SuccessMeansSent ScannerReturnsLines
PROPERTIES SilentAfterReturn ImplementsLineChannel TimeoutReturns SentArrives
