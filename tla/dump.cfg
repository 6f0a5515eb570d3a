SPECIFICATION FairSpec
CONSTANTS
  Size = 5
  Capacity = 2
\* dump returns, or waits for a listing goroutine that has gone.
CHECK_DEADLOCK FALSE
INVARIANTS InfoIsFinal ListingWhole NothingLeft
PROPERTY DumpReturns
