\* Closing, and waiting behind a backend that may never return: one operation
\* of two commands, two CloseContext calls.
CONSTANTS
  Operations = {o1}
  Commands = {k1, k2}
  Closers = {c1, c2}
  Closing = Closing
  None = None
SPECIFICATION StuckSpec
INVARIANTS
  OkMeansClosed
PROPERTIES
  FailedCloseIsRetried
  EveryCallReturns
