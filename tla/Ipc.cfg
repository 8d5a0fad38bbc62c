CONSTANTS
  Procs = {p1, p2, p3}
  ShmProcs = {p2, p3}
  Mortal = {p3}
  MaxSets = 4
  Chars = {a, b}
  MaxSend = 2
  QueueBytes = 3
  ShmSize = 3
SPECIFICATION Spec
INVARIANTS TypesOK ReleasedByContinue ReceivedAsSent WholeRead
PROPERTIES ContinueReleases ContinueReturns
\* Every process may be waiting for a message or a continue.
CHECK_DEADLOCK FALSE
