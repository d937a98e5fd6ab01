CONSTANTS
  c1 = c1
  c2 = c2
  w1 = w1
  w2 = w2
  p1 = p1
  Calls = {c1, c2}
  Workers = {w1, w2, p1}
  Pollers = {p1}
  Closer = Closer
  None = None
SPECIFICATION FairSpec
INVARIANTS NoSleepOverWork OneOwner
PROPERTIES ImplementsHandoff AcceptedReturns WorkersLeave
CHECK_DEADLOCK FALSE
