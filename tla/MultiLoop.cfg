CONSTANTS
  N = 3
  Limit = 1
  PairCapacity = 2
  ReadSize = 1
  Cancellable = {1}
SPECIFICATION FairSpec
INVARIANTS TypeOK SetsAgree NoStrandedPending MessagesValid NoSleepOverWork
PROPERTIES ImplementsStack EverySubmissionReported
CHECK_DEADLOCK FALSE
