CONSTANTS
  BodyLength = 7
  InitialSize = 2
  MaxChunk = 5
  Counts = {0, 1, 3}
  MayFail = TRUE
SPECIFICATION FairSpec
INVARIANTS InOrder
PROPERTIES EofIsEnd ImplementsStream ReadReturns
CHECK_DEADLOCK FALSE
