SPECIFICATION Spec
CONSTANTS
  e1 = e1  e2 = e2  e3 = e3  e4 = e4  e5 = e5  e6 = e6
  Envelopes = {e1, e2, e3, e4, e5, e6}
  Times <- SmallTimes
  Half = 4
SYMMETRY EnvelopeSymmetry
INVARIANTS TypeOK HeapOrder PeekIsEarliest NothingLost
CHECK_DEADLOCK TRUE
