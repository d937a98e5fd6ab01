SPECIFICATION Spec
CONSTANTS
  s1 = s1  s2 = s2
  Senders = {s1, s2}
  Urls <- PathUrls
  SetCookies <- PathCookies
  MaxAdds = 3
  MaxTime = 2
SYMMETRY SenderSymmetry
INVARIANTS TypeOK SentInScope ListsConsistent
CHECK_DEADLOCK FALSE
