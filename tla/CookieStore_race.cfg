SPECIFICATION Spec
CONSTANTS
  s1 = s1  s2 = s2
  Senders = {s1, s2}
  Urls <- PageUrls
  SetCookies <- ShortCookies
  MaxAdds = 3
  MaxTime = 2
INVARIANTS Remembered
CHECK_DEADLOCK FALSE
