SPECIFICATION Spec
CONSTANTS
  s1 = s1  s2 = s2
  Senders = {s1}
  Urls <- HostUrls
  SetCookies <- SimpleCookies
  MaxAdds = 3
  MaxTime = 2
INVARIANTS Remembered CookiesSent
CHECK_DEADLOCK FALSE
