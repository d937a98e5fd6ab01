SPECIFICATION Spec
CONSTANTS
  c1 = c1  c2 = c2  c3 = c3  r1 = r1  r2 = r2  r3 = r3
  None = None
  Calls = {c1, c2, c3}
  Blocking = {c1}
  FromListener = {c3}
  Requests = {r1, r2, r3}
  RequestOf <- ThreeRequests
  Config <- ThreeConfigs
  Replies <- OkOrTimedOut
  MayShutdown = TRUE
  MaxStarts = 1
  EasyMayFail = FALSE
INVARIANTS WakeupOnLiveHandle
CHECK_DEADLOCK FALSE
