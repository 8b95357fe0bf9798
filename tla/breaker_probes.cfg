\* Both probes of a HALF_OPEN period are cut off by their deadlines.
SPECIFICATION FairSpec
CONSTANTS
  c1 = c1  c2 = c2  c3 = c3
  Calls = {c1, c2, c3}
  FailureThreshold = 2
  FailureWindow = 2
  OpenSeconds = 2
  HalfOpenMaxCalls = 2
  Bypasses = FALSE
  MaxCancels = 2
PROPERTY HalfOpenIsLeft

