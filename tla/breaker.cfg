\* Three calls around one breaker, one of them cut off: as many calls as the
\* threshold, more than the probe limit, and more probes than cuts.
SPECIFICATION FairSpec
CONSTANTS
  c1 = c1  c2 = c2  c3 = c3
  Calls = {c1, c2, c3}
  FailureThreshold = 3
  FailureWindow = 2
  OpenSeconds = 2
  HalfOpenMaxCalls = 2
  Bypasses = TRUE
  MaxCancels = 1
INVARIANTS TypeOK ClosedBelowThreshold
PROPERTIES TripsOnRecentFailures Recovers
