\* Five invocations, three at a time, three throttled answers, one failure;
\* two sessions, one of which may not connect.
SPECIFICATION Spec
CONSTANTS
  n = 5
  p = 3
  num_sessions = 2
  MaxThrottles = 3
  MayBreak = {1}
  MayFail <- LastRequest
INVARIANT OnePlaceEach
PROPERTY EndsOrStalls
\* The client has shut down or stalls.
CHECK_DEADLOCK FALSE
