SPECIFICATION Spec
CONSTANTS
  Proc <- Processes
  Host = 0
  Callees <- CallTree
  Skew <- Skews
INVARIANTS
  Forest
  ParentsAreRight
  RemoteInsideCall
\* main has printed the spans.
CHECK_DEADLOCK FALSE
