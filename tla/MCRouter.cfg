\* All sequences of three patterns of up to three segments over two names, and
\* every request of up to three segments, with a third name, on each of them.
SPECIFICATION Spec
CONSTANTS
  a = a
  b = b
  c = c
  Names = {a, b}
  OtherNames = {c}
  MaxSegments = 3
  MaxHandlers = 3
SYMMETRY Renamings
INVARIANT RoutesRight
\* Nothing follows the last registration.
CHECK_DEADLOCK FALSE
