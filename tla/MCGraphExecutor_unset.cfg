\* A graph whose futures nobody has set before await_all, as in
\* examples/graph.cpp.
SPECIFICATION FairSpec
CONSTANTS
  MaxNodes = 3
  MaxArgs = 2
  MaxAwaits = 1
  Futures <- Unset
  MayThrow = {}
PROPERTY ResultsArrive
