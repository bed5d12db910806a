\* Three invocations and a caller that keeps waiting; two of the invocations,
\* and the resolver, may fail in every way.
SPECIFICATION WaitingCaller
CONSTANTS
  MaxTasks = 3
  MayFail <- FirstAndLast
  ResolveMayFail = TRUE
INVARIANTS
  TypeOK
  RequestOutlivesCallback
  NeverStopsUnderCaller
PROPERTIES
  KeepsPromise
  EveryTaskReturned
  DestroyReturns
