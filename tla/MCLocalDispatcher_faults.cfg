\* Four calls of a caller that keeps waiting, every failure the code meets: a
\* child that crashes (the first call), a fork or a thread that fails while that
\* child may be running (the second), an identifier without entry point (the last).
SPECIFICATION WaitingCaller
CONSTANTS
  MaxTasks = 4
  MaxSpurious = 1
  PipeCapacity = 2
  ResultSize <- FittingResults
  LargeInput <- FirstTask
  Known <- AllButLast
  MayCrash <- FirstTask
  MayFailToFork <- SecondTask
INVARIANTS
  TypeOK
  ExactlyOnce
  ReturnedIsReady
  NoLostWakeup
  NoUseAfterDestroy
  FailedNeverReported
PROPERTIES
  KeepsPromise
  DestroyReturns
  KeepsWholePromise
