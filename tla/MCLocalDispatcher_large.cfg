\* One of two results is larger than a pipe: its task is never returned.
SPECIFICATION WaitingCaller
CONSTANTS
  MaxTasks = 2
  MaxSpurious = 0
  PipeCapacity = 1
  ResultSize <- LargeResults
  LargeInput <- NoTask
  Known <- AllTasks
  MayCrash <- NoTask
  MayFailToFork <- NoTask
PROPERTY EveryTaskReturned
\* The caller and the child really wait for each other for ever.
CHECK_DEADLOCK FALSE
