\* Three invocations on two sessions; one invocation may be refused or reset,
\* one connection may break, and the service throttles up to twice.
SPECIFICATION WaitingCaller
CONSTANTS
  MaxTasks = 3
  NumConns = 2
  MaxThrottles = 2
  MayFail <- LastTask
  MayBreak <- LastConn
INVARIANTS
  TypeOK
  Accounting
  AtMostOneExecution
  ThrottledNeverLost
  OnlyConnectedSessions
PROPERTIES
  KeepsPromise
  EveryTaskReturned
