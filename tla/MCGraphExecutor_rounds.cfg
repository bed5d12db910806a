\* All graphs of up to four nodes with up to two senders each, extended before
\* three calls of await_all; unset futures and dispatch_impl make it throw.
SPECIFICATION FairSpec
CONSTANTS
  MaxNodes = 4
  MaxArgs = 2
  MaxAwaits = 3
  Futures <- SeededOrUnset
  MayThrow = {1}
INVARIANTS
  TypeOK
  SendersFirst
  OnceEach
  ArgumentsAreResults
  WaitsForSomething
PROPERTIES
  AwaitsAll
  AwaitEnds
