# TLA+ specifications of cppless

cppless runs C++ lambdas as serverless functions. A program hands tasks to a
*dispatcher* and waits for their results; a dispatcher runs a task in a local
child process or as an AWS Lambda invocation. A *graph executor* runs whole
graphs of tasks through a dispatcher. The specifications here are written from
the code, one module per component, and state what a caller relies on.

Paths below are relative to the repository; `D/` is
`include/cppless/dispatcher/`.

## 1. The system

### Components and how they interact

    caller ── schedule/then/await_all ──> graph executor
       │                                      │
       └────── dispatch_impl, wait_one ───────┴──> dispatcher instance
                                                   ├ local:    fork + pipes + thread per task
                                                   ├ nghttp2:  HTTP/2 sessions, one io_service
                                                   └ beast:    HTTP/1.1 session per task, one io_context
                                                        │
                              child process (local) or Lambda worker (AWS)

| Component | State | Operations | Hard behaviour | What makes it correct |
|---|---|---|---|---|
| Local dispatcher (`D/local.hpp`, `D/common.hpp`) | `m_next_id`, `m_threads`, `m_finished` under `m_mutex`/`m_cv`, pipes, child processes, result targets | `dispatch_impl`, `execute`, callback, `wait_one`, destructor, the child's `main` | one thread and one process per task; finite pipes; a child, `fork`, `execve` or thread that fails | every id returned exactly once and only with its result; no lost wakeup; nothing touches a destroyed instance; a failed child is never reported |
| AWS dispatcher, HTTP/2 (`D/aws-lambda.hpp`, `provider/aws/lambda.hpp`, `client.hpp`) | `m_sessions`, `m_next_session`, `m_started`, `m_completed`, `m_finished`, requests | constructor, `dispatch_impl`, `wait_one`, result and error callbacks, destructor | answers in any order, several per `run_one`; throttling and retries; connections that fail; function errors that look like results; exceptions out of handlers | a throttled request is neither lost nor executed twice; accounting agrees with what arrived |
| AWS dispatcher, HTTP/1.1 (`D/aws-lambda.hpp`, `utils/beast/http_request_session.hpp`) | `m_next_id`, `m_requests`, `m_finished`, resolver, one session per request, the `io_context` | constructor, `dispatch_impl`, `wait_one`, the handlers of resolver and session, timers, destructor | requests queued behind the resolver; an `io_context` that stops when it is out of work; request objects destroyed by `wait_one` | a request outlives its callback; the `io_context` does not stop under a waiting caller; the destructor ends |
| Graph and executor (`graph/*.hpp`) | nodes, dependency counts, argument slots, futures, the stack `m_ready_nodes`, `running_nodes`, `m_future_node_map` | `schedule`, `then`, `await_all`, `propagate_value`, `notify`, `run` | readiness while values propagate; an exception out of `run`; repeated `await_all` | senders before receivers; arguments are results; each node once per `await_all`; `wait_one` never called in vain |
| Lambda function runtime (`D/aws-lambda.hpp` `main`) | `is_cold` | one invocation | exception before the flag is cleared | cold is reported for the first answer of a process only |
| Tasks, sendables, futures (`D/sendable.hpp`, `D/common.hpp`, `cppless.hpp`, `detail/`) | a future's optional | (de)serialization, `value`, `set_value` | uninitialized receivers | values survive the round trip |
| Fixed strings, compile-time encoding (`utils/fixed_string*.hpp`, `tools/packagerpy/encoding.py`) | none | `serialize`, `encode_base64`, the packager's `decode` | block boundaries, padding | decode undoes encode |
| AWS requests, signatures, S3 (`provider/aws/`, `utils/url.hpp`, `time.hpp`, `crypto/`) | keys | formatting, signing | none concurrent | canonical form |
| Tracing (`utils/tracing.hpp`, `examples/aws/dispatcher.cpp`) | vector of spans with parent indices | `create_child`, `insert`, `concat` | index shifting when containers of several processes, with clocks of their own, merge | the spans are a forest, parents stay parents, remote spans lie inside their call |
| TCP hole punching (`utils/tcpunch.hpp`, `examples/hole_punching.cpp`) | three sockets, acceptor, retry timer, `m_connection_established` | pairing, accept, connect, retry, the exchange over the socket | simultaneous open; cancelled timer whose handler still runs | both peers use the same connection and finish their exchange |
| Packager (`tools/packagerpy/packager.py`, `tools/packager`) | archives on disk, functions in the service | package, create/update function, one thread per entry point | threads share file names; a deployment fails half-way | code and configuration of one function belong together |
| Development server (`tools/cppless_server/main.cpp`) | file collection, router tree | upload, download, routing | several server threads, no lock; registration order of overlapping patterns; the moment the file is flushed | a download delivers the whole upload; a request reaches the handler its path and the registered patterns say |
| HTTP/2 load generator (`examples/http2_client.cpp`) | `started`, `completed`, `resend_queue` | `schedule_request`, `submit_req`, three callbacks | throttled requests that wait for another one's completion | every invocation is in one place; the client ends |
| Ray tracing benchmark (`benchmarks/custom/ray/`) | tile index, finished tiles, `progress`, `finished` | worker threads, tiles, dispatch of tiles | atomic index against a mutex-guarded count | tiles partition the image; `finished` only at the end |
| Other benchmarks (`benchmarks/`) | measurements, split depth | N-Queens, knapsack, floorplan, pi, SeBS | division of work at boundaries | the parts add up to the whole |
| Helpers, no-op executor, trace tools, build, examples, tests | none of interest | | | |

`PROJECT.json` lists each of these with the files it stands for, and under
`hazards` every place where this code can go wrong in a way that is hard to
test, with the property that watches it.

### Plan

Modules, in the order in which they were written:

1. `Dispatcher`: the abstract promise of a dispatcher.
2. `LocalDispatcher`: the only dispatcher with real concurrency; shown to
   implement `Dispatcher`, and proved to (`LocalDispatcherProofs`).
3. `Nghttp2Dispatcher` and `BeastDispatcher`: the two AWS dispatchers, shown to
   implement `Dispatcher`, and proved to (`Nghttp2DispatcherProofs`,
   `BeastDispatcherProofs`).
4. `GraphExecutor`: composed with the abstract `Dispatcher` (it takes its
   `Init`, `Issue`, `Complete`, `Return` and `Stop` as part of its own
   actions), so that what is shown of the executor holds with each of them;
   proofs in `GraphExecutorProofs`.
5. `TcpPunch`: two peers, the network and the exchange of numbers over the
   connection they find; proofs in `TcpPunchProofs`.
6. `Router` and `FileServer`: the two halves of the development server; proofs
   about the second in `FileServerProofs`.
7. `Tracing`: span containers of several processes, merged; proofs in
   `TracingProofs`.
8. `Encoding`: the compile-time encoder against the packager's decoder.
9. `Http2Client`: the load generator with its queue of throttled requests;
   proofs in `Http2ClientProofs`.

Left of the plan: stream buffers over pipes (`utils/fdstream.hpp`) and the ray
tracing benchmark's renderers as modules. Only `Encoding` declares RECURSIVE
operators, and nothing is proved about it.

## 2. The modules

### Dispatcher

The promise made by the comment above `wait_one` (`D/local.hpp:257-262`): ids
are issued once, complete, and are returned at most once and only when
complete. `Safe` is that much; `Spec` adds that everything issued completes and
is returned. It models no code of its own: it is the specification the others
are measured against.

### LocalDispatcher

Every actor is a small automaton. `pc` is the caller's thread inside
`dispatch_impl`/`execute`, `wait_one` or the destructor; `child[i]` is the
process of task `i`; `worker[i]` is its thread in `wait_for_result` and the
callback. `m_mutex` names its holder, so a step between lock and unlock belongs
to one thread. `wait_one` keeps the separate steps lock, check, sleep, wake, so
that a notification can fall between any two. The condition variable may wake
spuriously. A pipe is a counter `sent - got`, at most `PipeCapacity`; a child
blocks in `write` when it is full; the input of a `LargeInput` task can only be
written while the child reads. Failures: `fork` or `pipe` fails
(`MayFailToFork`: the exception leaves `dispatch_impl`, the lock is released,
the id stays taken), the thread fails to start behind a successful `fork` (the
same, but the child runs on and nobody waits for it), `execve` fails (identifier
not in `Known`), the child crashes (`MayCrash`). A failed child ends the host, because the exception leaves
a thread's function, or because of SIGPIPE in the caller.

Values are abstracted to their size; `Known` stands for the meta file read by
the constructor; the instance is not moved while in use.

### Nghttp2Dispatcher

One thread. `pc` says whether it is in the constructor, the caller's code,
`wait_one` (`waiting`), inside one `run_one` (`handling`, `handled`) or in the
destructor. `run_one` handles one read of one session, `active`, which may carry
any number of streams' events, so several handlers may run before `wait_one`
looks at `m_finished` again. `stage[i]` is the request of id `i`; `Submit` puts
it on session `m_next_session`. The environment connects or fails
(`MayBreak`), answers 200, 429 or anything else (500 stands for all of them),
and may reset a stream or drop a connection. A handler that writes through a
reference to the constructor's locals after the constructor has returned has
undefined behaviour: the model lets the process live or die. A request on a
session that is not connected dereferences a null request: the process dies.

A function that fails (`failed`, chosen by the service in `FunctionFails`) is
answered with status 200, so its error is taken for a result. What becomes of it
depends on the task's result type and on the archive, and the model has both
outcomes. With the default archive the decoder stops at the first character of
the error that is not base64, nobody looks at how much it decoded
(`D/common.hpp:302-317`), and the rest of the buffer is zero: `OnResult` books
the id, and the caller gets zeros as the result of a failed call. Or the buffer is
too short, or another archive refuses it: `deserialize` throws out of the
session's read handler and of `wait_one` (`OnFunctionError`). That handler starts
the next read at its end, so the session, though still open for submissions, is
never read again (`"unread"`): the answers of all its other streams stay
there until the session's timer ends it. So `Accounting` says whose target
holds its own result, namely of every booked id whose function has not
failed, and `EveryTaskReturned` exempts what is on such a session. `KeepsPromise`
says nothing about the value a completed id has.

### BeastDispatcher

One thread. Each request is an HTTP session that goes through `connect`,
`handshake`, `write`, `read`, `shutdown`, `closed`; `pending` is a session that
waits for the resolver. `stopped` is the state of the `io_context`: it stops
behind the handler that leaves it without work, and nothing restarts it. Any
operation of a `MayFail` id may fail or time out (the same code path: print and
return); the resolver may fail; an answer may be a result, another status, or
a function error, which is booked like a result (`OnRead`) or which
`deserialize` throws on (`OnReadThrows`). `targets` are here the ids whose target
the callback has written, whatever it wrote.

Two insights the model gives. Between two tasks only the pending TLS shutdown
of the last answer keeps the `io_context` alive: a context is only run inside
`wait_one`, which returns as soon as something is finished, before that shutdown
is handled. `NeverStopsUnderCaller` says that this is enough, and its mutant (no
shutdown) that it is needed. But an invocation that is *lost* (any failed
operation) while it is the only work empties the context for good: nothing
dispatched later is executed and `wait_one` turns in its loop for ever. That is
the exception `EveryTaskReturned` makes, which otherwise promises the return of
every invocation that does not fail itself.

### GraphExecutor

`Schedule` and `Then` build nodes; a node knows its `senders`, one per argument
slot. `Await` pushes the nodes without dependencies on `m_ready_nodes`;
`RunSource`, `RunTask` and `RunThrows` run the node on top; `WaitOne` takes one
id from the dispatcher and propagates the value of its node (`PropagateValue`:
all slots it fills, all counts, all that becomes ready, in the order of the
vectors). `Complete` is the dispatcher's: the result is stored in the node's
future through the reference the invocation holds. The ids a dispatcher
hands out are consecutive, hence `m_future_node_map` is a sequence.

`Futures` says what the future of a new node may hold: `"empty"` (nobody has
called `set_value`) or `"seed"` (somebody has). `task_node::run` needs a value,
see Findings. `MayThrow` are the nodes for which `dispatch_impl` may throw.

### TcpPunch

Each peer runs `tcpunch::client` and then `exchange_number` on an io_service of
its own. `phase[p]` is how far it is with the pairing; `accept`, `connect` and
`timer` are the asynchronous operations that run against each other. The network
moves a connect to the other peer's acceptor or refuses it (a NAT that has not
seen the other side yet); both peers bind and connect from the same port, so
between the two there is at most one connection, and `link[p]` says in which of
p's sockets it ends. The code ignores the error codes of the pairing; a peer that
misses it listens where nobody looks (`astray`). `Reset` breaks the connection
at any time.

### Router and FileServer

`Router` is the tree of `add_handler` and the walk of `operator()`. `Register` is
one `add_handler`; the property compares the walk with the set of all patterns
registered so far, in whatever order. What it documents: the walk does not
backtrack, so a name hides a wildcard next to it even if only the wildcard's
branch goes on; of two equal patterns the first one registered wins if it ends
in a name, the last one if it ends in a wildcard or collection; a path of
three or more segments one of whose first is unknown follows a null child
(`Crash`); the path `/` has no segment behind its root, so that `segments.back()`
is used on an empty vector (`Crash` again, in `add_handler` the end of the
server); and an empty path gets no answer at all (`Unanswered`).
`FileServer` is `main`'s two callbacks on several threads: an upload creates a
file, appends chunks, is flushed at its end and answered with its id; a download
looks the id up and reads the file. Two threads in the unguarded collection, one
of them changing it, are a data race: `raced` records it and whatever follows is
allowed. `eof_cb` ends the response before it flushes, but the response is not
written to the client before the callback has returned to the server's loop, so
the two are one step (`OnEof`) to every other client.

### Tracing

`do_task` of `examples/aws/dispatcher.cpp` on a tree of processes (`Callees`),
each with its own clock (`Skew`). The containers are sequences of spans as in
the code; `id` and `want` are history: which span this is, and the one it was
created below. `Insert` is `insert` with `concat`. What it documents: the times
of a span that was never started are shifted as well, so it carries the
difference of two clocks; the root of a container may end later than the call's
span, since the latter is ended before the time of receipt is taken.

### Encoding

`Serialize` and `EncodeBase64` are the constexpr functions, `B64Decode` and
`DecodeValue` the packager's side. Characters are signed in C++ (`Signed`).
The text's buffer is computed from a length that counts a terminating zero, so
if the input is a multiple of three the text ends in four zero characters;
Python's `b64decode` discards them.

### Http2Client

The load generator. Handlers run one at a time in `io_service.run()`. A
throttled request is queued and sent again when another one completes; the branch
that would send it at once needs `started <= completed`, which cannot be while a
request is in flight. So each throttled answer costs one of the `p` places, and
if the last requests in flight are throttled the client waits for ever
(`Stalled`). A submission on a session that is not connected uses a null request
and ends the process (`SubmitReq`). The first `p` invocations are scheduled
without a look at `n`; that `p <= n` is what the program's user has to see to, and
an assumption of the model.

## 3. What is checked

| Run | Instance | What it shows |
|---|---|---|
| `local_faults` | 4 tasks, pipe of 2 units, one spurious wakeup, one failing fork or thread, one crashing child with an input larger than the pipe, one unknown identifier; a caller that keeps waiting | `ExactlyOnce`, `ReturnedIsReady`, `NoLostWakeup`, `NoUseAfterDestroy`, `FailedNeverReported` in every interleaving; every behaviour is one of `Dispatcher` (`KeepsPromise`), with its liveness (`KeepsWholePromise`); the destructor returns (`DestroyReturns`) |
| `local_large` | 2 tasks, one result larger than a pipe | *violation* of `EveryTaskReturned` (finding 1) |
| `nghttp2_faults` | 3 tasks, 2 sessions, one of which may break, 2 throttles, one id that may be refused or reset or whose function may fail | `Accounting`, `AtMostOneExecution`, `ThrottledNeverLost`, `OnlyConnectedSessions`, `KeepsPromise`, `EveryTaskReturned` |
| `beast_faults` | 3 tasks, two of which may fail in any way, resolver may fail | `RequestOutlivesCallback`, `NeverStopsUnderCaller`, `KeepsPromise`, `EveryTaskReturned`, `DestroyReturns` |
| `graph_rounds` | every graph of up to 4 nodes with up to 2 senders each (one sender twice included), extended before each of three `await_all`, futures seeded or not, `dispatch_impl` may throw for one node | `SendersFirst`, `OnceEach`, `ArgumentsAreResults`, `WaitsForSomething`, `AwaitsAll`, `AwaitEnds` |
| `graph_unset` | graphs whose futures nobody has set | *violation* of `ResultsArrive` (finding 2) |
| `tcpunch` | two peers, two refused connects, one peer that may miss the pairing, one reset | `SameConnection`: the socket handed to the callback is the one the connection ends in; `BothReturnTheSum` |
| `router` | every sequence of 3 patterns of up to 3 segments (two names, the wildcard, a trailing slash), the root and the empty pattern among them | `RoutesRight` for every request of up to 3 segments, with a third name, the root and the empty path |
| `file_server` | 3 threads, 2 uploads of up to 2 chunks, any downloads | `DownloadsComplete` |
| `encoding` | about 1250 values: numbers at the edges of their bytes, strings of all lengths modulo 3, nested arrays and maps | `RoundTrip` |
| `tracing` | `do_task(3)`: 5 processes on three levels, clocks apart in both directions | `Forest`, `ParentsAreRight`, `RemoteInsideCall` |
| `http2_client` | 5 invocations, 3 at a time, 2 sessions of which one may break, 3 throttled answers, one that may fail | `OnePlaceEach`, `EndsOrStalls` |

The modules whose types say more than the other invariants also have a type
invariant. For every property
of a passing run `PROJECT.json` names a mutant: a definition of the model
changed as a plausible bug would change the code (the definitions marked
"Faulty variant"), under which TLC finds the property violated.

### Bounds, and why they are enough

- *Tasks* (3 or 4). Tasks interact in pairs: over the mutex, the stack of
  finished ids, a session, a shared `io_context`. Three give one that finishes
  before, one while and one after a given call; the fourth in `local_faults`
  has room for one failure of each kind beside one healthy task.
- *Calls of `wait_one`* are bounded by the number of invocations started, which
  is how the callers in the repository use it. A further call waits for ever.
- *Spurious wakeups* (1): each brings the caller back to the check it made
  before.
- *Pipe capacity* 2, results of 0, 1 and 2 units: an empty result, a result that
  leaves room, and a result that fills the pipe.
- *Sessions* (2): the smallest number for which the round-robin wraps and one
  can be lost while another is up; the code uses 16.
- *Throttles* (2): two in a row for one id, or one each for two.
- *Graph*: 4 nodes hold the diamond, the chain, the node with one sender in both
  slots, and a node added between two `await_all`. Three calls of `await_all`,
  because the counts are not reset: see the next section.
- *Peers* (2) is what hole punching is for; two refusals let both first tries
  fail, or one peer's twice.
- *Threads* of the server (3): two that race and one that is in the middle of
  something else; the code uses four and they are interchangeable.
- *Patterns* (3, of 3 segments, over two names): two patterns that overlap on
  two levels and a third that comes between them, before or after; with the second
  name a node has two named children and a wildcard. The two names are
  interchangeable (`SYMMETRY`): the code only compares names for equality.
- *Spans*: a call below a call is the least for which a container is shifted
  twice; two calls of one process are the least for which an earlier insertion
  moves a later one.

Deadlock is checked except where the system may really stop: in `local_large`
(the deadlock is the subject) and in `router`, `file_server`, `encoding`,
`tracing` and `http2_client`, whose programs end. States in which the program is over (destroyed, dead, or waiting for
something the model says is lost for good) stutter by an explicit action, so
that every other state without a successor is reported.

### Repeated await_all

The dependency counts of nodes are not reset when `await_all` ends, so they are
0 or less when the next one begins. In the second call every node of the first
is pushed at once, and runs with the arguments of the first call; counts become
negative. In the third, the nodes with senders are skipped because their count
is not 0. The properties say what a caller may rely on, until a call has ended
with an exception: order (`SendersFirst`) in the first call; `AwaitsAll` in the
first two; results as arguments (`ArgumentsAreResults`) in the first three; that
no node runs twice (`OnceEach`) in all of them.

The fourth call is different. Let a source `s` and a task `t` behind it be
there from the first call on, and let a node with the senders `s` and `t` be
added before the third. In the third call `s` runs, but `t` is skipped, so the
new node's count only goes from 2 to 1. In the fourth `s` runs again, takes
the count to 0, and the new node runs with an argument that no sender has filled:
`value()` throws on the empty optional. That was found by looking for an
inductive invariant: `CountsKept` says that the count with which a node enters a
call is one, zero or minus one times the number of its senders, and from the
fourth call on it is not. No code in the repository calls `await_all` as often.

### Fairness

- Every thread and process that can run does (weak fairness per worker, per
  child, for the caller inside a library call). A mutex that is released again
  and again is held for a few instructions only; weak fairness of the caller's
  lock step is what the scheduler gives as soon as no one holds it for good,
  and the workers, each of which takes it once, cannot starve it.
- Nothing is assumed of failures, spurious wakeups, of the caller starting or
  destroying anything. `WaitingCaller` adds that the caller calls `wait_one` as
  often as it has dispatched; the runs of the dispatchers use it.
- The AWS service answers what it has received, and an operation of the
  HTTP/1.1 session ends with its result or by its 30 s timer
  (`http_request_session.hpp`). The service is assumed to throttle finitely
  often: with the retry at once and without limit, nothing else would end.
- In `TcpPunch` each peer's thread runs what has completed, a connect is
  answered and timers expire. That a peer which has been accepted is told so is
  a separate assumption, as both handlers may be ready again and again.
- In `Http2Client` connections are made or fail, connected sessions answer, and
  streams are closed.
- In `GraphExecutor` the executor's thread runs and the dispatcher completes
  what it was given, which is the liveness half of `Dispatcher`.

## 4. What is proved

Every inductive invariant is the conjunction `IInv` of the module it is about
(those of `Tracing` and `FileServer` are in their proof modules, as is
`TimesInv`, a second one for `Tracing`); TLC found each one to hold on the
instance of that module's run before it was proved. A property that is not part of `IInv` follows from it. All proofs are for
every value of the constants that satisfies the module's named assumptions,
which only say that bounds are natural numbers (and not zero where the code
needs one) and that sets of failing parts are sets of parts; TLC evaluates them
for the instances.

### LocalDispatcherProofs

For every number of tasks, every pipe capacity, all result sizes and every choice
of failing tasks:

| Theorem | Statement |
|---|---|
| `TypeCorrect` | `Spec => []TypeOK`, which includes that no pipe exceeds its capacity |
| `Invariance` | `Spec => []IInv`, the inductive invariant |
| `ReturnedExactlyOnce` | `Spec => []ExactlyOnce` |
| `ResultsAreReady` | `Spec => []ReturnedIsReady` |
| `WakeupsAreKept` | `Spec => []NoLostWakeup` |
| `DestroyIsSafe` | `Spec => []NoUseAfterDestroy` |
| `FailuresStayUnreported` | `Spec => []FailedNeverReported` |
| `ImplementsDispatcher` | `Spec => KeepsPromise`, the refinement of `Dispatcher` |

The assumptions are those of the module: the bounds are natural numbers, at
least one task and one unit of pipe (`BoundsAssumption`), result sizes are
naturals and the fault sets are sets of ids (`TasksAssumption`). TLC evaluates
both for the instances.

The argument. `ExactlyOnce` and `NoLostWakeup` are not inductive by themselves:
whether a step disturbs them depends on who holds the lock and how far each
thread is. `IInv` adds

- `LockHolder`: `m_mutex` names exactly the thread that is between lock and
  unlock. Two callbacks, or a callback and the caller's check, never overlap,
  so the check of `m_finished` and the going to sleep cannot be separated by a
  `push_back` whose notification is already past (`NoLostWakeup`).
- `StagesInOrder`: a worker is past `waitpid` only when its child has exited
  having written everything, past reading only when it has read everything, and
  past `cb_set` only when the target is set. `ReturnedIsReady` and
  `FailedNeverReported` follow from it together with `ExactlyOnce`.
- `CallerInOrder`: ids not yet handed out have neither child nor worker, and
  every worker is in `m_threads` unless `dispatch_impl` is just about to put it
  there. So a new task cannot be confused with an old one (`ExactlyOnce`), and
  the destructor joins every worker (`NoUseAfterDestroy`).

Each part has one lemma (`LockStep`, `StagesStep`, ...) with a step per action.
`StepRefines` maps every step to a step of `Dispatcher` or to a stutter:
`StartThread`, behind which nothing keeps `dispatch_impl` from returning the id,
is `Issue`, `CallbackPush` is `Complete`, `TakeFinished` is `Return`, the end of
the destructor or of the process is `Stop`. `PushElements` and `PopElements` say
what `push_back`, `back` and `pop_back` do to the set of finished ids.

### Nghttp2DispatcherProofs

For every number of invocations, sessions and throttled answers, and whatever
fails:

| Theorem | Statement |
|---|---|
| `Invariance`, `TypeCorrect` | `Spec => []IInv`, `Spec => []TypeOK` |
| `AccountsAreRight` | `Spec => []Accounting` |
| `NeverExecutedTwice` | `Spec => []AtMostOneExecution` |
| `ThrottlingLosesNothing` | `Spec => []ThrottledNeverLost` |
| `SubmitsOnConnected` | `Spec => []OnlyConnectedSessions` |
| `ImplementsDispatcher` | `Spec => KeepsPromise` |

That a retry runs nothing twice needs `AnswersAgree`: a request that is answered
429 has not run, and one that has not been answered has not either. `Accounting`
needs it too (what is booked has run exactly once, and a function fails only if
it runs, and before its request is booked), and `FreshIds`, without which a new
invocation could take the place of a returned one. `SessionsCounted` is what the
constructor knows: as long as `error` is not set, `connected` counts the sessions
that are up, so it leaves its loop when all are (`OneMoreUp`, `ConnsAreFinite`).
Types come last: `m_completed` stays in its range only because of what it counts.
In the refinement `Dispatch` is `Issue`, `OnResult` is `Complete` (several may
come in one read), `WaitReturn` is `Return`.

### BeastDispatcherProofs

For every number of invocations, every set of failing ones, with a resolver that
may fail or not:

| Theorem | Statement |
|---|---|
| `Invariance`, `TypeCorrect` | `Spec => []IInv`, `Spec => []TypeOK` |
| `RequestsOutliveCallbacks` | `Spec => []RequestOutlivesCallback` |
| `StopsOnlyForLoss` | `Spec => []NeverStopsUnderCaller` |
| `ImplementsDispatcher` | `Spec => KeepsPromise` |

`NeverStopsUnderCaller` is the one that needs an argument (`WaitsForOne`). The
caller has called `wait_one` once more than it has been handed ids
(`CallsCounted`), and no more often than it has dispatched (`TypeOK`); so when
nothing is in `m_finished` some id has been issued and not booked
(`ResultsBooked`, `IdsInOrder`). Its session is either closed without a result,
that is, lost, or still has an operation under way, and then the `io_context` has
work, unless the session waits for the resolver (`NonePending`).
`StoppedForAReason` carries that over to the calls that come after a stop.

### GraphExecutorProofs

For graphs of every size, any number of senders and of calls of `await_all`:

| Theorem | Statement |
|---|---|
| `Invariance`, `TypeCorrect` | `Spec => []IInv`, `Spec => []TypeOK` |
| `RunsBehindSenders` | `Spec => []SendersFirst` |
| `EachNodeOnce` | `Spec => []OnceEach` |
| `RunsOnResults` | `Spec => []ArgumentsAreResults` |
| `WaitsOnlyForInvocations` | `Spec => []WaitsForSomething` |
| `AwaitsEverything` | `Spec => AwaitsAll` |

The heart is `CountsKept`. While `await_all` runs, a node's dependency count and
the number of its slots whose senders have finished add up to the count with which
it entered the call (`OneMoreFinished`, `FinishKeepsCounts`), and what has
finished has filled its slots. A node that is ready waits for nobody (`OnceEach`),
so its senders have all finished or its slots were full before (`ReadyFacts`); that
gives order and arguments. `await_all` ends with nothing ready and nothing running;
if a node had not run then, there would be a first one (`LeastMember`), all its
senders, which come before it (`GraphIsBuilt`), would have finished, its count
would be 0 or less, and `NoneForgotten` says that it would have been pushed
(`AllHaveRun`). That is `AwaitsAll`, and it is also what makes the counts at the
beginning of the next call those that `CountsKept` says. `InvocationsOfNodes` and
`NodesOfInvocations` tie the running nodes to the outstanding ids one to one; the
second alone holds even after an exception, and gives `WaitsForSomething`.

### TcpPunchProofs

For any number of refused connects, any peer that may miss the pairing, with or
without a reset:

| Theorem | Statement |
|---|---|
| `Invariance`, `TypeCorrect` | `Spec => []IInv`, `Spec => []TypeOK` |
| `ReportsTheConnection` | `Spec => []SameConnection` |

`SameConnection` needs that a completed accept or connect carries the socket in
which the connection ends (`SocketsAreEnds`), that a connection always has both
ends (`TwoEnds`), so that a peer that has one does not get a second, and that
`m_connection_established` is set exactly by the report (`FlagIsSet`). The types of
the numbers need that `handle_update` has at most two calls left or made
(`UpdatesLeft`, `NumbersKnown`).

### Http2ClientProofs

For every number of invocations `n` and every `p` in `1 .. n`:

| Theorem | Statement |
|---|---|
| `Invariance` | `Spec => []IInv` |
| `EveryInvocationInOnePlace` | `Spec => []OnePlaceEach` |

`OnePlaceEach` is nearly inductive; `ScheduledFirst` adds that `main` starts less
than `p` invocations before handlers run. `OnResultInvariant` is the case with
work in it: a completion frees a place and either the front of `resend_queue` or a
new invocation takes it.

### FileServerProofs

For any number of threads, uploads and chunks, and any clients:

| Theorem | Statement |
|---|---|
| `FileServerInvariance` | `Spec => []IInv` |
| `DownloadsAreComplete` | `Spec => []DownloadsComplete` |

A download may find a file that is not in the map, or of which a part is not
flushed, or to which a thread still writes. None of these happens once the id is
known: an upload has a file that no other thread uploads to and that no client
knows of (`UploadsAreOwn`), so `OnData` never writes to an answered file; the file
is in the map before the first chunk and, without a race, stays there
(`UploadsAreMapped`); and the flush comes before the answer leaves
(`AnsweredAreFlushed`). The exception `DownloadsComplete` makes is no wider than
it says: `RacesAreSeen` shows that while `raced` is not set, a thread in
`create_file` is the only one in the collection.

### TracingProofs

For every tree of calls, any clocks and every order of the processes' steps:

| Theorem | Statement |
|---|---|
| `Invariance` | `Spec => []IInv` |
| `SpansAreForests` | `Spec => []Forest`: every parent is a span of the same container and comes before its children |
| `ParentsAreKept` | `Spec => []ParentsAreRight`: it is the span under which the child was created, in whatever container both have ended up |
| `TimesInvariance` | `Spec => []TimesInv` |
| `RemoteSpansAreInside` | `Spec => []RemoteInsideCall`: what came with a result lies inside the span of the call, on the caller's clock |

It assumes that `Skew` is a function to the integers (`ProcAssumption`) and that
every dispatch makes a process of its own (`CalleesAssumption`). `Forest` needs
what keeps the indices in bounds that steps take from other variables: the span
of a call that was dispatched exists (`CallsExist`, `DispatchedAreCalls`), a
process that has started has its root (`RootsExist`), and a container is inserted
only when its process is done (`ReceivedAreDone`). The lemmas `RootWellFormed`
to `InsertWellFormed` say what each operation of the container does to a
well-formed one; `InsertWellFormed` is where the root's shifted index matters.

`RemoteInsideCall` is about calls of any depth. `Below[q]` is the least set that
has `q` and everything its members call (`BelowLeast`); the step that counts is
`Insert`, which brings a callee's whole container, with what that had received from
below, into the caller's, shifted by the difference of the two clocks. The shift
keeps the order of times because every clock shows the one time `now` at a
constant distance; so it is enough that on one clock a call starts before all that
its callee records (`AfterTheCall`), that a callee that is done has ended all its
spans by the time it sends them (`BeforeEnd`), and that sending comes before
receiving (`SentBeforeReceived`). `EndsArePast` says which spans may still be
open, so that the root and the calls without a result are the only ones without an
end. `Origins` says where a span can have come from; that an inserted span is not
taken for one of another call needs that the sets below two calls of one process
share nothing (`BelowDisjoint`) and that no process is below its own callee
(`NoCircle`). The latter is not assumed: a cycle of calls is possible in `Callees`,
but no process of it can be reached from `main` (`Reached`).

### Only model-checked

- All liveness properties (`KeepsWholePromise`, `EveryTaskReturned`,
  `DestroyReturns`, `AwaitEnds`, `BothReturnTheSum`, `EndsOrStalls`): they need
  fairness and `ENABLED`, which the provers do not handle.
- `RoundTrip` of `Encoding` is about recursive operators, and for every input it
  would need induction over the data.
- `RoutesRight` compares a walk of the tree, a fold over the segments of the path,
  with all patterns registered so far; for paths of any length this again is
  induction over the path.

Every other property of the passing runs is stated by a theorem.

## 5. Findings

1. **A result larger than a pipe is never returned** (`D/common.hpp:219`). The
   worker calls `waitpid` before it reads the result. A child whose serialized
   result exceeds the capacity of the pipe blocks in `write`, the worker in
   `waitpid`; the id never reaches `m_finished`, though `D/local.hpp:259-260`
   says each invocation "is returned exactly once by the `wait_one()` method",
   and the destructor never returns either. Run `local_large`.
2. **`await_all` needs futures that already have a value**
   (`graph/host_controller_executor.hpp:197`). `run` passes
   `future().value()` as the target of the result; on a future nobody has set
   this throws `std::bad_optional_access` out of `await_all`. `D/common.hpp:46`
   calls a future "a value which will be set in the future", and
   `examples/graph.cpp:33-36` awaits such futures. Run `graph_unset`.

## 6. Not modelled

Components with status `not_modelled` in `PROJECT.json`: type-level code and
archives (values appear as sizes or members of small sets); request formatting
and signatures (pure functions over bytes and a cryptographic library); the Lambda
function runtime (a straight line; its processes are the environment of the AWS
dispatchers); stream adapters and template helpers; the no-op executor, which
only declares types; the packager (a script around docker, zip and boto3) but
for its decoder; offline trace scripts; CMake files; the benchmarks, whose
computations call `dispatch` and `wait_one` in a loop; and the examples that do
the same or, like `beast_example.cpp` and `merge_sort.cpp`, use interfaces the
library no longer has.

Within the modelled components: output (`write_graphviz`, `to_json`) and the
spans of dispatchers and graphs are left out; the moves of dispatcher instances are not modelled (instances are
created in place and a beast instance cannot be moved); memory corruption is
represented by the death of the process or by no effect at all; a caller that
catches the exception of a failed `execve` inside the forked copy of itself is
not represented.

## 7. Running

    tlc -config MCLocalDispatcher_faults.cfg MCLocalDispatcher
    tlapm LocalDispatcherProofs.tla      # the other *Proofs.tla likewise

`PROJECT.json` names module and configuration of every run. The longest takes
less than a minute.
