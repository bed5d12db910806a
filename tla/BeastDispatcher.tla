--------------------------- MODULE BeastDispatcher ---------------------------
(***************************************************************************)
(* The HTTP/1.1 dispatcher of AWS Lambda: class                            *)
(* aws_lambda_beast_dispatcher_instance (dispatcher/aws-lambda.hpp), its   *)
(* request (provider/aws/client.hpp, lambda.hpp), and the resolver and     *)
(* HTTP sessions it uses (utils/beast/http_request_session.hpp).           *)
(*                                                                         *)
(* One thread runs everything.  A handler runs only in run_one() of        *)
(* wait_one, or in run() of the destructor.  An io_context that runs out   *)
(* of work stops, and runs nothing any more even if work is added to it:   *)
(* nobody here calls restart().  A stage of a request names the operation  *)
(* it is waiting for.                                                      *)
(***************************************************************************)
EXTENDS Integers, FiniteSets

CONSTANTS
  MaxTasks,        \* bound: calls of dispatch_impl
  MayFail,         \* ids with an operation that may fail or time out
  ResolveMayFail   \* whether the host name may fail to resolve

Id == 0 .. MaxTasks - 1

ASSUME BeastAssumption == /\ MaxTasks \in Nat \ {0}
                          /\ MayFail \subseteq Id
                          /\ ResolveMayFail \in BOOLEAN

VARIABLES
  host,           \* "alive" or "dead"
  pc,             \* where the thread is
  stopped,        \* the io_context has run out of work
  resolver,       \* "resolving", "resolved" or "failed"
  m_next_id,
  m_requests,     \* keys of m_requests: the request objects that exist
  m_finished,     \* keys of m_finished
  returned,       \* ids wait_one has returned
  calls,          \* calls of wait_one
  targets,        \* ids whose result_target a callback has written
  stage,          \* [Id -> stage of the HTTP session]
  answer          \* [Id -> the answer of the service]

callVars == <<calls, returned>>
idVars   == <<m_next_id, m_requests, m_finished, targets>>
vars == <<host, pc, stopped, resolver, callVars, idVars, stage, answer>>

Stage  == {"none", "pending", "connect", "handshake", "write", "read",
           "shutdown", "closed"}
\* An answer to be read: the result, a status other than 200, or status 200 with
\* the text of a function error.
Answer == {"none", "result", "refused", "error"}

Operating == {"connect", "handshake", "write", "read", "shutdown"}

\* The io_context has something to wait for.
Work == resolver = "resolving" \/ \E i \in Id : stage[i] \in Operating

Init == /\ host = "alive"
        /\ pc = "user"
        /\ stopped = FALSE
        /\ resolver = "resolving"
        /\ m_next_id = 0
        /\ m_requests = {}
        /\ m_finished = {}
        /\ returned = {}
        /\ calls = 0
        /\ targets = {}
        /\ stage = [i \in Id |-> "none"]
        /\ answer = [i \in Id |-> "none"]

-----------------------------------------------------------------------------
(* dispatch_impl: the request is kept under its id; its session connects at  *)
(* once, or when the host name has been resolved, or not at all if the TLS   *)
(* host name cannot be set.                                                  *)

FirstStage(i) == {IF resolver = "resolved" THEN "connect" ELSE "pending"}
                 \union (IF i \in MayFail THEN {"closed"} ELSE {})

\* submit signs the request and runs a session of its own for it.
Submit(i) == \E first \in FirstStage(i) : stage' = [stage EXCEPT ![i] = first]

\* Faulty variant: the request is kept under the id after its own.
DispatchPreIncrements ==
  /\ pc = "user"
  /\ m_next_id < MaxTasks
  /\ m_next_id' = m_next_id + 1
  /\ m_requests' = m_requests \union {m_next_id + 1}
  /\ Submit(m_next_id)
  /\ UNCHANGED <<host, pc, stopped, resolver, callVars, m_finished, targets,
                 answer>>

Dispatch ==
  /\ pc = "user"
  /\ m_next_id < MaxTasks
  /\ m_next_id' = m_next_id + 1
  /\ m_requests' = m_requests \union {m_next_id}
  /\ Submit(m_next_id)
  /\ UNCHANGED <<host, pc, stopped, resolver, callVars, m_finished, targets,
                 answer>>

\* The caller waits at most once for every invocation it has started.
WaitOne == /\ pc = "user"
           /\ calls < m_next_id
           /\ calls' = calls + 1
           /\ pc' = "waiting"
           /\ UNCHANGED <<host, stopped, resolver, returned, idVars, stage,
                          answer>>

\* Faulty variants: the id given back, or the request destroyed, is that of the
\* last dispatch.
WaitReturnLatest(i) ==
  /\ pc = "waiting"
  /\ i \in m_finished
  /\ pc' = "user"
  /\ returned' = returned \union {m_next_id - 1}
  /\ m_finished' = m_finished \ {i}
  /\ m_requests' = m_requests \ {i}
  /\ UNCHANGED <<host, stopped, resolver, calls, m_next_id, targets, stage,
                 answer>>
WaitReturnErasesLatest(i) ==
  /\ pc = "waiting"
  /\ i \in m_finished
  /\ pc' = "user"
  /\ returned' = returned \union {i}
  /\ m_finished' = m_finished \ {i}
  /\ m_requests' = m_requests \ {m_next_id - 1}
  /\ UNCHANGED <<host, stopped, resolver, calls, m_next_id, targets, stage,
                 answer>>

\* wait_one returns any finished id and destroys its request.
WaitReturn(i) ==
  /\ pc = "waiting"
  /\ i \in m_finished
  /\ pc' = "user"
  /\ returned' = returned \union {i}
  /\ m_finished' = m_finished \ {i}
  /\ m_requests' = m_requests \ {i}
  /\ UNCHANGED <<host, stopped, resolver, calls, m_next_id, targets, stage,
                 answer>>

-----------------------------------------------------------------------------
(* The handlers.  One runs at a time, and only while the io_context runs. *)

Running == /\ ~stopped
           /\ \/ pc = "waiting" /\ m_finished = {}
              \/ pc = "closing"

\* The frame of a handler: the io_context stops behind the last operation.
AfterHandler == /\ stopped' = ~Work'
                /\ UNCHANGED callVars

\* Faulty variant: only the callback added last is kept.
OnResolveLatest ==
  /\ Running
  /\ resolver = "resolving"
  /\ resolver' = "resolved"
  /\ stage' = [i \in Id |-> IF stage[i] = "pending" /\ i = m_next_id - 1
                            THEN "connect" ELSE stage[i]]
  /\ AfterHandler
  /\ UNCHANGED <<host, pc, idVars, answer>>

\* The resolver's callbacks start every session that waits for it.
OnResolve ==
  /\ Running
  /\ resolver = "resolving"
  /\ resolver' = "resolved"
  /\ stage' = [i \in Id |-> IF stage[i] = "pending" THEN "connect"
                            ELSE stage[i]]
  /\ AfterHandler
  /\ UNCHANGED <<host, pc, idVars, answer>>

\* The name does not resolve: printed; the sessions wait for ever.
OnResolveFails ==
  /\ ResolveMayFail
  /\ Running
  /\ resolver = "resolving"
  /\ resolver' = "failed"
  /\ UNCHANGED <<host, pc, idVars, stage, answer>>
  /\ AfterHandler

\* An operation ends well, and its handler starts the next one.
Progress(i, from, to) ==
  /\ Running
  /\ stage[i] = from
  /\ stage' = [stage EXCEPT ![i] = to]
  /\ UNCHANGED <<resolver, answer>>
  /\ AfterHandler

OnConnect(i) == /\ Progress(i, "connect", "handshake")
                /\ UNCHANGED <<host, pc, idVars>>

OnHandshake(i) == /\ Progress(i, "handshake", "write")
                  /\ UNCHANGED <<host, pc, idVars>>

OnWrite(i) == /\ Progress(i, "write", "read")
              /\ UNCHANGED <<host, pc, idVars>>

\* Faulty variant: the connection is not shut down after the answer was read.
OnReadNoShutdown(i) ==
  /\ Progress(i, "read", "closed")
  /\ answer[i] \in {"result", "error"}
  /\ m_finished' = m_finished \union {i}
  /\ targets' = targets \union {i}
  /\ UNCHANGED <<host, pc, m_next_id, m_requests>>

\* Status 200: the body is deserialized into the target, the id goes to
\* m_finished.  The text of a function error that is long enough for the result
\* is read as one.
OnRead(i) ==
  /\ Progress(i, "read", "shutdown")
  /\ answer[i] \in {"result", "error"}
  /\ m_finished' = m_finished \union {i}
  /\ targets' = targets \union {i}
  /\ UNCHANGED <<host, pc, m_next_id, m_requests>>

\* Any other status is printed and the connection shut down.
OnReadRefused(i) == /\ Progress(i, "read", "shutdown")
                    /\ answer[i] = "refused"
                    /\ UNCHANGED <<host, pc, idVars>>

\* The text of an error cannot be deserialized: the exception leaves on_read
\* before the shutdown, and run_one and wait_one with it; in the destructor it
\* ends the process.
OnReadThrows(i) ==
  /\ Progress(i, "read", "closed")
  /\ answer[i] = "error"
  /\ \/ pc = "waiting" /\ pc' = "user" /\ UNCHANGED host
     \/ pc = "closing" /\ host' = "dead" /\ UNCHANGED pc
  /\ UNCHANGED idVars

\* The end of the shutdown, with an error or without.
OnShutdown(i) == /\ Progress(i, "shutdown", "closed")
                 /\ UNCHANGED <<host, pc, idVars>>

\* An operation fails or is cut off by the 30 s timer: printed, nothing else.
OnFail(i) == /\ i \in MayFail
             /\ \E from \in Operating \ {"shutdown"} :
                   Progress(i, from, "closed")
             /\ UNCHANGED <<host, pc, idVars>>

-----------------------------------------------------------------------------
(* The destructor runs the io_context until it is out of work. *)

Destroy == /\ pc = "user"
           /\ pc' = "closing"
           /\ UNCHANGED <<host, stopped, resolver, callVars, idVars, stage,
                          answer>>

\* Faulty variant: the destructor waits for every request to be answered.
ClosedWhenAnswered == /\ pc = "closing"
                      /\ m_requests = {}
                      /\ pc' = "destroyed"
                      /\ UNCHANGED <<host, stopped, resolver, callVars, idVars,
                                     stage, answer>>

Closed == /\ pc = "closing"
          /\ stopped \/ ~Work
          /\ pc' = "destroyed"
          /\ UNCHANGED <<host, stopped, resolver, callVars, idVars, stage,
                         answer>>

-----------------------------------------------------------------------------
\* The Lambda service answers a request it has received.
Serve(i) ==
  /\ stage[i] = "read"
  /\ answer[i] = "none"
  /\ \E a \in {"result"} \union (IF i \in MayFail
                                 THEN {"refused", "error"} ELSE {}) :
        answer' = [answer EXCEPT ![i] = a]
  /\ UNCHANGED <<host, pc, stopped, resolver, callVars, idVars, stage>>

-----------------------------------------------------------------------------
Handler(i) == \/ OnConnect(i) \/ OnHandshake(i) \/ OnWrite(i) \/ OnRead(i)
              \/ OnReadRefused(i) \/ OnReadThrows(i) \/ OnShutdown(i)

Resolve == OnResolve \/ OnResolveFails

\* wait_one turns in its loop for ever once the io_context is stopped.
Ended == /\ \/ host = "dead"
            \/ pc = "destroyed"
            \/ pc = "waiting" /\ stopped /\ m_finished = {}
         /\ UNCHANGED vars

Next == \/ /\ host = "alive"
           /\ \/ Dispatch \/ WaitOne \/ Destroy \/ Closed \/ Resolve
              \/ \E i \in Id : \/ WaitReturn(i) \/ Handler(i) \/ OnFail(i)
                               \/ Serve(i)
        \/ Ended

Spec == Init /\ [][Next]_vars

\* Every operation ends: with its result, or when its timer fires; the
\* resolver gives up on its own.  The thread runs whatever has ended.  The
\* service answers what it has received, unless the caller's timer is faster.
Alive(A) == host = "alive" /\ A
Fairness ==
  /\ WF_vars(Alive(Resolve))
  /\ WF_vars(Alive(Closed))
  /\ \A i \in Id : /\ WF_vars(Alive(WaitReturn(i)))
                   /\ WF_vars(Alive(Handler(i) \/ OnFail(i)))
                   /\ WF_vars(Alive(Serve(i)))

FairSpec == Spec /\ Fairness

\* The caller also calls wait_one as often as it has dispatched.
WaitingCaller == FairSpec /\ WF_vars(Alive(WaitOne))

-----------------------------------------------------------------------------
(* Properties. *)

TypeOK ==
  /\ host \in {"alive", "dead"}
  /\ pc \in {"user", "waiting", "closing", "destroyed"}
  /\ stopped \in BOOLEAN
  /\ resolver \in {"resolving", "resolved", "failed"}
  /\ m_next_id \in 0 .. MaxTasks
  /\ m_requests \subseteq 0 .. m_next_id - 1
  /\ m_finished \subseteq Id
  /\ returned \subseteq Id
  /\ calls \in 0 .. m_next_id
  /\ targets \subseteq Id
  /\ stage \in [Id -> Stage]
  /\ answer \in [Id -> Answer]

\* The callback of an HTTP session holds a reference to its request object;
\* the object exists as long as the callback may still be called.
RequestOutlivesCallback ==
  \A i \in Id : stage[i] \notin {"none", "shutdown", "closed"} =>
     i \in m_requests

\* Unless an invocation was lost, the io_context does not run out of work under
\* a caller that waits: it would run nothing any more and the caller would turn
\* in wait_one for ever.
NeverStopsUnderCaller ==
  pc = "waiting" /\ stopped =>
     \/ m_finished # {}
     \/ resolver = "failed"
     \/ \E i \in Id : stage[i] = "closed" /\ i \notin targets

\* Every started invocation, dispatched before or after the host name was
\* resolved, is returned to a caller that keeps waiting, unless it fails itself,
\* the resolver does, the process dies, or the failure of another one has
\* emptied the io_context, which nobody restarts.
EveryTaskReturned ==
  \A i \in Id : stage[i] # "none" ~>
     \/ i \in returned
     \/ stage[i] = "closed" /\ i \notin targets
     \/ stopped /\ \E j \in Id : stage[j] = "closed" /\ j \notin targets
     \/ resolver = "failed"
     \/ pc \in {"closing", "destroyed"}
     \/ host = "dead"

\* The destructor returns, whatever fails: no operation is without a timer.
DestroyReturns == pc = "closing" ~> pc = "destroyed" \/ host = "dead"

-----------------------------------------------------------------------------
(* What the safety properties rest on: the parts of the inductive invariant. *)

\* The ids handed out are those below m_next_id.
IdsInOrder == \A i \in Id : stage[i] = "none" <=> i >= m_next_id

\* A result is booked once, in m_finished or as returned, and its session does
\* nothing more than shut down.
ResultsBooked ==
  /\ targets = m_finished \union returned
  /\ m_finished \intersect returned = {}
  /\ \A i \in targets : stage[i] \in {"shutdown", "closed"}

\* No session waits for a resolver that has called back.
NonePending == resolver = "resolved" => \A i \in Id : stage[i] # "pending"

\* wait_one never returns more ids than it was called for.
CallsCounted ==
  Cardinality(returned) + (IF pc = "waiting" THEN 1 ELSE 0) <= calls

\* The io_context has stopped before the destructor only behind a failure.
Lost(i) == stage[i] = "closed" /\ i \notin targets
StoppedForAReason ==
  stopped => \/ resolver = "failed"
             \/ \E i \in Id : Lost(i)
             \/ pc \in {"closing", "destroyed"}

IInv == /\ TypeOK
        /\ IdsInOrder
        /\ ResultsBooked
        /\ NonePending
        /\ CallsCounted
        /\ StoppedForAReason
        /\ RequestOutlivesCallback

-----------------------------------------------------------------------------
(* The promise of Dispatcher, implemented. *)
Promise == INSTANCE Dispatcher WITH
  issued    <- {i \in Id : stage[i] # "none"},
  completed <- m_finished \union returned,
  returned  <- returned,
  up        <- host = "alive" /\ pc # "destroyed"

\* Every behaviour, with all faults, is one the abstract dispatcher allows.
KeepsPromise == Promise!Safe
=============================================================================
