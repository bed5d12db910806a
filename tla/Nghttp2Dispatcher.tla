-------------------------- MODULE Nghttp2Dispatcher --------------------------
(***************************************************************************)
(* The HTTP/2 dispatcher of AWS Lambda: class                              *)
(* aws_lambda_nghttp2_dispatcher_instance (dispatcher/aws-lambda.hpp) with *)
(* the request it submits (provider/aws/client.hpp and lambda.hpp).        *)
(*                                                                         *)
(* One thread runs everything.  The handlers of responses run only inside  *)
(* io_service.run_one() of wait_one, inside the destructor's run(), and,   *)
(* for connecting, inside the constructor.  One run_one is one read of one *)
(* session, which may complete several streams.  The Lambda service and    *)
(* the connections are the environment.                                    *)
(***************************************************************************)
EXTENDS Integers, FiniteSets

CONSTANTS
  MaxTasks,       \* bound: calls of dispatch_impl
  NumConns,       \* num_conns
  MaxThrottles,   \* bound: 429 answers of the service
  MayFail,        \* ids whose function may fail, that the service may refuse,
                  \* or whose stream may break
  MayBreak        \* sessions whose connection may fail

Id == 0 .. MaxTasks - 1
Conn == 0 .. NumConns - 1

ASSUME BoundsAssumption == /\ MaxTasks \in Nat \ {0}
                           /\ NumConns \in Nat \ {0}
                           /\ MaxThrottles \in Nat
ASSUME FaultsAssumption == MayFail \subseteq Id /\ MayBreak \subseteq Conn

VARIABLES
  host,            \* "alive" or "dead"
  pc,              \* where the thread is
  active,          \* the session whose handler run_one is running
  session,         \* [Conn -> "connecting", "up", "unread" or "down"]
  connected,       \* local of the constructor: sessions connected
  error,           \* local of the constructor: a session failed
  m_next_session,
  m_started,
  m_completed,
  m_finished,      \* keys of m_finished
  returned,        \* ids wait_one has returned
  calls,           \* calls of wait_one
  targets,         \* ids whose result_target holds their task's result
  stage,           \* [Id -> stage of the request]
  conn,            \* [Id -> session of the latest submission]
  status,          \* [Id -> status of the answer]
  executed,        \* [Id -> times the service has run the function]
  failed,          \* ids whose function has failed
  throttles        \* 429 answers so far

callerVars  == <<pc, active, calls, returned>>
connectVars == <<session, connected, error>>
countVars   == <<m_started, m_completed, m_finished, targets>>
requestVars == <<stage, conn, status, m_next_session>>
serviceVars == <<executed, failed, throttles>>
vars == <<host, callerVars, connectVars, countVars, requestVars, serviceVars>>

PC     == {"ctor", "user", "waiting", "handling", "handled", "closing",
           "destroyed"}
Stage  == {"none", "sent", "answered", "reading", "done", "lost"}
Status == {0, 200, 429, 500}     \* 0: no answer yet; 500: any other status

Init == /\ host = "alive"
        /\ pc = "ctor"
        /\ active = 0
        /\ session = [s \in Conn |-> "connecting"]
        /\ connected = 0
        /\ error = FALSE
        /\ m_next_session = 0
        /\ m_started = 0
        /\ m_completed = 0
        /\ m_finished = {}
        /\ returned = {}
        /\ calls = 0
        /\ targets = {}
        /\ stage = [i \in Id |-> "none"]
        /\ conn = [i \in Id |-> 0]
        /\ status = [i \in Id |-> 0]
        /\ executed = [i \in Id |-> 0]
        /\ failed = {}
        /\ throttles = 0

InFlight == {i \in Id : stage[i] \in {"sent", "answered", "reading"}}

-----------------------------------------------------------------------------
(* The constructor: run_one until every session is connected or one fails. *)

Connecting(s) == /\ pc = "ctor"
                 /\ connected < NumConns
                 /\ ~error
                 /\ session[s] = "connecting"

Connect(s) == /\ Connecting(s)
              /\ session' = [session EXCEPT ![s] = "up"]
              /\ connected' = connected + 1
              /\ UNCHANGED <<host, callerVars, error, countVars, requestVars,
                             serviceVars>>

ConnectFails(s) == /\ s \in MayBreak
                   /\ Connecting(s)
                   /\ session' = [session EXCEPT ![s] = "down"]
                   /\ error' = TRUE
                   /\ UNCHANGED <<host, callerVars, connected, countVars,
                                  requestVars, serviceVars>>

\* Faulty variant: the loop ends when one session is still connecting.
ConstructedEarly ==
  /\ pc = "ctor"
  /\ connected >= NumConns - 1 \/ error
  /\ pc' = "user"
  /\ UNCHANGED <<host, active, calls, returned, connectVars, countVars,
                 requestVars, serviceVars>>

Constructed == /\ pc = "ctor"
               /\ connected = NumConns \/ error
               /\ pc' = "user"
               /\ UNCHANGED <<host, active, calls, returned, connectVars,
                              countVars, requestVars, serviceVars>>

-----------------------------------------------------------------------------
(* Submitting a request: on the next session in turn.  A session that is not *)
(* open returns no request object, which submit dereferences.  One that is   *)
(* not read any more still writes the request.                               *)

Open == {"up", "unread"}

\* Faulty variant: the index of the next session is not wrapped.
SubmitUnwrapped(i) ==
  /\ session[m_next_session] \in Open
  /\ stage' = [stage EXCEPT ![i] = "sent"]
  /\ conn' = [conn EXCEPT ![i] = m_next_session]
  /\ status' = [status EXCEPT ![i] = 0]
  /\ m_next_session' = m_next_session + 1
  /\ UNCHANGED host

Submit(i) ==
  \/ /\ session[m_next_session] \in Open
     /\ stage' = [stage EXCEPT ![i] = "sent"]
     /\ conn' = [conn EXCEPT ![i] = m_next_session]
     /\ status' = [status EXCEPT ![i] = 0]
     /\ m_next_session' = (m_next_session + 1) % NumConns
     /\ UNCHANGED host
  \/ /\ session[m_next_session] \notin Open
     /\ host' = "dead"
     /\ UNCHANGED requestVars

\* dispatch_impl: a fresh id, its request and span at that index, submit.
Dispatch == /\ pc = "user"
            /\ m_started < MaxTasks
            /\ m_started' = m_started + 1
            /\ Submit(m_started)
            /\ UNCHANGED <<callerVars, connectVars, m_completed, m_finished,
                           targets, serviceVars>>

-----------------------------------------------------------------------------
(* wait_one: run_one until something is finished; return any of it. *)

\* The caller waits at most once for every invocation it has started.
WaitOne == /\ pc = "user"
           /\ calls < m_started
           /\ calls' = calls + 1
           /\ pc' = "waiting"
           /\ UNCHANGED <<host, active, returned, connectVars, countVars,
                          requestVars, serviceVars>>

\* Something can happen on session s.
CanHandle(s) ==
  \/ /\ session[s] = "up"
     /\ \E i \in InFlight : conn[i] = s /\ (i \in MayFail \/ stage[i] # "sent")
  \/ s \in MayBreak /\ session[s] # "down"
  \/ session[s] \in {"connecting", "unread"}

RunOne(s) == /\ pc = "waiting"
             /\ m_finished = {}
             /\ CanHandle(s)
             /\ active' = s
             /\ pc' = "handling"
             /\ UNCHANGED <<host, calls, returned, connectVars, countVars,
                            requestVars, serviceVars>>

\* The read is used up: run_one returns.
EndHandler == /\ pc = "handled"
              /\ pc' = "waiting"
              /\ UNCHANGED <<host, active, calls, returned, connectVars,
                             countVars, requestVars, serviceVars>>

\* Faulty variant: everything finished is forgotten.
WaitReturnClears(i) ==
  /\ pc = "waiting"
  /\ i \in m_finished
  /\ returned' = returned \union {i}
  /\ m_finished' = {}
  /\ pc' = "user"
  /\ UNCHANGED <<host, active, calls, connectVars, m_started, m_completed,
                 targets, requestVars, serviceVars>>

\* m_finished is an unordered_map: begin() is any of its ids.
WaitReturn(i) == /\ pc = "waiting"
                 /\ i \in m_finished
                 /\ returned' = returned \union {i}
                 /\ m_finished' = m_finished \ {i}
                 /\ pc' = "user"
                 /\ UNCHANGED <<host, active, calls, connectVars, m_started,
                                m_completed, targets, requestVars,
                                serviceVars>>

-----------------------------------------------------------------------------
(* The handlers, on the session run_one is reading or, when the destructor  *)
(* runs the io_service, on any session.                                     *)

Handle(s) == \/ /\ pc \in {"handling", "handled"}
                /\ active = s
                /\ pc' = "handled"
             \/ pc = "closing" /\ UNCHANGED pc

\* The session is read, and something has come on it.
Reads(s) == session[s] = "up" /\ Handle(s)

HandlerFrame == UNCHANGED <<active, calls, returned, serviceVars>>

\* on_http2_response: the status decides which on_data handler is installed.
OnResponse(i) == /\ stage[i] = "answered"
                 /\ Reads(conn[i])
                 /\ stage' = [stage EXCEPT ![i] = "reading"]
                 /\ HandlerFrame
                 /\ UNCHANGED <<host, connectVars, countVars, conn, status,
                                m_next_session>>

AtEnd(i, code) == stage[i] = "reading" /\ status[i] = code /\ Reads(conn[i])

\* Faulty variant: the result is booked under the id of the latest call.
OnResultLatest(i) ==
  /\ AtEnd(i, 200)
  /\ stage' = [stage EXCEPT ![i] = "done"]
  /\ targets' = targets \union ({i} \ failed)
  /\ m_finished' = m_finished \union {m_started - 1}
  /\ m_completed' = m_completed + 1
  /\ HandlerFrame
  /\ UNCHANGED <<host, connectVars, m_started, conn, status, m_next_session>>

\* 200: cb deserializes into result_target and books the id.  It does so for the
\* body of a function error, too: what is decoded ends at the first character
\* that is not base64, the rest of the buffer is zero, and nobody looks at how
\* much was decoded; the target then holds zeros.
OnResult(i) ==
  /\ AtEnd(i, 200)
  /\ stage' = [stage EXCEPT ![i] = "done"]
  /\ targets' = targets \union ({i} \ failed)
  /\ m_finished' = m_finished \union {i}
  /\ m_completed' = m_completed + 1
  /\ HandlerFrame
  /\ UNCHANGED <<host, connectVars, m_started, conn, status, m_next_session>>

\* The body of a function error that is too short for the result, or that the
\* archive refuses: deserialize throws, out of the read handler of the session,
\* which starts no further read, out of run_one and of wait_one; or it ends the
\* process when the destructor is running.
OnFunctionError(i) ==
  /\ i \in failed
  /\ stage[i] = "reading"
  /\ session[conn[i]] = "up"
  /\ stage' = [stage EXCEPT ![i] = "lost"]
  /\ \/ /\ pc \in {"handling", "handled"}
        /\ active = conn[i]
        /\ pc' = "user"
        /\ session' = [session EXCEPT ![conn[i]] = "unread"]
        /\ UNCHANGED host
     \/ /\ pc = "closing"
        /\ host' = "dead"
        /\ UNCHANGED <<pc, session>>
  /\ HandlerFrame
  /\ UNCHANGED <<connected, error, countVars, conn, status, m_next_session>>

\* Faulty variant: too many requests is only printed, as any other error.
OnThrottledPrinted(i) ==
  /\ AtEnd(i, 429)
  /\ stage' = [stage EXCEPT ![i] = "lost"]
  /\ HandlerFrame
  /\ UNCHANGED <<host, connectVars, countVars, conn, status, m_next_session>>

\* 429: err_cb submits the same request again, at once, on the next session.
OnThrottled(i) == /\ AtEnd(i, 429)
                  /\ Submit(i)
                  /\ HandlerFrame
                  /\ UNCHANGED <<connectVars, countVars>>

\* Faulty variant: every error is retried.
OnOtherErrorRetried(i) == /\ AtEnd(i, 500)
                          /\ Submit(i)
                          /\ HandlerFrame
                          /\ UNCHANGED <<connectVars, countVars>>

\* Any other status is printed; no callback runs.
OnOtherError(i) ==
  /\ AtEnd(i, 500)
  /\ stage' = [stage EXCEPT ![i] = "lost"]
  /\ HandlerFrame
  /\ UNCHANGED <<host, connectVars, countVars, conn, status, m_next_session>>

\* The stream is reset; submit installs no on_close handler.
OnClose(i) ==
  /\ i \in MayFail \intersect InFlight
  /\ Reads(conn[i])
  /\ stage' = [stage EXCEPT ![i] = "lost"]
  /\ HandlerFrame
  /\ UNCHANGED <<host, connectVars, countVars, conn, status, m_next_session>>

\* The connection of a session is lost, with every stream on it; one that is
\* not read any more ends when its timer does.  The session's error handler
\* writes to a local of the constructor, which has returned: nothing may come
\* of that, or the process may die.
OnError(s) ==
  /\ s \in MayBreak \/ session[s] = "unread"
  /\ session[s] # "down"
  /\ Handle(s)
  /\ session' = [session EXCEPT ![s] = "down"]
  /\ stage' = [i \in Id |-> IF i \in InFlight /\ conn[i] = s THEN "lost"
                            ELSE stage[i]]
  /\ host' \in {"alive", "dead"}
  /\ HandlerFrame
  /\ UNCHANGED <<connected, error, countVars, conn, status, m_next_session>>

\* A session the constructor did not wait for connects; its handler, too,
\* writes to a local of the constructor.
OnLateConnect(s) ==
  /\ session[s] = "connecting"
  /\ Handle(s)
  /\ session' = [session EXCEPT ![s] = "up"]
  /\ host' \in {"alive", "dead"}
  /\ HandlerFrame
  /\ UNCHANGED <<connected, error, countVars, requestVars>>

-----------------------------------------------------------------------------
(* The destructor: shut the sessions down and run what is left to run. *)

Destroy == /\ pc = "user"
           /\ pc' = "closing"
           /\ UNCHANGED <<host, active, calls, returned, connectVars,
                          countVars, requestVars, serviceVars>>

\* The sessions have ended; streams that were still open end with them.
Closed == /\ pc = "closing"
          /\ pc' = "destroyed"
          /\ stage' = [i \in Id |-> IF i \in InFlight THEN "lost"
                                    ELSE stage[i]]
          /\ UNCHANGED <<host, active, calls, returned, connectVars,
                         countVars, conn, status, m_next_session,
                         serviceVars>>

-----------------------------------------------------------------------------
(* The Lambda service. *)

Answer(i, code) ==
  /\ stage[i] = "sent"
  /\ stage' = [stage EXCEPT ![i] = "answered"]
  /\ status' = [status EXCEPT ![i] = code]
  /\ UNCHANGED <<host, callerVars, connectVars, countVars, conn,
                 m_next_session>>

\* The function runs and its result is sent.
Execute(i) == /\ Answer(i, 200)
              /\ executed' = [executed EXCEPT ![i] = @ + 1]
              /\ UNCHANGED <<failed, throttles>>

\* The function runs and fails: the answer describes its error, under the
\* status of a success.
FunctionFails(i) == /\ i \in MayFail
                    /\ Answer(i, 200)
                    /\ executed' = [executed EXCEPT ![i] = @ + 1]
                    /\ failed' = failed \union {i}
                    /\ UNCHANGED throttles

\* Too many concurrent executions: the function does not run.
Throttle(i) == /\ throttles < MaxThrottles
               /\ Answer(i, 429)
               /\ throttles' = throttles + 1
               /\ UNCHANGED <<executed, failed>>

\* Any other failure, before the function ran or after.
Refuse(i) == /\ i \in MayFail
             /\ Answer(i, 500)
             /\ \E ran \in {0, 1} :
                   executed' = [executed EXCEPT ![i] = @ + ran]
             /\ UNCHANGED <<failed, throttles>>

-----------------------------------------------------------------------------
\* Steps of the thread inside the library.
Handler(s) == \/ \E i \in Id : /\ conn[i] = s
                               /\ \/ OnResponse(i) \/ OnResult(i)
                                  \/ OnThrottled(i) \/ OnOtherError(i)

Fault(s) == \/ OnError(s)
            \/ \E i \in Id : /\ conn[i] = s
                           /\ \/ OnClose(i)
                              \/ OnFunctionError(i)

ServiceNext(i) == Execute(i) \/ FunctionFails(i) \/ Throttle(i) \/ Refuse(i)

\* The instance is destroyed, the process dead, or wait_one is blocked in
\* run_one with nothing to run because what it waits for is lost.
Stopped == /\ \/ host = "dead"
              \/ pc = "destroyed"
              \/ /\ pc = "waiting" /\ m_finished = {} /\ InFlight = {}
                 /\ \E i \in Id : stage[i] = "lost"
           /\ UNCHANGED vars

Next == \/ /\ host = "alive"
           /\ \/ Constructed \/ Dispatch \/ WaitOne \/ EndHandler
              \/ Destroy \/ Closed
              \/ \E s \in Conn : \/ Connect(s) \/ ConnectFails(s) \/ RunOne(s)
                                 \/ Handler(s) \/ Fault(s)
                                 \/ OnLateConnect(s)
              \/ \E i \in Id : WaitReturn(i) \/ ServiceNext(i)
        \/ Stopped

Spec == Init /\ [][Next]_vars

\* Connections are made, the thread runs, the event run_one has taken up is
\* handled, and the service answers; the caller keeps waiting for what it has
\* started.
Alive(A) == host = "alive" /\ A
Fairness ==
  /\ WF_vars(Alive(Constructed \/ \E s \in Conn : Connect(s)))
  /\ WF_vars(Alive(WaitOne))
  /\ WF_vars(Alive(\/ EndHandler
                   \/ \E s \in Conn : RunOne(s) \/ Handler(s)
                   \/ /\ pc = "handling"
                      /\ \E s \in Conn : Fault(s) \/ OnLateConnect(s)
                   \/ \E i \in Id : WaitReturn(i)))
  /\ \A i \in Id : WF_vars(Alive(ServiceNext(i)))

WaitingCaller == Spec /\ Fairness

-----------------------------------------------------------------------------
(* Properties. *)

TypeOK ==
  /\ host \in {"alive", "dead"}
  /\ pc \in PC
  /\ active \in Conn
  /\ session \in [Conn -> {"connecting", "up", "unread", "down"}]
  /\ connected \in 0 .. NumConns
  /\ error \in BOOLEAN
  /\ m_next_session \in Conn
  /\ m_started \in 0 .. MaxTasks
  /\ m_completed \in 0 .. MaxTasks
  /\ m_finished \subseteq Id
  /\ returned \subseteq Id
  /\ calls \in Nat
  /\ targets \subseteq Id
  /\ stage \in [Id -> Stage]
  /\ conn \in [Id -> Conn]
  /\ status \in [Id -> Status]
  /\ executed \in [Id -> Nat]
  /\ failed \subseteq Id
  /\ throttles \in 0 .. MaxThrottles

\* Every invocation whose answer was a success is in m_finished or was returned,
\* never both; m_completed counts them; each has run once, and its target holds
\* its own result unless its function failed: only then is it booked without.
Accounting ==
  /\ m_finished \intersect returned = {}
  /\ \A i \in Id : i \in m_finished \union returned <=> stage[i] = "done"
  /\ m_completed = Cardinality(m_finished \union returned)
  /\ \A i \in m_finished \union returned : executed[i] = 1
  /\ targets = (m_finished \union returned) \ failed

\* Retrying never runs a task twice: only throttled requests, which did not
\* run, are submitted again.
AtMostOneExecution == \A i \in Id : executed[i] <= 1

\* However often the service throttles an invocation, it is not lost: an
\* invocation is lost only by a refusal, a function error that cannot be
\* decoded, a broken stream or connection, or because the instance was
\* destroyed before its result arrived.
ThrottledNeverLost ==
  \A i \in Id : stage[i] = "lost" =>
     \/ i \in MayFail
     \/ session[conn[i]] = "down"
     \/ pc = "destroyed"

\* As long as no connection fails, no request is submitted on a session that
\* is not connected.
OnlyConnectedSessions ==
  host = "dead" => \/ \E s \in Conn : session[s] = "down"
                   \/ pc = "closing"

\* Every started invocation is returned to a caller that keeps waiting, however
\* often it is throttled and whatever happens on the other sessions, unless its
\* own answer fails, its session is lost or no longer read, or the process dies.
EveryTaskReturned ==
  \A i \in Id : stage[i] # "none" ~>
     \/ i \in returned
     \/ stage[i] = "lost" /\ i \in MayFail
     \/ stage[i] # "done" /\ session[conn[i]] \in {"unread", "down"}
     \/ pc \in {"closing", "destroyed"}
     \/ host = "dead"

-----------------------------------------------------------------------------
(* What the safety properties rest on: the parts of the inductive invariant. *)

\* The next id has no request yet.
FreshIds == \A i \in Id : i >= m_started => stage[i] = "none"

\* The constructor counts the sessions that are up until one has failed, and
\* it leaves none connecting unless one has failed.
SessionsCounted ==
  /\ error => \E s \in Conn : session[s] = "down"
  /\ ~error /\ pc = "ctor" =>
       /\ \A s \in Conn : session[s] # "down"
       /\ connected = Cardinality({s \in Conn : session[s] = "up"})
  /\ ~error /\ pc # "ctor" => \A s \in Conn : session[s] # "connecting"

\* What the service has done for a request is known from its stage and status.
AnswersAgree ==
  /\ failed \subseteq MayFail
  /\ \A i \in Id :
       /\ stage[i] \in {"none", "sent"} => executed[i] = 0 /\ i \notin failed
       /\ stage[i] \in {"answered", "reading"} =>
            \/ status[i] = 200 /\ executed[i] = 1
            \/ status[i] = 429 /\ executed[i] = 0 /\ i \notin failed
            \/ status[i] = 500 /\ i \in MayFail /\ i \notin failed

IInv == /\ TypeOK
        /\ FreshIds
        /\ SessionsCounted
        /\ AnswersAgree
        /\ Accounting
        /\ AtMostOneExecution
        /\ ThrottledNeverLost
        /\ OnlyConnectedSessions

-----------------------------------------------------------------------------
(* The promise of Dispatcher, implemented. *)
Promise == INSTANCE Dispatcher WITH
  issued    <- {i \in Id : stage[i] # "none"},
  completed <- m_finished \union returned,
  returned  <- returned,
  up        <- host = "alive" /\ pc # "destroyed"

\* Every behaviour, with all faults, is one the abstract dispatcher allows.
KeepsPromise == Promise!Safe
=============================================================================
