----------------------------- MODULE Http2Client -----------------------------
(***************************************************************************)
(* The load generator examples/http2_client.cpp: n invocations of one      *)
(* function, p of them at a time.  A throttled invocation waits in         *)
(* resend_queue until another one completes.  One thread runs all handlers *)
(* in io_service.run(); the Lambda service is the environment.             *)
(***************************************************************************)
EXTENDS Integers, Sequences, FiniteSets, SequencesExt

CONSTANTS
  n,              \* invocations, the first argument
  p,              \* how many are scheduled at once, the second argument
  num_sessions,
  MaxThrottles,   \* bound: 429 answers
  MayBreak,       \* sessions whose connection may fail
  MayFail         \* ids that may be answered with another error

ReqId   == 0 .. n - 1
Session == 0 .. num_sessions - 1

ASSUME ArgumentsAssumption == /\ n \in Nat /\ p \in 1 .. n
                              /\ num_sessions \in Nat \ {0}
ASSUME FaultsAssumption == /\ MaxThrottles \in Nat
                           /\ MayBreak \subseteq Session
                           /\ MayFail \subseteq ReqId

VARIABLES
  main,           \* "connecting", "scheduling", "running", "shutdown", "dead"
  session,        \* [Session -> "connecting", "connected" or "failed"]
  connected,      \* on_connect calls
  error,          \* some on_error was called
  started,
  completed,
  resend_queue,
  inflight,       \* ids with a stream whose answer has not been handled
  closing,        \* answered streams whose on_close has not been called
  done,           \* ids whose result has been handled
  failed,         \* ids with another error, which is only printed
  throttles

connectVars == <<session, connected, error>>
vars == <<main, connectVars, started, completed, resend_queue, inflight,
          closing, done, failed, throttles>>

Init == /\ main = "connecting"
        /\ session = [s \in Session |-> "connecting"]
        /\ connected = 0
        /\ error = FALSE
        /\ started = 0
        /\ completed = 0
        /\ resend_queue = <<>>
        /\ inflight = {}
        /\ closing = 0
        /\ done = {}
        /\ failed = {}
        /\ throttles = 0

\* The handlers of a session; io_service also runs them after the loop.
RunsHandlers == (main = "connecting" /\ ~error) \/ main = "running"

OnConnect(s) == /\ RunsHandlers
                /\ session[s] = "connecting"
                /\ session' = [session EXCEPT ![s] = "connected"]
                /\ connected' = connected + 1
                /\ UNCHANGED <<main, error, started, completed, resend_queue,
                               inflight, closing, done, failed, throttles>>

OnSessionError(s) ==
  /\ RunsHandlers
  /\ s \in MayBreak /\ session[s] # "failed"
  /\ session' = [session EXCEPT ![s] = "failed"]
  /\ error' = TRUE
  /\ UNCHANGED <<main, connected, started, completed, resend_queue, inflight,
                 closing, done, failed, throttles>>

\* The loop around run_one ends with the last connection or the first error.
Connected == /\ main = "connecting"
             /\ connected = num_sessions \/ error
             /\ main' = "scheduling"
             /\ UNCHANGED <<connectVars, started, completed, resend_queue,
                            inflight, closing, done, failed, throttles>>

\* submit_req: requests go to the sessions in turn.  One that is not connected
\* returns no request object, which submit dereferences.  Then main goes on at
\* next; ids is what is in flight before.
SubmitReq(id, ids, next) ==
  /\ inflight' = ids \union {id}
  /\ main' = IF session[id % num_sessions] = "connected" THEN next ELSE "dead"

\* schedule_request submits the next id.
ScheduleRequest(ids, next) == /\ SubmitReq(started, ids, next)
                              /\ started' = started + 1

\* The first p.
Schedule == /\ main = "scheduling"
            /\ ScheduleRequest(inflight,
                               IF started + 1 = p THEN "running" ELSE main)
            /\ UNCHANGED <<connectVars, completed, resend_queue, closing, done,
                           failed, throttles>>

\* The answer of i is handled; on_close of its stream comes later.
Answered(i) == /\ main = "running"
               /\ i \in inflight
               /\ session[i % num_sessions] = "connected"
               /\ closing' = closing + 1

\* Faulty variant: the id stays in the queue.
ResendKeeps(ids) == /\ resend_queue # <<>>
                    /\ SubmitReq(Last(resend_queue), ids, main)
                    /\ UNCHANGED <<started, resend_queue>>

Resend(ids) == /\ resend_queue # <<>>
               /\ SubmitReq(Last(resend_queue), ids, main)
               /\ resend_queue' = Front(resend_queue)
               /\ UNCHANGED started

StartNext(ids) == /\ resend_queue = <<>>
                  /\ \/ started < n /\ ScheduleRequest(ids, main)
                     \/ /\ started = n
                        /\ inflight' = ids
                        /\ UNCHANGED <<main, started>>
                  /\ UNCHANGED resend_queue

\* cb: one completes, and one takes its place.
OnResult(i) == /\ Answered(i)
               /\ completed' = completed + 1
               /\ done' = done \union {i}
               /\ Resend(inflight \ {i}) \/ StartNext(inflight \ {i})
               /\ UNCHANGED <<connectVars, failed, throttles>>

\* cb throws when the body is another one.
OnUnexpected(i) == /\ i \in MayFail
                   /\ Answered(i)
                   /\ main' = "dead"
                   /\ UNCHANGED <<connectVars, started, completed, resend_queue,
                                  inflight, done, failed, throttles>>

\* Faulty variant: the queue is left out when no other one is in flight.
OnThrottledAlone(i) ==
  /\ throttles < MaxThrottles
  /\ Answered(i)
  /\ throttles' = throttles + 1
  /\ inflight' = inflight \ {i}
  /\ resend_queue' = IF inflight' # {} THEN Append(resend_queue, i)
                     ELSE resend_queue
  /\ UNCHANGED <<main, connectVars, started, completed, done, failed>>

\* err_cb, too many requests: nothing takes its place.  The branch that submits
\* at once is for started = completed, which never holds here.
OnThrottled(i) == /\ throttles < MaxThrottles
                  /\ Answered(i)
                  /\ throttles' = throttles + 1
                  /\ IF started > completed
                     THEN /\ resend_queue' = Append(resend_queue, i)
                          /\ inflight' = inflight \ {i}
                          /\ UNCHANGED main
                     ELSE SubmitReq(i, inflight, main) /\ UNCHANGED resend_queue
                  /\ UNCHANGED <<connectVars, started, completed, done, failed>>

\* err_cb, any other error.
OnError(i) == /\ i \in MayFail
              /\ Answered(i)
              /\ inflight' = inflight \ {i}
              /\ failed' = failed \union {i}
              /\ UNCHANGED <<main, connectVars, started, completed, resend_queue,
                             done, throttles>>

\* on_close of a stream: the sessions are shut down when all have completed.
OnClose == /\ main = "running"
           /\ closing > 0
           /\ closing' = closing - 1
           /\ main' = IF completed = n THEN "shutdown" ELSE main
           /\ UNCHANGED <<connectVars, started, completed, resend_queue, inflight,
                          done, failed, throttles>>

Handler(i) == OnResult(i) \/ OnUnexpected(i) \/ OnThrottled(i) \/ OnError(i)

Connecting(s) == session[s] = "connecting" /\ (OnConnect(s) \/ OnSessionError(s))

Next == \/ Connected \/ Schedule \/ OnClose
        \/ \E s \in Session : OnConnect(s) \/ OnSessionError(s)
        \/ \E i \in ReqId : Handler(i)

\* Every connection succeeds or fails, every request on a connected session is
\* answered, and every closed stream is reported.
Spec == /\ Init /\ [][Next]_vars
        /\ WF_vars(Connected) /\ \A s \in Session : WF_vars(Connecting(s))
        /\ WF_vars(Schedule) /\ WF_vars(OnClose)
        /\ \A i \in ReqId : WF_vars(Handler(i))

-----------------------------------------------------------------------------
(* Properties. *)

\* An invocation that was started is in exactly one place: in flight, waiting to
\* be sent again, completed or failed; none is submitted while it is in flight,
\* and never more than p are.
OnePlaceEach ==
  /\ IsInjective(resend_queue)
  /\ LET places == <<inflight, ToSet(resend_queue), done, failed>> IN
     /\ UNION {places[k] : k \in 1 .. 4} = 0 .. started - 1
     /\ \A k, l \in 1 .. 4 : k # l => places[k] \intersect places[l] = {}
  /\ completed = Cardinality(done)
  /\ Cardinality(inflight) <= p

\* The parts of the inductive invariant: nothing is submitted before all
\* connections, and main schedules less than p invocations before it runs the
\* handlers.
Types == /\ main \in {"connecting", "scheduling", "running", "shutdown", "dead"}
         /\ started \in 0 .. n
         /\ completed \in Nat
         /\ resend_queue \in Seq(ReqId)
         /\ inflight \subseteq ReqId
         /\ done \subseteq ReqId
         /\ failed \subseteq ReqId

ScheduledFirst == /\ main = "connecting" => started = 0
                  /\ main = "scheduling" => started < p

IInv == Types /\ ScheduledFirst /\ OnePlaceEach

\* Nothing is in flight and nothing will be, for want of a completion that
\* would resend what waits: each throttled answer has cost one of the p places.
Stalled == inflight = {} /\ (resend_queue # <<>> \/ started < n)

\* The client shuts down behind its last result, or stalls because its last
\* invocations in flight were throttled, or an invocation or a connection has
\* failed, or it dies of an unexpected answer or of a session not connected.
EndsOrStalls ==
  <>\/ main = "shutdown" /\ done = ReqId
    \/ main = "running" /\ Stalled
    \/ main = "dead"
    \/ failed # {} \/ error
=============================================================================
