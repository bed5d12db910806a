----------------------- MODULE Nghttp2DispatcherProofs -----------------------
(***************************************************************************)
(* Proofs about Nghttp2Dispatcher, for every number of invocations, of     *)
(* sessions and of throttled answers, and for every set of invocations and *)
(* of connections that may fail.                                           *)
(***************************************************************************)
EXTENDS Nghttp2Dispatcher, FiniteSetTheorems, TLAPS

-----------------------------------------------------------------------------
(***************************************************************************)
(* Sets of ids and of sessions are finite.                                 *)
(***************************************************************************)

\* There are MaxTasks ids, so m_completed cannot exceed MaxTasks.
LEMMA IdsAreFinite ==
  ASSUME NEW S \in SUBSET Id
  PROVE  IsFiniteSet(S) /\ Cardinality(S) \in 0 .. MaxTasks
<1>1. IsFiniteSet(Id) /\ Cardinality(Id) = MaxTasks
  BY BoundsAssumption, FS_Interval DEF Id
<1>2. IsFiniteSet(S) /\ Cardinality(S) <= Cardinality(Id)
  BY <1>1, FS_Subset
<1>3. Cardinality(S) \in Nat
  BY <1>2, FS_CardinalityType
<1>4. QED BY <1>1, <1>2, <1>3, BoundsAssumption

\* There are NumConns sessions; a set of that many is all of them.
LEMMA ConnsAreFinite ==
  ASSUME NEW S \in SUBSET Conn
  PROVE  /\ IsFiniteSet(S) /\ Cardinality(S) \in 0 .. NumConns
         /\ Cardinality(S) = NumConns => S = Conn
<1>1. IsFiniteSet(Conn) /\ Cardinality(Conn) = NumConns
  BY BoundsAssumption, FS_Interval DEF Conn
<1>2. /\ IsFiniteSet(S) /\ Cardinality(S) <= Cardinality(Conn)
      /\ Cardinality(S) = Cardinality(Conn) => Conn = S
  BY <1>1, FS_Subset
<1>3. Cardinality(S) \in Nat
  BY <1>2, FS_CardinalityType
<1>4. QED BY <1>1, <1>2, <1>3, BoundsAssumption

\* The next session in turn is a session.
LEMMA TurnIsSession ==
  ASSUME NEW s \in Conn
  PROVE  (s + 1) % NumConns \in Conn
BY BoundsAssumption DEF Conn

-----------------------------------------------------------------------------
(***************************************************************************)
(* Types.  That m_completed stays in its range follows from what it counts.*)
(***************************************************************************)

\* What submit does keeps the types of what it writes.
LEMMA SubmitTyped ==
  ASSUME TypeOK, NEW i \in Id, Submit(i)
  PROVE  /\ host' \in {"alive", "dead"}
         /\ m_next_session' \in Conn
         /\ stage' \in [Id -> Stage]
         /\ conn' \in [Id -> Conn]
         /\ status' \in [Id -> Status]
<1>1. CASE session[m_next_session] \in Open
  <2>1. m_next_session \in Conn BY DEF TypeOK
  <2>2. m_next_session' \in Conn
    BY <1>1, <2>1, TurnIsSession DEF Submit
  <2>3. QED BY <1>1, <2>1, <2>2 DEF Submit, TypeOK, Stage, Status
<1>2. CASE session[m_next_session] \notin Open
  BY <1>2 DEF Submit, TypeOK, requestVars
<1>3. QED BY <1>1, <1>2

\* A result is counted once, in m_finished and in m_completed.
LEMMA ResultCounted ==
  ASSUME TypeOK, Accounting, NEW i \in Id, OnResult(i)
  PROVE  /\ i \notin m_finished \union returned
         /\ m_completed' = Cardinality((m_finished \union returned)')
         /\ m_completed' \in 0 .. MaxTasks
<1>1. /\ stage[i] = "reading"
      /\ m_finished' = m_finished \union {i}
      /\ returned' = returned
      /\ m_completed' = m_completed + 1
  BY DEF OnResult, AtEnd, Reads, HandlerFrame
<1>2. i \notin m_finished \union returned
  BY <1>1 DEF Accounting
<1> DEFINE S == m_finished \union returned
<1>3. S \in SUBSET Id /\ S \union {i} \in SUBSET Id
  BY DEF TypeOK
<1>4. IsFiniteSet(S) /\ Cardinality(S \union {i}) \in 0 .. MaxTasks
  BY <1>3, IdsAreFinite
<1>5. Cardinality(S \union {i}) = Cardinality(S) + 1
  BY <1>2, <1>4, FS_AddElement
<1>6. (m_finished \union returned)' = S \union {i}
  BY <1>1
<1>7. m_completed' = Cardinality(S \union {i})
  BY <1>1, <1>5 DEF Accounting
<1>8. QED BY <1>2, <1>4, <1>6, <1>7

\* No step gives a variable a value out of its type.
LEMMA TypeStep == TypeOK /\ Accounting /\ [Next]_vars => TypeOK'
<1> SUFFICES ASSUME TypeOK, Accounting, [Next]_vars PROVE TypeOK'
  OBVIOUS
<1> USE DEF TypeOK, callerVars, connectVars, countVars, requestVars,
        serviceVars, PC
<1>1. CASE Constructed BY <1>1 DEF Constructed
<1>2. CASE Dispatch
  <2>1. m_started \in Id /\ m_started' \in 0 .. MaxTasks
    BY <1>2, BoundsAssumption DEF Dispatch, Id
  <2>2. Submit(m_started) BY <1>2 DEF Dispatch
  <2>3. QED BY <1>2, <2>1, <2>2, SubmitTyped DEF Dispatch
<1>3. CASE WaitOne BY <1>3 DEF WaitOne
<1>4. CASE EndHandler \/ Destroy BY <1>4 DEF EndHandler, Destroy
<1>5. CASE Closed BY <1>5 DEF Closed, Stage
<1>6. ASSUME NEW s \in Conn, Connect(s) PROVE TypeOK'
  <2>1. connected' \in 0 .. NumConns
    BY <1>6, BoundsAssumption DEF Connect, Connecting
  <2>2. QED BY <1>6, <2>1 DEF Connect
<1>7. ASSUME NEW s \in Conn, ConnectFails(s) PROVE TypeOK'
  BY <1>7 DEF ConnectFails
<1>8. ASSUME NEW s \in Conn, RunOne(s) PROVE TypeOK'
  BY <1>8 DEF RunOne
<1>9. ASSUME NEW i \in Id, OnResponse(i) PROVE TypeOK'
  BY <1>9 DEF OnResponse, Reads, Handle, HandlerFrame, Stage
<1>10. ASSUME NEW i \in Id, OnResult(i) PROVE TypeOK'
  <2>1. m_completed' \in 0 .. MaxTasks BY <1>10, ResultCounted
  <2>2. QED BY <1>10, <2>1 DEF OnResult, AtEnd, Reads, Handle, HandlerFrame,
     Stage
<1>11. ASSUME NEW i \in Id, OnThrottled(i) PROVE TypeOK'
  <2>1. Submit(i) BY <1>11 DEF OnThrottled
  <2>2. QED BY <1>11, <2>1, SubmitTyped
            DEF OnThrottled, AtEnd, Reads, Handle, HandlerFrame
<1>12. ASSUME NEW i \in Id, OnOtherError(i) PROVE TypeOK'
  BY <1>12 DEF OnOtherError, AtEnd, Reads, Handle, HandlerFrame, Stage
<1>13. ASSUME NEW i \in Id, OnClose(i) PROVE TypeOK'
  BY <1>13 DEF OnClose, Reads, Handle, HandlerFrame, Stage
<1>14. ASSUME NEW i \in Id, OnFunctionError(i) PROVE TypeOK'
  BY <1>14 DEF OnFunctionError, HandlerFrame, Stage
<1>15. ASSUME NEW s \in Conn, OnError(s) PROVE TypeOK'
  BY <1>15 DEF OnError, Handle, HandlerFrame, Stage
<1>16. ASSUME NEW s \in Conn, OnLateConnect(s) PROVE TypeOK'
  BY <1>16 DEF OnLateConnect, Handle, HandlerFrame
<1>17. ASSUME NEW i \in Id, WaitReturn(i) PROVE TypeOK'
  BY <1>17 DEF WaitReturn
<1>18. ASSUME NEW i \in Id, Execute(i) PROVE TypeOK'
  BY <1>18 DEF Execute, Answer, Stage, Status
<1>19. ASSUME NEW i \in Id, Throttle(i) PROVE TypeOK'
  <2>1. throttles' \in 0 .. MaxThrottles
    BY <1>19, BoundsAssumption DEF Throttle
  <2>2. QED BY <1>19, <2>1 DEF Throttle, Answer, Stage, Status
<1>20. ASSUME NEW i \in Id, Refuse(i) PROVE TypeOK'
  BY <1>20 DEF Refuse, Answer, Stage, Status
<1>21. ASSUME NEW i \in Id, FunctionFails(i) PROVE TypeOK'
  BY <1>21 DEF FunctionFails, Answer, Stage, Status
<1>22. CASE UNCHANGED vars BY <1>22 DEF vars
<1>23. QED
  BY <1>1, <1>2, <1>3, <1>4, <1>5, <1>6, <1>7, <1>8, <1>9, <1>10, <1>11,
     <1>12, <1>13, <1>14, <1>15, <1>16, <1>17, <1>18, <1>19, <1>20, <1>21, <1>22
  DEF Next, Stopped, Handler, Fault, ServiceNext

-----------------------------------------------------------------------------
(***************************************************************************)
(* The parts of the inductive invariant.                                   *)
(***************************************************************************)

\* Only dispatch_impl gives a request to an id that had none.
LEMMA FreshStep == TypeOK /\ FreshIds /\ [Next]_vars => FreshIds'
<1> SUFFICES ASSUME TypeOK, FreshIds, [Next]_vars PROVE FreshIds'
  OBVIOUS
<1> USE DEF FreshIds, callerVars, connectVars, countVars, requestVars,
        serviceVars, HandlerFrame
<1>1. CASE Dispatch
  <2>1. m_started \in Nat /\ m_started' = m_started + 1
    BY <1>1, BoundsAssumption DEF Dispatch, TypeOK
  <2>2. \A i \in Id : i # m_started => stage'[i] = stage[i]
    BY <1>1 DEF Dispatch, Submit, TypeOK
  <2>3. QED BY <2>1, <2>2 DEF Id
<1>2. ASSUME NEW i \in Id, OnThrottled(i) PROVE FreshIds'
  <2>1. stage[i] = "reading" /\ m_started' = m_started
    BY <1>2 DEF OnThrottled, AtEnd
  <2>2. \A j \in Id : j # i => stage'[j] = stage[j]
    BY <1>2 DEF OnThrottled, Submit, TypeOK
  <2>3. QED BY <2>1, <2>2
<1>3. ASSUME NEW i \in Id,
             \/ OnResponse(i) \/ OnResult(i) \/ OnOtherError(i)
             \/ OnFunctionError(i) \/ OnClose(i)
      PROVE  FreshIds'
  BY <1>3 DEF OnResponse, OnResult, OnOtherError, OnFunctionError, OnClose,
              AtEnd, InFlight, TypeOK
<1>4. ASSUME NEW s \in Conn, OnError(s) PROVE FreshIds'
  BY <1>4 DEF OnError, InFlight
<1>5. CASE Closed BY <1>5 DEF Closed, InFlight
<1>6. ASSUME NEW i \in Id, ServiceNext(i) PROVE FreshIds'
  BY <1>6
     DEF ServiceNext, Execute, FunctionFails, Throttle, Refuse, Answer, TypeOK
<1>7. CASE Constructed \/ WaitOne \/ EndHandler \/ Destroy
  BY <1>7 DEF Constructed, WaitOne, EndHandler, Destroy
<1>8. ASSUME NEW s \in Conn,
             Connect(s) \/ ConnectFails(s) \/ RunOne(s) \/ OnLateConnect(s)
      PROVE  FreshIds'
  BY <1>8 DEF Connect, ConnectFails, RunOne, OnLateConnect
<1>9. ASSUME NEW i \in Id, WaitReturn(i) PROVE FreshIds'
  BY <1>9 DEF WaitReturn
<1>10. CASE UNCHANGED vars BY <1>10 DEF vars
<1>11. QED
  BY <1>1, <1>2, <1>3, <1>4, <1>5, <1>6, <1>7, <1>8, <1>9, <1>10
  DEF Next, Stopped, Handler, Fault

\* One more session up is one more in the constructor's count.
LEMMA OneMoreUp ==
  ASSUME TypeOK, NEW s \in Conn, session[s] # "up",
         session' = [session EXCEPT ![s] = "up"]
  PROVE  Cardinality({c \in Conn : session'[c] = "up"})
           = Cardinality({c \in Conn : session[c] = "up"}) + 1
<1> DEFINE Up == {c \in Conn : session[c] = "up"}
<1>1. {c \in Conn : session'[c] = "up"} = Up \union {s}
  BY DEF TypeOK
<1>2. s \notin Up /\ Up \in SUBSET Conn
  OBVIOUS
<1>3. IsFiniteSet(Up)
  BY <1>2, ConnsAreFinite
<1> HIDE DEF Up
<1>4. Cardinality(Up \union {s}) = Cardinality(Up) + 1
  BY <1>2, <1>3, FS_AddElement
<1>5. QED BY <1>1, <1>4 DEF Up

\* The constructor's view of the sessions stays true.
LEMMA SessionStep ==
  TypeOK /\ SessionsCounted /\ [Next]_vars => SessionsCounted'
<1> SUFFICES ASSUME TypeOK, SessionsCounted, [Next]_vars
             PROVE  SessionsCounted'
  OBVIOUS
<1> USE DEF callerVars, connectVars, countVars, requestVars, serviceVars,
        HandlerFrame
<1>1. ASSUME NEW s \in Conn, Connect(s) PROVE SessionsCounted'
  <2>1. /\ pc = "ctor" /\ pc' = pc /\ ~error /\ error' = error
        /\ session[s] = "connecting"
        /\ session' = [session EXCEPT ![s] = "up"]
        /\ connected' = connected + 1
    BY <1>1 DEF Connect, Connecting
  <2>2. Cardinality({c \in Conn : session'[c] = "up"})
          = Cardinality({c \in Conn : session[c] = "up"}) + 1
    BY <2>1, OneMoreUp
  <2>3. \A c \in Conn : session'[c] # "down"
    BY <2>1 DEF SessionsCounted, TypeOK
  <2>4. QED BY <2>1, <2>2, <2>3 DEF SessionsCounted
<1>2. ASSUME NEW s \in Conn, ConnectFails(s) PROVE SessionsCounted'
  BY <1>2 DEF ConnectFails, SessionsCounted, TypeOK
<1>3. CASE Constructed
  <2>1. /\ pc = "ctor" /\ pc' = "user" /\ UNCHANGED <<session, error>>
        /\ connected = NumConns \/ error
    BY <1>3 DEF Constructed
  <2>2. CASE error BY <2>1, <2>2 DEF SessionsCounted
  <2>3. CASE ~error
    <3>1. {c \in Conn : session[c] = "up"} = Conn
      BY <2>1, <2>3, ConnsAreFinite DEF SessionsCounted
    <3>2. \A c \in Conn : session[c] = "up"
      BY <3>1
    <3>3. QED BY <2>1, <2>3, <3>2 DEF SessionsCounted
  <2>4. QED BY <2>2, <2>3
<1>4. ASSUME NEW s \in Conn, OnError(s) PROVE SessionsCounted'
  <2>1. /\ pc # "ctor" /\ pc' # "ctor" /\ error' = error
        /\ session' = [session EXCEPT ![s] = "down"]
    BY <1>4 DEF OnError, Handle
  <2>2. QED BY <2>1 DEF SessionsCounted, TypeOK
<1>5. ASSUME NEW s \in Conn, OnLateConnect(s) PROVE SessionsCounted'
  <2>1. /\ pc # "ctor" /\ pc' # "ctor" /\ error' = error
        /\ session[s] = "connecting"
        /\ session' = [session EXCEPT ![s] = "up"]
    BY <1>5 DEF OnLateConnect, Handle
  <2>2. QED BY <2>1 DEF SessionsCounted, TypeOK
<1>6. ASSUME UNCHANGED <<session, connected, error>>,
             pc = "ctor" <=> pc' = "ctor"
      PROVE  SessionsCounted'
  BY <1>6 DEF SessionsCounted
<1>7. CASE Dispatch \/ WaitOne \/ EndHandler \/ Destroy \/ Closed
  BY <1>6, <1>7 DEF Dispatch, WaitOne, EndHandler, Destroy, Closed
<1>8. ASSUME NEW s \in Conn, RunOne(s) PROVE SessionsCounted'
  BY <1>6, <1>8 DEF RunOne
<1>9. ASSUME NEW i \in Id,
             \/ OnResponse(i) \/ OnResult(i) \/ OnThrottled(i)
             \/ OnOtherError(i) \/ OnClose(i)
      PROVE  SessionsCounted'
  BY <1>6, <1>9 DEF OnResponse, OnResult, OnThrottled, OnOtherError,
     OnClose, AtEnd, Reads, Handle
<1>10. ASSUME NEW i \in Id, WaitReturn(i) \/ ServiceNext(i)
       PROVE  SessionsCounted'
  BY <1>6, <1>10 DEF WaitReturn, ServiceNext, Execute, FunctionFails, Throttle,
     Refuse, Answer
<1>11. ASSUME NEW i \in Id, OnFunctionError(i) PROVE SessionsCounted'
  <2>1. /\ pc # "ctor" /\ pc' # "ctor" /\ error' = error
        /\ session[conn[i]] = "up" /\ conn[i] \in Conn
        /\ \/ session' = session
           \/ session' = [session EXCEPT ![conn[i]] = "unread"]
    BY <1>11 DEF OnFunctionError, TypeOK
  <2>2. QED BY <2>1 DEF SessionsCounted, TypeOK
<1>12. CASE UNCHANGED vars BY <1>6, <1>12 DEF vars
<1>13. QED
  BY <1>1, <1>2, <1>3, <1>4, <1>5, <1>7, <1>8, <1>9, <1>10, <1>11, <1>12
  DEF Next, Stopped, Handler, Fault

\* The steps that touch no request: connecting, waiting and returning.
Quiet == \/ Constructed \/ WaitOne \/ EndHandler \/ Destroy
         \/ \E s \in Conn : \/ Connect(s) \/ ConnectFails(s) \/ RunOne(s)
                            \/ OnLateConnect(s)
         \/ \E i \in Id : WaitReturn(i)
         \/ UNCHANGED vars

LEMMA QuietFrame ==
  Quiet => UNCHANGED <<stage, conn, status, executed, failed>>
BY DEF Quiet, Constructed, WaitOne, EndHandler, Destroy, Connect,
       ConnectFails, RunOne, OnLateConnect, WaitReturn, HandlerFrame, vars,
       requestVars, serviceVars

\* What the service answers, and what submitting again forgets, agree with
\* what it has executed.
LEMMA AnswersStep ==
  TypeOK /\ FreshIds /\ AnswersAgree /\ [Next]_vars => AnswersAgree'
<1> SUFFICES ASSUME TypeOK, FreshIds, AnswersAgree, [Next]_vars
             PROVE  AnswersAgree'
  OBVIOUS
<1> USE DEF serviceVars, requestVars, HandlerFrame
<1>1. CASE Quiet BY <1>1, QuietFrame DEF AnswersAgree
<1>2. CASE Dispatch
  <2>1. /\ m_started \in Id /\ Submit(m_started)
        /\ UNCHANGED <<executed, failed>>
    BY <1>2, BoundsAssumption DEF Dispatch, TypeOK, Id
  <2>2. stage[m_started] = "none"
    BY <2>1 DEF FreshIds, TypeOK, Id
  <2>3. QED BY <2>1, <2>2 DEF Submit, AnswersAgree, TypeOK
<1>3. ASSUME NEW i \in Id, OnThrottled(i) PROVE AnswersAgree'
  <2>1. /\ stage[i] = "reading" /\ status[i] = 429
        /\ Submit(i) /\ UNCHANGED <<executed, failed>>
    BY <1>3 DEF OnThrottled, AtEnd
  <2>2. executed[i] = 0 /\ i \notin failed BY <2>1 DEF AnswersAgree
  <2>3. QED BY <2>1, <2>2 DEF Submit, AnswersAgree, TypeOK
<1>4. ASSUME NEW i \in Id,
             \/ OnResponse(i) \/ OnResult(i) \/ OnOtherError(i)
             \/ OnFunctionError(i) \/ OnClose(i)
      PROVE  AnswersAgree'
  <2>1. /\ UNCHANGED <<status, executed, failed>>
        /\ \A j \in Id : j # i => stage'[j] = stage[j]
        /\ \/ stage[i] = "answered" /\ stage'[i] = "reading"
           \/ stage'[i] \in {"done", "lost"}
    BY <1>4 DEF OnResponse, OnResult, OnOtherError, OnFunctionError, OnClose,
                AtEnd, TypeOK
  <2>2. QED BY <2>1 DEF AnswersAgree
<1>5. ASSUME NEW s \in Conn, OnError(s) PROVE AnswersAgree'
  BY <1>5 DEF OnError, InFlight, AnswersAgree
<1>6. CASE Closed BY <1>6 DEF Closed, InFlight, AnswersAgree
<1>7. ASSUME NEW i \in Id, ServiceNext(i) PROVE AnswersAgree'
  <2>1. stage[i] = "sent" /\ executed[i] = 0
    BY <1>7 DEF ServiceNext, Execute, FunctionFails, Throttle, Refuse, Answer,
       AnswersAgree
  <2>2. CASE Execute(i) BY <2>1, <2>2 DEF Execute, Answer, AnswersAgree, TypeOK
  <2>3. CASE Throttle(i)
    BY <2>1, <2>3 DEF Throttle, Answer, AnswersAgree, TypeOK
  <2>4. CASE Refuse(i) BY <2>1, <2>4 DEF Refuse, Answer, AnswersAgree, TypeOK
  <2>5. CASE FunctionFails(i)
    BY <2>1, <2>5 DEF FunctionFails, Answer, AnswersAgree, TypeOK
  <2>6. QED BY <1>7, <2>2, <2>3, <2>4, <2>5 DEF ServiceNext
<1>8. QED
  BY <1>1, <1>2, <1>3, <1>4, <1>5, <1>6, <1>7
  DEF Next, Stopped, Handler, Fault, Quiet

\* The service runs a function only when it has not run it before.
LEMMA OnceStep ==
  TypeOK /\ AnswersAgree /\ AtMostOneExecution /\ [Next]_vars
    => AtMostOneExecution'
<1> SUFFICES ASSUME TypeOK, AnswersAgree, AtMostOneExecution, [Next]_vars
             PROVE  AtMostOneExecution'
  OBVIOUS
<1>1. ASSUME NEW i \in Id, ServiceNext(i) PROVE AtMostOneExecution'
  <2>1. executed[i] = 0
    BY <1>1 DEF ServiceNext, Execute, FunctionFails, Throttle, Refuse, Answer,
       AnswersAgree
  <2>2. \A j \in Id : j # i => executed'[j] = executed[j]
    BY <1>1 DEF ServiceNext, Execute, FunctionFails, Throttle, Refuse, TypeOK
  <2>3. executed'[i] \in {0, 1}
    BY <1>1, <2>1
       DEF ServiceNext, Execute, FunctionFails, Throttle, Refuse, TypeOK
  <2>4. QED BY <2>2, <2>3 DEF AtMostOneExecution
<1>2. CASE executed' = executed BY <1>2 DEF AtMostOneExecution
<1>3. CASE Quiet BY <1>2, <1>3, QuietFrame
<1>4. CASE Dispatch \/ Closed BY <1>2, <1>4 DEF Dispatch, Closed, serviceVars
<1>5. ASSUME NEW i \in Id,
             \/ OnResponse(i) \/ OnResult(i) \/ OnThrottled(i)
             \/ OnOtherError(i) \/ OnFunctionError(i) \/ OnClose(i)
      PROVE  executed' = executed
  BY <1>5 DEF OnResponse, OnResult, OnThrottled, OnOtherError,
     OnFunctionError, OnClose, HandlerFrame, serviceVars
<1>6. ASSUME NEW s \in Conn, OnError(s) PROVE executed' = executed
  BY <1>6 DEF OnError, HandlerFrame, serviceVars
<1>7. QED
  BY <1>1, <1>2, <1>3, <1>4, <1>5, <1>6
  DEF Next, Stopped, Handler, Fault, Quiet

\* Results are booked once, and only results are.
LEMMA AccountingStep ==
  /\ TypeOK /\ FreshIds /\ AnswersAgree /\ AtMostOneExecution /\ Accounting
  /\ [Next]_vars
  => Accounting'
<1> SUFFICES ASSUME TypeOK, FreshIds, AnswersAgree, AtMostOneExecution,
                    Accounting, [Next]_vars
             PROVE  Accounting'
  OBVIOUS
<1> USE DEF callerVars, countVars, requestVars, serviceVars, HandlerFrame
<1>1. ASSUME NEW i \in Id, OnResult(i) PROVE Accounting'
  <2>1. /\ stage[i] = "reading" /\ status[i] = 200
        /\ stage' = [stage EXCEPT ![i] = "done"]
        /\ targets' = targets \union ({i} \ failed)
        /\ m_finished' = m_finished \union {i}
        /\ UNCHANGED <<returned, executed, failed>>
    BY <1>1 DEF OnResult, AtEnd
  <2>2. executed[i] = 1
    BY <2>1 DEF AnswersAgree
  <2>3. /\ i \notin m_finished \union returned
        /\ m_completed' = Cardinality((m_finished \union returned)')
    BY <1>1, ResultCounted
  <2>4. (m_finished \intersect returned)' = {}
    BY <2>1, <2>3 DEF Accounting
  <2>5. \A j \in Id :
           j \in (m_finished \union returned)' <=> stage'[j] = "done"
    BY <2>1 DEF Accounting, TypeOK
  <2>6. /\ \A j \in (m_finished \union returned)' : executed'[j] = 1
        /\ targets' = (m_finished \union returned)' \ failed'
    BY <2>1, <2>2 DEF Accounting
  <2>7. QED BY <2>3, <2>4, <2>5, <2>6 DEF Accounting
<1>2. ASSUME NEW i \in Id, WaitReturn(i) PROVE Accounting'
  <2>1. /\ i \in m_finished
        /\ m_finished' = m_finished \ {i}
        /\ returned' = returned \union {i}
        /\ UNCHANGED <<m_completed, targets, stage, executed, failed>>
    BY <1>2 DEF WaitReturn
  <2>2. (m_finished \union returned)' = m_finished \union returned
    BY <2>1
  <2>3. QED BY <2>1, <2>2 DEF Accounting
<1>3. ASSUME UNCHANGED <<m_finished, returned, m_completed, targets>>,
             \A j \in Id : stage'[j] = "done" <=> stage[j] = "done",
             \A j \in Id : stage[j] = "done" =>
                executed'[j] = executed[j] /\ (j \in failed' <=> j \in failed)
      PROVE  Accounting'
  <2>1. m_finished \union returned \subseteq Id
    BY DEF TypeOK
  <2>2. QED BY <1>3, <2>1 DEF Accounting
<1>4. CASE Dispatch
  <2>1. m_started \in Id /\ Submit(m_started)
    BY <1>4, BoundsAssumption DEF Dispatch, TypeOK, Id
  <2>2. stage[m_started] = "none"
    BY <2>1 DEF FreshIds, TypeOK, Id
  <2>3. \A j \in Id : stage'[j] = "done" <=> stage[j] = "done"
    BY <2>1, <2>2 DEF Submit, TypeOK
  <2>4. QED BY <1>3, <1>4, <2>3 DEF Dispatch
<1>5. ASSUME NEW i \in Id,
             \/ OnResponse(i) \/ OnThrottled(i) \/ OnOtherError(i)
             \/ OnFunctionError(i) \/ OnClose(i)
      PROVE  Accounting'
  <2>1. \A j \in Id : stage'[j] = "done" <=> stage[j] = "done"
    BY <1>5 DEF OnResponse, OnThrottled, OnOtherError, OnFunctionError,
       OnClose, AtEnd, InFlight, Submit, TypeOK
  <2>2. UNCHANGED <<countVars, returned, executed, failed>>
    BY <1>5 DEF OnResponse, OnThrottled, OnOtherError, OnFunctionError, OnClose
  <2>3. QED BY <1>3, <2>1, <2>2
<1>6. ASSUME NEW s \in Conn, OnError(s) PROVE Accounting'
  BY <1>3, <1>6 DEF OnError, InFlight
<1>7. CASE Closed BY <1>3, <1>7 DEF Closed, InFlight
<1>8. ASSUME NEW i \in Id, ServiceNext(i) PROVE Accounting'
  <2>1. /\ stage[i] = "sent" /\ stage' = [stage EXCEPT ![i] = "answered"]
        /\ \A j \in Id : j # i =>
              executed'[j] = executed[j] /\ (j \in failed' <=> j \in failed)
        /\ UNCHANGED <<countVars, returned>>
    BY <1>8 DEF ServiceNext, Execute, FunctionFails, Throttle, Refuse, Answer,
       TypeOK
  <2>2. QED BY <1>3, <2>1 DEF TypeOK
<1>9. CASE \/ Constructed \/ WaitOne \/ EndHandler \/ Destroy
  BY <1>3, <1>9 DEF Constructed, WaitOne, EndHandler, Destroy
<1>10. ASSUME NEW s \in Conn,
              Connect(s) \/ ConnectFails(s) \/ RunOne(s) \/ OnLateConnect(s)
       PROVE  Accounting'
  BY <1>3, <1>10 DEF Connect, ConnectFails, RunOne, OnLateConnect
<1>11. CASE UNCHANGED vars BY <1>3, <1>11 DEF vars
<1>12. QED
  BY <1>1, <1>2, <1>4, <1>5, <1>6, <1>7, <1>8, <1>9, <1>10, <1>11
  DEF Next, Stopped, Handler, Fault

\* A session that is down stays down.
LEMMA DownStaysDown ==
  ASSUME TypeOK, [Next]_vars, NEW s \in Conn, session[s] = "down"
  PROVE  session'[s] = "down"
<1>1. ASSUME NEW c \in Conn,
             \/ Connect(c) \/ ConnectFails(c) \/ RunOne(c) \/ OnError(c)
             \/ OnLateConnect(c)
      PROVE  session'[s] = "down"
  BY <1>1 DEF Connect, ConnectFails, Connecting, RunOne, OnError,
     OnLateConnect, TypeOK, connectVars
<1>2. ASSUME NEW i \in Id,
             \/ OnResponse(i) \/ OnResult(i) \/ OnThrottled(i)
             \/ OnOtherError(i) \/ OnClose(i)
             \/ WaitReturn(i) \/ ServiceNext(i)
      PROVE  session' = session
  BY <1>2 DEF OnResponse, OnResult, OnThrottled, OnOtherError,
     OnClose, WaitReturn, ServiceNext, Execute,
     FunctionFails, Throttle, Refuse, Answer, connectVars
<1>3. CASE \/ Constructed \/ Dispatch \/ WaitOne \/ EndHandler \/ Destroy
           \/ Closed \/ UNCHANGED vars
  BY <1>3 DEF Constructed, Dispatch, WaitOne, EndHandler, Destroy, Closed,
     vars, connectVars
<1>4. ASSUME NEW i \in Id, OnFunctionError(i) PROVE session'[s] = "down"
  BY <1>4 DEF OnFunctionError, TypeOK
<1>5. QED BY <1>1, <1>2, <1>3, <1>4 DEF Next, Stopped, Handler, Fault

\* The instance stays destroyed.
LEMMA DestroyedForEver ==
  [Next]_vars /\ pc = "destroyed" => pc' = "destroyed"
BY DEF Next, Stopped, Handler, Fault, ServiceNext, Constructed, Dispatch,
       WaitOne, EndHandler, Destroy, Closed, Connect, ConnectFails,
       Connecting, RunOne, OnResponse, OnResult, OnThrottled, OnOtherError,
       AtEnd, OnError, OnClose, OnFunctionError, OnLateConnect, Reads, Handle,
       WaitReturn, Execute, FunctionFails, Throttle, Refuse, Answer,
       HandlerFrame, vars, callerVars

\* Throttling loses no invocation, and a lost one was lost for a reason that
\* still holds.
LEMMA LostStep ==
  /\ TypeOK /\ FreshIds /\ AnswersAgree /\ ThrottledNeverLost
  /\ [Next]_vars
  => ThrottledNeverLost'
<1> SUFFICES ASSUME TypeOK, FreshIds, AnswersAgree, ThrottledNeverLost,
                    [Next]_vars
             PROVE  ThrottledNeverLost'
  OBVIOUS
<1> USE DEF requestVars, HandlerFrame
<1> DEFINE Reason(i) == \/ i \in MayFail
                        \/ session[conn[i]] = "down"
                        \/ pc = "destroyed"
<1>1. ASSUME NEW i \in Id, stage[i] = "lost", conn'[i] = conn[i]
      PROVE  Reason(i)'
  <2>1. Reason(i) BY <1>1 DEF ThrottledNeverLost
  <2>2. conn[i] \in Conn BY DEF TypeOK
  <2>3. QED BY <1>1, <2>1, <2>2, DownStaysDown, DestroyedForEver
<1>2. ASSUME \A i \in Id : stage'[i] = "lost" =>
                \/ stage[i] = "lost" /\ conn'[i] = conn[i]
                \/ Reason(i)'
      PROVE  ThrottledNeverLost'
  BY <1>1, <1>2 DEF ThrottledNeverLost
<1> HIDE DEF Reason
<1>3. CASE Quiet BY <1>2, <1>3, QuietFrame
<1>4. CASE Dispatch
  <2>1. m_started \in Id /\ Submit(m_started)
    BY <1>4, BoundsAssumption DEF Dispatch, TypeOK, Id
  <2>2. stage[m_started] = "none"
    BY <2>1 DEF FreshIds, TypeOK, Id
  <2>3. QED BY <1>2, <2>1, <2>2 DEF Submit, TypeOK
<1>5. ASSUME NEW i \in Id, OnThrottled(i) PROVE ThrottledNeverLost'
  <2>1. stage[i] = "reading" /\ Submit(i)
    BY <1>5 DEF OnThrottled, AtEnd
  <2>2. QED BY <1>2, <2>1 DEF Submit, TypeOK
<1>6. ASSUME NEW i \in Id, OnResponse(i) \/ OnResult(i) \/ ServiceNext(i)
      PROVE  ThrottledNeverLost'
  BY <1>2, <1>6 DEF OnResponse, OnResult, AtEnd, ServiceNext, Execute,
     FunctionFails, Throttle, Refuse, Answer, TypeOK
<1>7. ASSUME NEW i \in Id,
             OnOtherError(i) \/ OnFunctionError(i) \/ OnClose(i)
      PROVE  ThrottledNeverLost'
  <2>1. i \in MayFail
    BY <1>7 DEF OnOtherError, OnFunctionError, OnClose, AtEnd, AnswersAgree
  <2>2. /\ stage' = [stage EXCEPT ![i] = "lost"]
        /\ conn' = conn
    BY <1>7 DEF OnOtherError, OnFunctionError, OnClose, AtEnd
  <2>3. QED BY <1>2, <2>1, <2>2 DEF Reason, TypeOK
<1>8. ASSUME NEW s \in Conn, OnError(s) PROVE ThrottledNeverLost'
  <2>1. /\ stage' = [i \in Id |-> IF i \in InFlight /\ conn[i] = s
                                  THEN "lost" ELSE stage[i]]
        /\ session'[s] = "down" /\ conn' = conn
    BY <1>8 DEF OnError, TypeOK
  <2>2. QED BY <1>2, <2>1 DEF Reason
<1>9. CASE Closed BY <1>2, <1>9 DEF Closed, Reason
<1>10. QED
  BY <1>3, <1>4, <1>5, <1>6, <1>7, <1>8, <1>9
  DEF Next, Stopped, Handler, Fault, Quiet

\* Submitting finds a session that is not up only when one has failed.
LEMMA OnlyFailedSessions ==
  ASSUME TypeOK, SessionsCounted, pc # "ctor", NEW i \in Id, Submit(i),
         host' = "dead", host = "alive"
  PROVE  \E s \in Conn : session[s] = "down"
<1>1. /\ m_next_session \in Conn
      /\ session[m_next_session] \in {"connecting", "down"}
  BY DEF Submit, Open, TypeOK
<1>2. CASE error BY <1>2 DEF SessionsCounted
<1>3. CASE ~error BY <1>1, <1>3 DEF SessionsCounted, TypeOK
<1>4. QED BY <1>2, <1>3 DEF TypeOK

\* The process dies only behind a session that failed, or in the destructor.
LEMMA ConnectedStep ==
  /\ TypeOK /\ SessionsCounted /\ OnlyConnectedSessions
  /\ [Next]_vars
  => OnlyConnectedSessions'
<1> SUFFICES ASSUME TypeOK, SessionsCounted, OnlyConnectedSessions,
                    [Next]_vars
             PROVE  OnlyConnectedSessions'
  OBVIOUS
<1> DEFINE Failed == \E s \in Conn : session[s] = "down"
<1>1. Failed => Failed'
  BY DownStaysDown
<1>2. CASE host = "alive" /\ Dispatch
  <2>1. pc # "ctor" /\ m_started \in Id /\ Submit(m_started)
    BY <1>2, BoundsAssumption DEF Dispatch, TypeOK, Id
  <2>2. QED BY <1>1, <1>2, <2>1, OnlyFailedSessions DEF OnlyConnectedSessions
<1>3. ASSUME NEW i \in Id, host = "alive", OnThrottled(i)
      PROVE  OnlyConnectedSessions'
  <2>1. pc # "ctor" /\ Submit(i)
    BY <1>3 DEF OnThrottled, AtEnd, Reads, Handle
  <2>2. QED BY <1>1, <1>3, <2>1, OnlyFailedSessions DEF OnlyConnectedSessions
<1>4. ASSUME NEW s \in Conn, OnError(s) PROVE OnlyConnectedSessions'
  BY <1>4 DEF OnError, TypeOK, OnlyConnectedSessions
<1>5. ASSUME NEW s \in Conn, OnLateConnect(s) PROVE OnlyConnectedSessions'
  <2>1. pc # "ctor" /\ session[s] = "connecting"
    BY <1>5 DEF OnLateConnect, Handle
  <2>2. Failed BY <2>1 DEF SessionsCounted, TypeOK
  <2>3. QED BY <1>1, <2>2 DEF OnlyConnectedSessions
<1>6. ASSUME NEW i \in Id, host = "alive", OnFunctionError(i)
      PROVE  OnlyConnectedSessions'
  BY <1>6 DEF OnFunctionError, OnlyConnectedSessions
<1>7. ASSUME host' = "alive" PROVE OnlyConnectedSessions'
  BY <1>7 DEF OnlyConnectedSessions
<1>8. ASSUME NEW i \in Id, host = "alive",
             \/ OnResponse(i) \/ OnResult(i) \/ OnOtherError(i) \/ OnClose(i)
             \/ ServiceNext(i)
      PROVE  OnlyConnectedSessions'
  BY <1>7, <1>8 DEF OnResponse, OnResult, OnOtherError, OnClose, ServiceNext,
     Execute, FunctionFails, Throttle, Refuse, Answer
<1>9. CASE UNCHANGED vars
  BY <1>9 DEF vars, callerVars, connectVars, OnlyConnectedSessions
<1>10. CASE host = "alive" /\ (Constructed \/ WaitOne \/ EndHandler \/ Destroy
                               \/ Closed)
  BY <1>7, <1>10 DEF Constructed, WaitOne, EndHandler, Destroy, Closed
<1>11. ASSUME NEW s \in Conn, host = "alive",
              Connect(s) \/ ConnectFails(s) \/ RunOne(s)
       PROVE  OnlyConnectedSessions'
  BY <1>7, <1>11 DEF Connect, ConnectFails, RunOne
<1>12. ASSUME NEW i \in Id, host = "alive", WaitReturn(i)
       PROVE  OnlyConnectedSessions'
  BY <1>7, <1>12 DEF WaitReturn
<1>13. QED
  BY <1>2, <1>3, <1>4, <1>5, <1>6, <1>8, <1>9, <1>10, <1>11, <1>12
  DEF Next, Stopped, Handler, Fault

-----------------------------------------------------------------------------
(***************************************************************************)
(* The invariant and what follows from it.                                 *)
(***************************************************************************)

LEMMA InitInvariant == Init => IInv
<1> SUFFICES ASSUME Init PROVE IInv
  OBVIOUS
<1>1. TypeOK
  <2>1. /\ 0 \in Conn /\ 0 \in 0 .. NumConns /\ 0 \in 0 .. MaxTasks
        /\ 0 \in 0 .. MaxThrottles
    BY BoundsAssumption DEF Conn
  <2>2. QED BY <2>1 DEF Init, TypeOK, PC, Stage, Status
<1>2. Cardinality({}) = 0 /\ {s \in Conn : session[s] = "up"} = {}
  BY FS_EmptySet DEF Init
<1>3. SessionsCounted
  BY <1>2 DEF Init, SessionsCounted
<1>4. Accounting
  BY <1>2 DEF Init, Accounting
<1>5. FreshIds /\ AnswersAgree /\ AtMostOneExecution
  BY DEF Init, FreshIds, AnswersAgree, AtMostOneExecution
<1>6. ThrottledNeverLost /\ OnlyConnectedSessions
  BY DEF Init, ThrottledNeverLost, OnlyConnectedSessions
<1>7. QED BY <1>1, <1>3, <1>4, <1>5, <1>6 DEF IInv

\* The inductive invariant of the HTTP/2 dispatcher holds in every reachable
\* state.
THEOREM Invariance == Spec => []IInv
<1>1. IInv /\ [Next]_vars => IInv'
  BY TypeStep, FreshStep, SessionStep, AnswersStep, AccountingStep, OnceStep,
     LostStep, ConnectedStep DEF IInv
<1>2. QED BY InitInvariant, <1>1, PTL DEF Spec

\* Every reachable state is well typed; in particular the session whose turn it
\* is exists, and m_completed never exceeds the number of invocations.
THEOREM TypeCorrect == Spec => []TypeOK
BY Invariance, PTL DEF IInv

\* m_completed, m_finished and what wait_one has returned agree with each other
\* and with the requests answered with success; a booked invocation has run once
\* and has its own result in its target, unless its function failed.
THEOREM AccountsAreRight == Spec => []Accounting
BY Invariance, PTL DEF IInv

\* However often requests are throttled and submitted again, the service runs
\* no invocation twice.
THEOREM NeverExecutedTwice == Spec => []AtMostOneExecution
BY Invariance, PTL DEF IInv

\* However often an invocation is throttled, only a refusal, a function error, a
\* broken stream or connection, or the destructor loses it.
THEOREM ThrottlingLosesNothing == Spec => []ThrottledNeverLost
BY Invariance, PTL DEF IInv

\* Nothing is submitted on an unconnected session unless a connection failed:
\* the constructor has waited for all of them.
THEOREM SubmitsOnConnected == Spec => []OnlyConnectedSessions
BY Invariance, PTL DEF IInv

-----------------------------------------------------------------------------
(***************************************************************************)
(* The HTTP/2 dispatcher implements the safety half of Dispatcher: a       *)
(* submission in dispatch_impl issues, a result with status 200 completes, *)
(* wait_one's return returns, the death of the process and the end of the  *)
(* destructor stop.  Throttling and every other step stutter.              *)
(***************************************************************************)

\* Without a change of the requests that exist, of what is finished, or of the
\* instance's life, the abstract dispatcher stutters; if its life ends, it stops.
LEMMA StutterOrStop ==
  ASSUME \A j \in Id : stage'[j] = "none" <=> stage[j] = "none",
         UNCHANGED <<m_finished, returned>>,
         host = "alive", pc # "destroyed"
  PROVE  [Promise!Next]_(Promise!vars)
<1>1. {i \in Id : stage'[i] # "none"} = {i \in Id : stage[i] # "none"}
  OBVIOUS
<1>2. CASE host' = "alive" /\ pc' # "destroyed"
  BY <1>1, <1>2 DEF Promise!vars
<1>3. CASE ~(host' = "alive" /\ pc' # "destroyed")
  <2>1. Promise!Stop BY <1>1, <1>3 DEF Promise!Stop
  <2>2. QED BY <2>1 DEF Promise!Next
<1>4. QED BY <1>2, <1>3

LEMMA StepRefines == IInv /\ [Next]_vars => [Promise!Next]_(Promise!vars)
<1> SUFFICES ASSUME IInv, [Next]_vars PROVE [Promise!Next]_(Promise!vars)
  OBVIOUS
<1> USE DEF callerVars, countVars, requestVars, HandlerFrame
<1>0. TypeOK /\ FreshIds /\ Accounting
  BY DEF IInv
<1>1. CASE host = "alive" /\ Dispatch
  <2>1. /\ pc = "user" /\ m_started \in Id /\ Submit(m_started)
        /\ UNCHANGED <<pc, m_finished, returned>>
    BY <1>0, <1>1, BoundsAssumption DEF Dispatch, TypeOK, Id
  <2>2. stage[m_started] = "none"
    BY <1>0, <2>1 DEF FreshIds, TypeOK, Id
  <2>3. CASE session[m_next_session] \in Open
    <3>1. /\ stage' = [stage EXCEPT ![m_started] = "sent"]
          /\ host' = host
      BY <2>1, <2>3 DEF Submit
    <3>2. {i \in Id : stage'[i] # "none"}
            = {i \in Id : stage[i] # "none"} \union {m_started}
      BY <1>0, <2>1, <3>1 DEF TypeOK
    <3>3. PICK j \in Id : j = m_started
      BY <2>1
    <3>4. Promise!Issue(j)
      BY <1>1, <2>1, <2>2, <3>1, <3>2, <3>3 DEF Promise!Issue
    <3>5. QED BY <3>4 DEF Promise!Next
  <2>4. CASE session[m_next_session] \notin Open
    <3>1. stage' = stage BY <2>1, <2>4 DEF Submit
    <3>2. QED BY <1>1, <2>1, <3>1, StutterOrStop
  <2>5. QED BY <2>3, <2>4
<1>2. ASSUME NEW i \in Id, host = "alive", OnResult(i)
      PROVE  Promise!Complete(i)
  <2>1. /\ stage[i] = "reading" /\ pc # "destroyed" /\ pc' # "destroyed"
        /\ stage' = [stage EXCEPT ![i] = "done"]
        /\ m_finished' = m_finished \union {i}
        /\ UNCHANGED <<host, returned>>
    BY <1>2 DEF OnResult, AtEnd, Reads, Handle
  <2>2. i \notin m_finished \union returned
    BY <1>0, <2>1 DEF Accounting
  <2>3. {j \in Id : stage'[j] # "none"} = {j \in Id : stage[j] # "none"}
    BY <1>0, <2>1 DEF TypeOK
  <2>4. QED BY <1>2, <2>1, <2>2, <2>3 DEF Promise!Complete
<1>3. ASSUME NEW i \in Id, host = "alive", WaitReturn(i)
      PROVE  Promise!Return(i)
  <2>1. /\ i \in m_finished /\ pc = "waiting" /\ pc' = "user"
        /\ m_finished' = m_finished \ {i}
        /\ returned' = returned \union {i}
        /\ UNCHANGED <<host, stage>>
    BY <1>3 DEF WaitReturn
  <2>2. i \notin returned
    BY <1>0, <2>1 DEF Accounting
  <2>3. (m_finished \union returned)' = m_finished \union returned
    BY <2>1
  <2>4. QED BY <1>3, <2>1, <2>2, <2>3 DEF Promise!Return
<1>4. ASSUME NEW i \in Id, host = "alive", OnThrottled(i)
      PROVE  [Promise!Next]_(Promise!vars)
  <2>1. /\ stage[i] = "reading" /\ pc # "destroyed" /\ Submit(i)
        /\ UNCHANGED <<m_finished, returned>>
    BY <1>4 DEF OnThrottled, AtEnd, Reads, Handle
  <2>2. \A j \in Id : stage'[j] = "none" <=> stage[j] = "none"
    BY <1>0, <2>1 DEF Submit, TypeOK
  <2>3. QED BY <1>4, <2>1, <2>2, StutterOrStop
<1>5. ASSUME NEW i \in Id, host = "alive",
             \/ OnResponse(i) \/ OnOtherError(i) \/ OnFunctionError(i)
             \/ OnClose(i)
      PROVE  [Promise!Next]_(Promise!vars)
  <2>1. /\ pc # "destroyed"
        /\ UNCHANGED <<m_finished, returned>>
    BY <1>5 DEF OnResponse, OnOtherError, OnFunctionError, OnClose, AtEnd,
       Reads, Handle
  <2>2. \A j \in Id : stage'[j] = "none" <=> stage[j] = "none"
    BY <1>0, <1>5 DEF OnResponse, OnOtherError, OnFunctionError, OnClose,
       AtEnd, InFlight, TypeOK
  <2>3. QED BY <1>5, <2>1, <2>2, StutterOrStop
<1>6. ASSUME NEW s \in Conn, host = "alive", OnError(s)
      PROVE  [Promise!Next]_(Promise!vars)
  <2>1. /\ pc # "destroyed"
        /\ UNCHANGED <<m_finished, returned>>
        /\ \A j \in Id : stage'[j] = "none" <=> stage[j] = "none"
    BY <1>6 DEF OnError, Handle, InFlight
  <2>2. QED BY <1>6, <2>1, StutterOrStop
<1>7. ASSUME NEW s \in Conn, host = "alive", OnLateConnect(s)
      PROVE  [Promise!Next]_(Promise!vars)
  <2>1. /\ pc # "destroyed"
        /\ UNCHANGED <<m_finished, returned, stage>>
    BY <1>7 DEF OnLateConnect, Handle
  <2>2. QED BY <1>7, <2>1, StutterOrStop
<1>8. CASE host = "alive" /\ Closed
  <2>1. /\ pc = "closing"
        /\ UNCHANGED <<m_finished, returned>>
        /\ \A j \in Id : stage'[j] = "none" <=> stage[j] = "none"
    BY <1>8 DEF Closed, InFlight
  <2>2. QED BY <1>8, <2>1, StutterOrStop
<1>9. ASSUME NEW i \in Id, ServiceNext(i)
      PROVE  UNCHANGED Promise!vars
  <2>1. /\ stage[i] = "sent" /\ stage' = [stage EXCEPT ![i] = "answered"]
        /\ UNCHANGED <<host, pc, m_finished, returned>>
    BY <1>9 DEF ServiceNext, Execute, FunctionFails, Throttle, Refuse, Answer
  <2>2. {j \in Id : stage'[j] # "none"} = {j \in Id : stage[j] # "none"}
    BY <1>0, <2>1 DEF TypeOK
  <2>3. QED BY <2>1, <2>2 DEF Promise!vars
<1>10. CASE Constructed \/ WaitOne \/ EndHandler \/ Destroy
  BY <1>10 DEF Constructed, WaitOne, EndHandler, Destroy, Promise!vars
<1>11. ASSUME NEW s \in Conn, Connect(s) \/ ConnectFails(s) \/ RunOne(s)
       PROVE  UNCHANGED Promise!vars
  BY <1>11 DEF Connect, ConnectFails, RunOne, Promise!vars
<1>12. CASE UNCHANGED vars BY <1>12 DEF vars, Promise!vars
<1>13. QED
  BY <1>1, <1>2, <1>3, <1>4, <1>5, <1>6, <1>7, <1>8, <1>9, <1>10, <1>11,
     <1>12
  DEF Next, Stopped, Handler, Fault, Promise!Next

\* Every behaviour of the HTTP/2 dispatcher, with all faults, is one the
\* promise allows.
THEOREM ImplementsDispatcher == Spec => KeepsPromise
<1>1. Init => Promise!Init
  BY DEF Init, Promise!Init
<1>2. QED BY <1>1, Invariance, StepRefines, PTL
          DEF Spec, KeepsPromise, Promise!Safe
=============================================================================
