------------------------ MODULE BeastDispatcherProofs ------------------------
(***************************************************************************)
(* Proofs about BeastDispatcher, for every number of invocations, every    *)
(* set of failing ones, and a resolver that fails or does not.             *)
(***************************************************************************)
EXTENDS BeastDispatcher, FiniteSetTheorems, TLAPS

-----------------------------------------------------------------------------
(***************************************************************************)
(* Sets of ids are finite.                                                 *)
(***************************************************************************)

LEMMA IdsAreFinite ==
  ASSUME NEW S \in SUBSET Id
  PROVE  IsFiniteSet(S) /\ Cardinality(S) \in Nat
<1>1. IsFiniteSet(Id)
  BY BeastAssumption, FS_Interval DEF Id
<1>2. QED BY <1>1, FS_Subset, FS_CardinalityType

-----------------------------------------------------------------------------
(***************************************************************************)
(* Types.                                                                  *)
(***************************************************************************)

\* Handing out an id keeps it, and the requests that exist, below m_next_id.
LEMMA NextIdTyped ==
  ASSUME TypeOK, m_next_id < MaxTasks
  PROVE  /\ m_next_id \in Id
         /\ m_next_id + 1 \in 0 .. MaxTasks
         /\ m_requests \union {m_next_id} \subseteq 0 .. (m_next_id + 1) - 1
         /\ calls \in 0 .. m_next_id + 1
BY BeastAssumption DEF TypeOK, Id

\* No step gives a variable a value out of its type.
LEMMA TypeStep == TypeOK /\ [Next]_vars => TypeOK'
<1> SUFFICES ASSUME TypeOK, [Next]_vars PROVE TypeOK'
  OBVIOUS
<1> USE DEF callVars, idVars
<1>1. CASE Dispatch
  <2>1. /\ m_next_id < MaxTasks
        /\ m_next_id' = m_next_id + 1
        /\ m_requests' = m_requests \union {m_next_id}
        /\ Submit(m_next_id)
        /\ UNCHANGED <<host, pc, stopped, resolver, callVars, m_finished,
                       targets, answer>>
    BY <1>1 DEF Dispatch
  <2>2. stage' \in [Id -> Stage]
    BY <2>1 DEF Submit, FirstStage, TypeOK, Stage
  <2>3. QED BY <2>1, <2>2, NextIdTyped DEF TypeOK
<1>2. CASE WaitOne
  <2>1. calls' \in 0 .. m_next_id
    BY <1>2 DEF WaitOne, TypeOK
  <2>2. QED BY <1>2, <2>1 DEF WaitOne, TypeOK
<1>3. ASSUME NEW i \in Id, WaitReturn(i) PROVE TypeOK'
  BY <1>3 DEF WaitReturn, TypeOK
<1>4. CASE Resolve
  BY <1>4 DEF Resolve, OnResolve, OnResolveFails, AfterHandler, TypeOK, Stage
<1>5. ASSUME NEW i \in Id, Handler(i) PROVE TypeOK'
  BY <1>5 DEF Handler, OnConnect, OnHandshake, OnWrite, OnRead,
     OnReadRefused, OnReadThrows, OnShutdown, Progress, AfterHandler, TypeOK,
     Stage
<1>6. ASSUME NEW i \in Id, OnFail(i) PROVE TypeOK'
  BY <1>6 DEF OnFail, Progress, AfterHandler, TypeOK, Stage
<1>7. CASE Destroy \/ Closed BY <1>7 DEF Destroy, Closed, TypeOK
<1>8. ASSUME NEW i \in Id, Serve(i) PROVE TypeOK'
  BY <1>8 DEF Serve, TypeOK, Answer
<1>9. CASE UNCHANGED vars BY <1>9 DEF vars, TypeOK
<1>10. QED
  BY <1>1, <1>2, <1>3, <1>4, <1>5, <1>6, <1>7, <1>8, <1>9 DEF Next, Ended

-----------------------------------------------------------------------------
(***************************************************************************)
(* The parts of the inductive invariant.                                   *)
(***************************************************************************)

\* The steps that move no session and book no result.
Quiet == WaitOne \/ Destroy \/ Closed \/ (\E i \in Id : Serve(i))
         \/ UNCHANGED vars

LEMMA QuietFrame ==
  Quiet => UNCHANGED <<stage, resolver, stopped, returned, m_next_id,
                       m_requests, m_finished, targets>>
BY DEF Quiet, WaitOne, Destroy, Closed, Serve, vars, callVars, idVars

\* What the handlers of a session, and its failures, do to the sessions: one
\* operation ends, and only the handler of a result books anything.
LEMMA SessionFrame ==
  ASSUME TypeOK, NEW i \in Id, Handler(i) \/ OnFail(i)
  PROVE  /\ Running /\ stopped' = ~Work'
         /\ stage[i] \in Operating
         /\ stage'[i] \in {"handshake", "write", "read", "shutdown", "closed"}
         /\ stage[i] = "shutdown" => stage'[i] = "closed"
         /\ \A j \in Id : j # i => stage'[j] = stage[j]
         /\ UNCHANGED <<resolver, m_next_id, m_requests, calls, returned>>
         /\ \/ OnRead(i)
            \/ UNCHANGED <<m_finished, targets>>
<1>1. CASE OnFail(i)
  BY <1>1 DEF OnFail, Progress, AfterHandler, Operating, TypeOK, callVars,
              idVars
<1>2. CASE Handler(i)
  BY <1>2 DEF Handler, OnConnect, OnHandshake, OnWrite, OnRead, OnReadRefused,
     OnReadThrows, OnShutdown, Progress, AfterHandler, Operating, TypeOK,
     callVars, idVars
<1>3. QED BY <1>1, <1>2

\* What a result's handler does.
LEMMA ReadFrame ==
  ASSUME TypeOK, NEW i \in Id, OnRead(i)
  PROVE  /\ stage[i] = "read"
         /\ stage' = [stage EXCEPT ![i] = "shutdown"]
         /\ m_finished' = m_finished \union {i}
         /\ targets' = targets \union {i}
         /\ UNCHANGED <<host, pc, returned>>
BY DEF OnRead, Progress, AfterHandler, callVars

\* What the resolver's handlers do.
LEMMA ResolveFrame ==
  ASSUME TypeOK, Resolve
  PROVE  /\ Running /\ stopped' = ~Work'
         /\ resolver = "resolving"
         /\ \/ resolver' = "failed" /\ stage' = stage
            \/ /\ resolver' = "resolved"
               /\ stage' = [i \in Id |-> IF stage[i] = "pending"
                                         THEN "connect" ELSE stage[i]]
         /\ UNCHANGED <<host, pc, calls, returned, m_next_id, m_requests,
                        m_finished, targets>>
BY DEF Resolve, OnResolve, OnResolveFails, AfterHandler, callVars, idVars

\* What dispatch_impl does: the next id gets its request and a session that
\* waits for the resolver, for its connection, or for nothing any more.
LEMMA DispatchFrame ==
  ASSUME TypeOK, Dispatch
  PROVE  /\ m_next_id \in Id /\ pc = "user"
         /\ m_next_id' = m_next_id + 1
         /\ m_requests' = m_requests \union {m_next_id}
         /\ \E first \in {"pending", "connect", "closed"} :
               /\ stage' = [stage EXCEPT ![m_next_id] = first]
               /\ first = "pending" => resolver # "resolved"
         /\ UNCHANGED <<host, pc, stopped, resolver, calls, returned,
                        m_finished, targets>>
<1>1. m_next_id < MaxTasks /\ Submit(m_next_id)
  BY DEF Dispatch
<1>2. m_next_id \in Id
  BY <1>1, NextIdTyped
<1>3. \E first \in {"pending", "connect", "closed"} :
         /\ stage' = [stage EXCEPT ![m_next_id] = first]
         /\ first = "pending" => resolver # "resolved"
  BY <1>1 DEF Submit, FirstStage
<1>4. QED BY <1>2, <1>3 DEF Dispatch, callVars

\* Every step is one of these, or wait_one returning.
LEMMA StepCases ==
  ASSUME [Next]_vars
  PROVE  \/ Quiet \/ Dispatch \/ Resolve
         \/ \E i \in Id : WaitReturn(i) \/ Handler(i) \/ OnFail(i)
BY DEF Next, Ended, Quiet

\* Ids are handed out one after the other.
LEMMA IdsStep == TypeOK /\ IdsInOrder /\ [Next]_vars => IdsInOrder'
<1> SUFFICES ASSUME TypeOK, IdsInOrder, [Next]_vars PROVE IdsInOrder'
  OBVIOUS
<1>1. CASE Quiet BY <1>1, QuietFrame DEF IdsInOrder
<1>2. CASE Dispatch
  <2>1. PICK first \in {"pending", "connect", "closed"} :
           stage' = [stage EXCEPT ![m_next_id] = first]
    BY <1>2, DispatchFrame
  <2>2. /\ m_next_id \in Id /\ m_next_id \in Nat
        /\ m_next_id' = m_next_id + 1
    BY <1>2, DispatchFrame, BeastAssumption DEF TypeOK
  <2>3. ASSUME NEW i \in Id PROVE stage'[i] = "none" <=> i >= m_next_id + 1
    <3>1. i \in Int BY DEF Id
    <3>2. CASE i = m_next_id BY <2>1, <2>2, <3>2 DEF TypeOK
    <3>3. CASE i # m_next_id
      <4>1. stage'[i] = stage[i] BY <2>1, <3>3 DEF TypeOK
      <4>2. QED BY <2>2, <3>1, <3>3, <4>1 DEF IdsInOrder
    <3>4. QED BY <3>2, <3>3
  <2>4. QED BY <2>2, <2>3 DEF IdsInOrder
<1>3. CASE Resolve BY <1>3, ResolveFrame DEF IdsInOrder
<1>4. ASSUME NEW i \in Id, Handler(i) \/ OnFail(i) PROVE IdsInOrder'
  <2>1. /\ stage[i] # "none" /\ stage'[i] # "none"
        /\ \A j \in Id : j # i => stage'[j] = stage[j]
        /\ m_next_id' = m_next_id
    BY <1>4, SessionFrame DEF Operating
  <2>2. QED BY <2>1 DEF IdsInOrder
<1>5. ASSUME NEW i \in Id, WaitReturn(i) PROVE IdsInOrder'
  BY <1>5 DEF WaitReturn, IdsInOrder
<1>6. QED BY <1>1, <1>2, <1>3, <1>4, <1>5, StepCases

\* A result is booked by one handler, and then only moved to the caller.
LEMMA BookedStep ==
  TypeOK /\ IdsInOrder /\ ResultsBooked /\ [Next]_vars => ResultsBooked'
<1> SUFFICES ASSUME TypeOK, IdsInOrder, ResultsBooked, [Next]_vars
             PROVE  ResultsBooked'
  OBVIOUS
<1>1. CASE Quiet BY <1>1, QuietFrame DEF ResultsBooked
<1>2. CASE Dispatch
  <2>1. PICK first \in {"pending", "connect", "closed"} :
           stage' = [stage EXCEPT ![m_next_id] = first]
    BY <1>2, DispatchFrame
  <2>2. /\ m_next_id \in Id /\ stage[m_next_id] = "none"
        /\ UNCHANGED <<targets, m_finished, returned>>
    BY <1>2, DispatchFrame DEF IdsInOrder, Id
  <2>3. QED BY <2>1, <2>2 DEF ResultsBooked, TypeOK
<1>3. CASE Resolve BY <1>3, ResolveFrame DEF ResultsBooked, TypeOK
<1>4. ASSUME NEW i \in Id, OnRead(i) PROVE ResultsBooked'
  <2>1. i \notin targets
    BY <1>4, ReadFrame DEF ResultsBooked
  <2>2. QED BY <1>4, <2>1, ReadFrame DEF ResultsBooked, TypeOK
<1>5. ASSUME NEW i \in Id, Handler(i) \/ OnFail(i), ~OnRead(i)
      PROVE  ResultsBooked'
  <2>1. /\ stage[i] \in Operating
        /\ stage[i] = "shutdown" => stage'[i] = "closed"
        /\ \A j \in Id : j # i => stage'[j] = stage[j]
        /\ UNCHANGED <<targets, m_finished, returned>>
    BY <1>5, SessionFrame
  <2>2. ASSUME NEW j \in targets PROVE stage'[j] \in {"shutdown", "closed"}
    <3>1. j \in Id /\ stage[j] \in {"shutdown", "closed"}
      BY DEF ResultsBooked, TypeOK
    <3>2. CASE j = i BY <2>1, <3>1, <3>2 DEF Operating
    <3>3. CASE j # i BY <2>1, <3>1, <3>3
    <3>4. QED BY <3>2, <3>3
  <2>3. QED BY <2>1, <2>2 DEF ResultsBooked
<1>6. ASSUME NEW i \in Id, WaitReturn(i) PROVE ResultsBooked'
  BY <1>6 DEF WaitReturn, ResultsBooked
<1>7. QED BY <1>1, <1>2, <1>3, <1>4, <1>5, <1>6, StepCases

\* Behind the resolver's callbacks no session waits for it.
LEMMA PendingStep == TypeOK /\ NonePending /\ [Next]_vars => NonePending'
<1> SUFFICES ASSUME TypeOK, NonePending, [Next]_vars PROVE NonePending'
  OBVIOUS
<1>1. CASE Quiet BY <1>1, QuietFrame DEF NonePending
<1>2. CASE Dispatch
  BY <1>2, DispatchFrame DEF NonePending, TypeOK
<1>3. CASE Resolve BY <1>3, ResolveFrame DEF NonePending
<1>4. ASSUME NEW i \in Id, Handler(i) \/ OnFail(i) PROVE NonePending'
  BY <1>4, SessionFrame DEF NonePending
<1>5. ASSUME NEW i \in Id, WaitReturn(i) PROVE NonePending'
  BY <1>5 DEF WaitReturn, NonePending
<1>6. QED BY <1>1, <1>2, <1>3, <1>4, <1>5, StepCases

\* A call of wait_one returns one id at most, and one it has not returned yet.
LEMMA CallsStep ==
  TypeOK /\ ResultsBooked /\ CallsCounted /\ [Next]_vars => CallsCounted'
<1> SUFFICES ASSUME TypeOK, ResultsBooked, CallsCounted, [Next]_vars
             PROVE  CallsCounted'
  OBVIOUS
<1>0. IsFiniteSet(returned) /\ Cardinality(returned) \in Nat /\ calls \in Nat
  BY IdsAreFinite DEF TypeOK
<1>1. CASE WaitOne
  BY <1>0, <1>1 DEF WaitOne, CallsCounted
<1>2. ASSUME NEW i \in Id, WaitReturn(i) PROVE CallsCounted'
  <2>1. /\ pc = "waiting" /\ pc' = "user" /\ calls' = calls
        /\ returned' = returned \union {i} /\ i \notin returned
    BY <1>2 DEF WaitReturn, ResultsBooked
  <2>2. Cardinality(returned') = Cardinality(returned) + 1
    BY <1>0, <2>1, FS_AddElement
  <2>3. QED BY <1>0, <2>1, <2>2 DEF CallsCounted
<1>3. ASSUME UNCHANGED <<returned, calls>>,
             pc' = "waiting" => pc = "waiting"
      PROVE  CallsCounted'
  BY <1>0, <1>3 DEF CallsCounted
<1>4. CASE Quiet /\ ~WaitOne
  BY <1>3, <1>4 DEF Quiet, Destroy, Closed, Serve, vars, callVars
<1>5. CASE Dispatch BY <1>3, <1>5, DispatchFrame
<1>6. CASE Resolve BY <1>3, <1>6, ResolveFrame
<1>7. ASSUME NEW i \in Id, Handler(i) \/ OnFail(i) PROVE CallsCounted'
  <2>1. pc' = pc \/ pc' = "user"
    BY <1>7 DEF Handler, OnConnect, OnHandshake, OnWrite, OnRead,
       OnReadRefused, OnReadThrows, OnShutdown, OnFail
  <2>2. QED BY <1>3, <1>7, <2>1, SessionFrame
<1>8. QED BY <1>1, <1>2, <1>4, <1>5, <1>6, <1>7, StepCases

\* An invocation that is lost stays lost: nothing is submitted again.
LEMMA LostStays ==
  ASSUME TypeOK, IdsInOrder, [Next]_vars, NEW i \in Id, Lost(i)
  PROVE  Lost(i)'
<1>1. CASE Quiet BY <1>1, QuietFrame DEF Lost
<1>2. CASE Dispatch
  <2>1. stage[m_next_id] = "none" /\ m_next_id \in Id
    BY <1>2, DispatchFrame DEF IdsInOrder, Id
  <2>2. QED BY <1>2, <2>1, DispatchFrame DEF Lost, TypeOK
<1>3. CASE Resolve BY <1>3, ResolveFrame DEF Lost, TypeOK
<1>4. ASSUME NEW j \in Id, Handler(j) \/ OnFail(j) PROVE Lost(i)'
  <2>1. i # j
    BY <1>4, SessionFrame DEF Lost, Operating
  <2>2. stage'[i] = stage[i] /\ (i \in targets' => i \in targets)
    BY <1>4, <2>1, SessionFrame, ReadFrame
  <2>3. QED BY <2>2 DEF Lost
<1>5. ASSUME NEW j \in Id, WaitReturn(j) PROVE Lost(i)'
  BY <1>5 DEF WaitReturn, Lost
<1>6. QED BY <1>1, <1>2, <1>3, <1>4, <1>5, StepCases

\* A caller in wait_one waits for something: when every session has run to its
\* end, and no result waits in m_finished, some invocation is lost.
Exhausted == /\ pc = "waiting"
             /\ m_finished = {}
             /\ \A i \in Id : stage[i] \in {"none", "closed"}

LEMMA WaitsForOne ==
  TypeOK /\ IdsInOrder /\ ResultsBooked /\ CallsCounted /\ Exhausted
    => \E i \in Id : Lost(i)
<1> SUFFICES ASSUME TypeOK, IdsInOrder, ResultsBooked, CallsCounted,
                    Exhausted, \A i \in Id : ~Lost(i)
             PROVE  FALSE
  OBVIOUS
<1> USE DEF Exhausted
<1>1. m_next_id \in 0 .. MaxTasks /\ calls \in 0 .. m_next_id
  BY DEF TypeOK
<1>2. 0 .. m_next_id - 1 \subseteq returned
  <2> SUFFICES ASSUME NEW i \in 0 .. m_next_id - 1 PROVE i \in returned
    OBVIOUS
  <2>1. i \in Id /\ ~(i >= m_next_id)
    BY <1>1, BeastAssumption DEF Id
  <2>2. stage[i] = "closed"
    BY <2>1 DEF IdsInOrder
  <2>3. i \in targets
    BY <2>1, <2>2 DEF Lost
  <2>4. QED BY <2>3 DEF ResultsBooked
<1>3. IsFiniteSet(returned) /\ Cardinality(returned) \in Nat
  BY IdsAreFinite DEF TypeOK
<1>4. Cardinality(0 .. m_next_id - 1) = m_next_id
  BY <1>1, FS_Interval, BeastAssumption
<1>5. m_next_id <= Cardinality(returned)
  BY <1>2, <1>3, <1>4, FS_Subset
<1>6. Cardinality(returned) + 1 <= calls
  BY DEF CallsCounted
<1>7. QED BY <1>1, <1>3, <1>5, <1>6

\* The same of the state behind a step.
LEMMA WaitsForOneAfter ==
  (TypeOK /\ IdsInOrder /\ ResultsBooked /\ CallsCounted /\ Exhausted
     => \E i \in Id : Lost(i))'
BY WaitsForOne, PTL

\* The io_context stops in wait_one only when an invocation is lost or the host
\* name did not resolve.
LEMMA StoppedStep ==
  /\ TypeOK /\ IdsInOrder /\ ResultsBooked /\ NonePending /\ CallsCounted
  /\ StoppedForAReason
  /\ TypeOK' /\ IdsInOrder' /\ ResultsBooked' /\ NonePending' /\ CallsCounted'
  /\ [Next]_vars
  => StoppedForAReason'
<1> SUFFICES ASSUME TypeOK, IdsInOrder, ResultsBooked, NonePending,
                    CallsCounted, StoppedForAReason, TypeOK', IdsInOrder',
                    ResultsBooked', NonePending', CallsCounted', [Next]_vars
             PROVE  StoppedForAReason'
  OBVIOUS
<1>1. CASE stopped
  <2>1. /\ resolver = "failed" => resolver' = "failed"
        /\ stopped => Quiet \/ Dispatch \/ \E i \in Id : WaitReturn(i)
    BY StepCases, QuietFrame, DispatchFrame, ResolveFrame, SessionFrame
    DEF WaitReturn, Running
  <2>2. pc \in {"closing", "destroyed"} => pc' \in {"closing", "destroyed"}
    BY <1>1, <2>1 DEF Quiet, WaitOne, Destroy, Closed, Serve, vars, Dispatch,
       WaitReturn
  <2>3. QED BY <1>1, <2>1, <2>2, LostStays DEF StoppedForAReason
<1>2. CASE ~stopped /\ stopped'
  <2>1. /\ Running /\ ~Work'
        /\ Resolve \/ \E i \in Id : Handler(i) \/ OnFail(i)
    <3>1. ~(Quiet \/ Dispatch \/ \E i \in Id : WaitReturn(i))
      BY <1>2, QuietFrame, DispatchFrame DEF WaitReturn
    <3>2. QED BY <1>2, <3>1, StepCases, ResolveFrame, SessionFrame
  <2>2. CASE pc' # "waiting"
    <3>1. CASE pc' \in {"closing", "destroyed"}
      BY <3>1 DEF StoppedForAReason
    <3>2. CASE pc' = "user"
      <4>1. PICK i \in Id : OnReadThrows(i)
        BY <2>1, <3>2, ResolveFrame DEF Running, Handler, OnConnect,
           OnHandshake, OnWrite, OnRead, OnReadRefused, OnShutdown, OnFail
      <4>2. stage[i] = "read" /\ stage'[i] = "closed" /\ targets' = targets
        BY <4>1 DEF OnReadThrows, Progress, TypeOK, idVars
      <4>3. Lost(i)'
        BY <4>2 DEF Lost, ResultsBooked
      <4>4. QED BY <4>3 DEF StoppedForAReason
    <3>3. QED BY <2>2, <3>1, <3>2 DEF TypeOK
  <2>3. CASE pc' = "waiting" /\ resolver' # "failed"
    <3>1. resolver' = "resolved"
      BY <2>1, <2>3 DEF Work, TypeOK
    <3>2. \A i \in Id : stage'[i] \in {"none", "closed"}
      BY <2>1, <3>1 DEF Work, NonePending, Operating, TypeOK, Stage
    <3>3. pc = "waiting" /\ m_finished = {}
      BY <2>1, <2>3, ResolveFrame DEF Running, Handler, OnConnect,
         OnHandshake, OnWrite, OnRead, OnReadRefused, OnReadThrows,
         OnShutdown, OnFail
    <3>4. \A i \in Id : ~OnRead(i)
      BY <3>2, ReadFrame DEF TypeOK
    <3>5. m_finished' = {}
      BY <2>1, <3>3, <3>4, ResolveFrame, SessionFrame
    <3>6. (\E i \in Id : Lost(i))'
      BY <2>3, <3>2, <3>5, WaitsForOneAfter DEF Exhausted
    <3>7. QED BY <3>6 DEF StoppedForAReason
  <2>4. QED BY <2>2, <2>3 DEF StoppedForAReason
<1>3. CASE ~stopped' BY <1>3 DEF StoppedForAReason
<1>4. QED BY <1>1, <1>2, <1>3 DEF TypeOK

\* A request is destroyed when its session has nothing left to call back.
LEMMA OutlivesStep ==
  /\ TypeOK /\ IdsInOrder /\ ResultsBooked /\ RequestOutlivesCallback
  /\ [Next]_vars
  => RequestOutlivesCallback'
<1> SUFFICES ASSUME TypeOK, IdsInOrder, ResultsBooked,
                    RequestOutlivesCallback, [Next]_vars
             PROVE  RequestOutlivesCallback'
  OBVIOUS
<1>1. CASE Quiet BY <1>1, QuietFrame DEF RequestOutlivesCallback
<1>2. CASE Dispatch
  <2>1. /\ m_requests' = m_requests \union {m_next_id}
        /\ \A j \in Id : j # m_next_id => stage'[j] = stage[j]
    BY <1>2, DispatchFrame DEF TypeOK
  <2>2. QED BY <2>1 DEF RequestOutlivesCallback
<1>3. CASE Resolve BY <1>3, ResolveFrame DEF RequestOutlivesCallback
<1>4. ASSUME NEW i \in Id, Handler(i) \/ OnFail(i)
      PROVE  RequestOutlivesCallback'
  BY <1>4, SessionFrame DEF RequestOutlivesCallback, Operating
<1>5. ASSUME NEW i \in Id, WaitReturn(i) PROVE RequestOutlivesCallback'
  <2>1. /\ m_requests' = m_requests \ {i} /\ stage' = stage
        /\ i \in m_finished
    BY <1>5 DEF WaitReturn
  <2>2. stage[i] \in {"shutdown", "closed"}
    BY <2>1 DEF ResultsBooked
  <2>3. QED BY <2>1, <2>2 DEF RequestOutlivesCallback
<1>6. QED BY <1>1, <1>2, <1>3, <1>4, <1>5, StepCases

-----------------------------------------------------------------------------
(***************************************************************************)
(* The invariant and what follows from it.                                 *)
(***************************************************************************)

LEMMA InitInvariant == Init => IInv
<1> SUFFICES ASSUME Init PROVE IInv
  OBVIOUS
<1>1. TypeOK
  <2>1. 0 \in 0 .. MaxTasks /\ 0 \in 0 .. 0
    BY BeastAssumption
  <2>2. QED BY <2>1 DEF Init, TypeOK, Stage, Answer
<1>2. Cardinality({}) = 0
  BY FS_EmptySet
<1>3. CallsCounted
  BY <1>2 DEF Init, CallsCounted
<1>4. IdsInOrder
  BY DEF Init, IdsInOrder, Id
<1>5. ResultsBooked /\ NonePending
  BY DEF Init, ResultsBooked, NonePending
<1>6. StoppedForAReason /\ RequestOutlivesCallback
  BY DEF Init, StoppedForAReason, RequestOutlivesCallback
<1>7. QED BY <1>1, <1>3, <1>4, <1>5, <1>6 DEF IInv

\* The inductive invariant of the HTTP/1.1 dispatcher holds in every reachable
\* state.
THEOREM Invariance == Spec => []IInv
<1>1. IInv /\ [Next]_vars => IInv'
  BY TypeStep, IdsStep, BookedStep, PendingStep, CallsStep, StoppedStep,
     OutlivesStep DEF IInv
<1>2. QED BY InitInvariant, <1>1, PTL DEF Spec

\* Every reachable state is well typed; in particular no request object exists
\* under an id that was not handed out.
THEOREM TypeCorrect == Spec => []TypeOK
BY Invariance, PTL DEF IInv

\* No request object is destroyed while a callback of its HTTP session, which
\* holds a reference to it, may still run.
THEOREM RequestsOutliveCallbacks == Spec => []RequestOutlivesCallback
BY Invariance, PTL DEF IInv

\* The io_context runs out of work under a waiting caller only when an
\* invocation is lost or the host name did not resolve.
THEOREM StopsOnlyForLoss == Spec => []NeverStopsUnderCaller
<1>1. IInv => NeverStopsUnderCaller
  BY DEF IInv, StoppedForAReason, Lost, NeverStopsUnderCaller
<1>2. QED BY Invariance, <1>1, PTL

-----------------------------------------------------------------------------
(***************************************************************************)
(* The HTTP/1.1 dispatcher implements the safety half of Dispatcher:       *)
(* dispatch_impl issues, the handler of a result completes, wait_one's     *)
(* return returns, an exception in the destructor and the destructor's end *)
(* stop.  Every other step stutters.                                       *)
(***************************************************************************)

LEMMA StepRefines == IInv /\ [Next]_vars => [Promise!Next]_(Promise!vars)
<1> SUFFICES ASSUME IInv, [Next]_vars PROVE [Promise!Next]_(Promise!vars)
  OBVIOUS
<1>0. TypeOK /\ IdsInOrder /\ ResultsBooked
  BY DEF IInv
<1> DEFINE Issued == {j \in Id : stage[j] # "none"}
<1>1. CASE host = "alive" /\ Dispatch
  <2>1. /\ m_next_id \in Id /\ stage[m_next_id] = "none" /\ pc = "user"
        /\ UNCHANGED <<host, pc, m_finished, returned>>
    BY <1>0, <1>1, DispatchFrame DEF IdsInOrder, Id
  <2>2. PICK first \in {"pending", "connect", "closed"} :
           stage' = [stage EXCEPT ![m_next_id] = first]
    BY <1>0, <1>1, DispatchFrame
  <2>3. PICK i \in Id : i = m_next_id
    BY <2>1
  <2>4. Issued' = Issued \union {i}
    BY <1>0, <2>2, <2>3 DEF TypeOK
  <2>5. Promise!Issue(i)
    BY <1>1, <2>1, <2>3, <2>4 DEF Promise!Issue
  <2>6. QED BY <2>5 DEF Promise!Next
<1>2. ASSUME NEW i \in Id, host = "alive", OnRead(i)
      PROVE  [Promise!Next]_(Promise!vars)
  <2>1. /\ stage[i] = "read" /\ pc # "destroyed"
        /\ stage' = [stage EXCEPT ![i] = "shutdown"]
        /\ m_finished' = m_finished \union {i}
        /\ UNCHANGED <<host, pc, returned>>
    BY <1>0, <1>2, ReadFrame DEF OnRead, Progress, Running
  <2>2. i \notin m_finished \union returned
    BY <1>0, <2>1 DEF ResultsBooked
  <2>3. Issued' = Issued
    BY <1>0, <2>1 DEF TypeOK
  <2>4. Promise!Complete(i)
    BY <1>2, <2>1, <2>2, <2>3 DEF Promise!Complete
  <2>5. QED BY <2>4 DEF Promise!Next
<1>3. ASSUME NEW i \in Id, host = "alive", WaitReturn(i)
      PROVE  [Promise!Next]_(Promise!vars)
  <2>1. /\ i \in m_finished /\ pc = "waiting" /\ pc' = "user"
        /\ m_finished' = m_finished \ {i}
        /\ returned' = returned \union {i}
        /\ UNCHANGED <<host, stage>>
    BY <1>3 DEF WaitReturn
  <2>2. i \notin returned
    BY <1>0, <2>1 DEF ResultsBooked
  <2>3. (m_finished \union returned)' = m_finished \union returned
    BY <2>1
  <2>4. Promise!Return(i)
    BY <1>3, <2>1, <2>2, <2>3 DEF Promise!Return
  <2>5. QED BY <2>4 DEF Promise!Next
<1>4. ASSUME Issued' = Issued, UNCHANGED <<m_finished, returned>>,
             host = "alive", pc # "destroyed"
      PROVE  [Promise!Next]_(Promise!vars)
  <2>1. CASE host' = "alive" /\ pc' # "destroyed"
    BY <1>4, <2>1 DEF Promise!vars
  <2>2. CASE ~(host' = "alive" /\ pc' # "destroyed")
    <3>1. Promise!Stop BY <1>4, <2>2 DEF Promise!Stop
    <3>2. QED BY <3>1 DEF Promise!Next
  <2>3. QED BY <2>1, <2>2
<1>5. ASSUME NEW i \in Id, host = "alive", Handler(i) \/ OnFail(i), ~OnRead(i)
      PROVE  [Promise!Next]_(Promise!vars)
  <2>1. /\ stage[i] # "none" /\ stage'[i] # "none"
        /\ \A j \in Id : j # i => stage'[j] = stage[j]
        /\ UNCHANGED <<m_finished, returned>>
        /\ pc # "destroyed"
    BY <1>0, <1>5, SessionFrame DEF Operating, Running
  <2>2. Issued' = Issued
    BY <2>1
  <2>3. QED BY <1>4, <1>5, <2>1, <2>2
<1>6. CASE host = "alive" /\ Resolve
  <2>1. /\ pc # "destroyed" /\ UNCHANGED <<m_finished, returned>>
        /\ \A j \in Id : stage'[j] = "none" <=> stage[j] = "none"
    BY <1>0, <1>6, ResolveFrame DEF Running
  <2>2. Issued' = Issued
    BY <2>1
  <2>3. QED BY <1>4, <1>6, <2>1, <2>2
<1>7. CASE host = "alive" /\ (WaitOne \/ Destroy \/ Closed)
  <2>1. pc # "destroyed" /\ UNCHANGED <<stage, m_finished, returned>>
    BY <1>7, QuietFrame DEF WaitOne, Destroy, Closed, Quiet
  <2>2. QED BY <1>4, <1>7, <2>1
<1>8. ASSUME NEW i \in Id, Serve(i) PROVE UNCHANGED Promise!vars
  BY <1>8 DEF Serve, callVars, idVars, Promise!vars
<1>9. CASE UNCHANGED vars BY <1>9 DEF vars, callVars, idVars, Promise!vars
<1>10. QED
  BY <1>1, <1>2, <1>3, <1>5, <1>6, <1>7, <1>8, <1>9 DEF Next, Ended

\* Every behaviour of the HTTP/1.1 dispatcher, with all faults, is one the
\* promise allows.
THEOREM ImplementsDispatcher == Spec => KeepsPromise
<1>1. Init => Promise!Init
  BY DEF Init, Promise!Init
<1>2. QED BY <1>1, Invariance, StepRefines, PTL
          DEF Spec, KeepsPromise, Promise!Safe
=============================================================================
