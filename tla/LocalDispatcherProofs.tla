------------------------ MODULE LocalDispatcherProofs ------------------------
(***************************************************************************)
(* Proofs about LocalDispatcher, for every number of tasks, every pipe     *)
(* capacity, every result size and every set of failing tasks.             *)
(***************************************************************************)
EXTENDS LocalDispatcher, SequencesExt, SequenceTheorems, TLAPS

-----------------------------------------------------------------------------
(* What push_back, back and pop_back do to the elements of a vector. *)

\* push_back adds one element.
LEMMA PushElements ==
  ASSUME NEW S, NEW s \in Seq(S), NEW e \in S
  PROVE  /\ Append(s, e) \in Seq(S)
         /\ ToSet(Append(s, e)) = ToSet(s) \union {e}
         /\ IsInjective(s) /\ e \notin ToSet(s) => IsInjective(Append(s, e))
<1>1. /\ Append(s, e) \in Seq(S)
      /\ Len(s) \in Nat
      /\ DOMAIN s = 1 .. Len(s)
      /\ DOMAIN Append(s, e) = 1 .. Len(s) + 1
      /\ \A k \in 1 .. Len(s) : Append(s, e)[k] = s[k]
      /\ Append(s, e)[Len(s) + 1] = e
  BY LenProperties
<1>2. 1 .. Len(s) + 1 = (1 .. Len(s)) \union {Len(s) + 1}
  BY <1>1
<1>3. ToSet(Append(s, e)) = ToSet(s) \union {e}
  <2>1. ToSet(Append(s, e)) \subseteq ToSet(s) \union {e}
    BY <1>1, <1>2 DEF ToSet
  <2>2. ASSUME NEW x \in ToSet(s) \union {e} PROVE x \in ToSet(Append(s, e))
    <3>1. CASE x = e BY <1>1, <1>2, <3>1 DEF ToSet
    <3>2. CASE x \in ToSet(s)
      <4>1. PICK k \in 1 .. Len(s) : x = s[k] BY <1>1, <3>2 DEF ToSet
      <4>2. k \in DOMAIN Append(s, e) /\ Append(s, e)[k] = x
        BY <1>1, <1>2, <4>1
      <4>3. QED BY <4>2 DEF ToSet
    <3>3. QED BY <3>1, <3>2
  <2>3. QED BY <2>1, <2>2
<1>4. ASSUME IsInjective(s), e \notin ToSet(s)
      PROVE  IsInjective(Append(s, e))
  <2>1. \A k \in 1 .. Len(s) : s[k] # e
    BY <1>1, <1>4 DEF ToSet
  <2>2. QED BY <1>1, <1>2, <1>4, <2>1 DEF IsInjective
<1>5. QED BY <1>1, <1>3, <1>4

\* back and pop_back take exactly one element away, when there are no
\* duplicates.
LEMMA PopElements ==
  ASSUME NEW S, NEW s \in Seq(S), s # <<>>
  PROVE  /\ Front(s) \in Seq(S)
         /\ Last(s) \in S
         /\ Last(s) \in ToSet(s)
         /\ ToSet(Front(s)) \subseteq ToSet(s)
         /\ IsInjective(s) => /\ IsInjective(Front(s))
                              /\ ToSet(Front(s)) = ToSet(s) \ {Last(s)}
<1>1. /\ Len(s) \in Nat \ {0}
      /\ DOMAIN s = 1 .. Len(s)
      /\ \A k \in 1 .. Len(s) : s[k] \in S
  BY EmptySeq, LenProperties, ElementOfSeq
<1>2. Last(s) \in S /\ Last(s) \in ToSet(s)
  BY <1>1 DEF Last, ToSet
<1>3. /\ Front(s) \in Seq(S)
      /\ Len(Front(s)) = Len(s) - 1
      /\ \A k \in 1 .. Len(s) - 1 : Front(s)[k] = s[k]
  BY <1>1, SubSeqProperties DEF Front
<1>4. DOMAIN Front(s) = 1 .. Len(s) - 1
  BY <1>3, LenProperties
<1>5. 1 .. Len(s) = (1 .. Len(s) - 1) \union {Len(s)}
  BY <1>1
<1>6. ASSUME IsInjective(s)
      PROVE  /\ IsInjective(Front(s))
             /\ ToSet(Front(s)) = ToSet(s) \ {Last(s)}
  <2>1. IsInjective(Front(s))
    BY <1>1, <1>3, <1>4, <1>6 DEF IsInjective
  <2>2. \A k \in 1 .. Len(s) - 1 : s[k] # s[Len(s)]
    BY <1>1, <1>6 DEF IsInjective
  <2>3. ToSet(Front(s)) = {s[k] : k \in 1 .. Len(s) - 1}
    BY <1>3, <1>4 DEF ToSet
  <2>4. ToSet(s) = {s[k] : k \in 1 .. Len(s) - 1} \union {s[Len(s)]}
    BY <1>1, <1>5 DEF ToSet
  <2>5. QED BY <2>1, <2>2, <2>3, <2>4 DEF Last
<1>7. ToSet(Front(s)) \subseteq ToSet(s)
  <2>1. \A k \in DOMAIN Front(s) : k \in DOMAIN s /\ Front(s)[k] = s[k]
    BY <1>1, <1>3, <1>4, <1>5
  <2> QED BY <2>1 DEF ToSet
<1>8. QED BY <1>2, <1>3, <1>6, <1>7

-----------------------------------------------------------------------------
(***************************************************************************)
(* The variables always have their types, and no result pipe ever holds    *)
(* more than its capacity.                                                 *)
(***************************************************************************)
\* One unit more in a pipe that is not full, one unit less in one that is
\* not empty: the pipe's bound holds.
LEMMA StepUp ==
  ASSUME NEW s \in Nat, NEW g \in Nat, NEW cap \in Nat,
         s - g \in 0 .. cap, s - g < cap
  PROVE  (s + 1) - g \in 0 .. cap
OBVIOUS
LEMMA StepDown ==
  ASSUME NEW s \in Nat, NEW g \in Nat, NEW cap \in Nat,
         s - g \in 0 .. cap, s - g > 0
  PROVE  s - (g + 1) \in 0 .. cap
OBVIOUS

\* No step gives a variable a value out of its type.
LEMMA TypeStep == TypeOK /\ [Next]_vars => TypeOK'
<1> SUFFICES ASSUME TypeOK, [Next]_vars PROVE TypeOK'
  OBVIOUS
<1> USE DEF Go, TypeOK, InPipe, CallerStage, ChildStage, WorkerStage,
        callerVars, dispVars, waitVars,
        syncVars, childVars, workerVars
<1>1. CASE DispatchStep
  <2>1. CASE Dispatch
    <3>1. cur' \in Id /\ m_next_id' \in 0 .. MaxTasks
      BY <2>1, BoundsAssumption DEF Dispatch, Id
    <3>2. QED BY <2>1, <3>1 DEF Dispatch
  <2>2. CASE DispatchLock BY <2>2 DEF DispatchLock
  <2>3. CASE ForkFails BY <2>3 DEF ForkFails
  <2>4. CASE Fork BY <2>4 DEF Fork
  <2>5. CASE WriteInput BY <2>5 DEF WriteInput
  <2>6. CASE WriteInputToDeadChild BY <2>6 DEF WriteInputToDeadChild
  <2>7. CASE StartThread BY <2>7 DEF StartThread
  <2>8. CASE PushThread BY <2>8 DEF PushThread
  <2>9. CASE StartThreadFails BY <2>9 DEF StartThreadFails
  <2>10. QED
    BY <1>1, <2>1, <2>2, <2>3, <2>4, <2>5, <2>6, <2>7, <2>8, <2>9
    DEF DispatchStep
<1>2. CASE WaitStep
  <2>1. CASE WaitOne BY <2>1 DEF WaitOne
  <2>2. CASE WaitLock BY <2>2 DEF WaitLock
  <2>3. CASE TakeFinished BY <2>3, PopElements, PushElements DEF TakeFinished
  <2>4. CASE Sleep BY <2>4 DEF Sleep
  <2>5. CASE SpuriousWakeup BY <2>5 DEF SpuriousWakeup
  <2>6. QED BY <1>2, <2>1, <2>2, <2>3, <2>4, <2>5 DEF WaitStep
<1>3. CASE DestroyStep BY <1>3 DEF DestroyStep, Destroy, Joined
<1>4. ASSUME NEW i \in Id, ChildNext(i) PROVE TypeOK'
  <2>1. CASE WriteResult(i)
    <3>1. /\ sent' = [sent EXCEPT ![i] = sent[i] + 1] /\ got' = got
          /\ sent[i] - got[i] < PipeCapacity
      BY <2>1 DEF WriteResult, ChildStep
    <3>2. sent' \in [Id -> Nat]
      BY <3>1
    <3>3. ASSUME NEW j \in Id PROVE sent'[j] - got'[j] \in 0 .. PipeCapacity
      <4>1. sent[j] \in Nat /\ got[j] \in Nat
            /\ sent[j] - got[j] \in 0 .. PipeCapacity
        OBVIOUS
      <4>2. CASE j = i
        <5>1. sent'[j] = sent[j] + 1 /\ got'[j] = got[j]
          BY <3>1, <4>2
        <5>2. PipeCapacity \in Nat /\ sent[j] - got[j] < PipeCapacity
          BY <3>1, <4>2, BoundsAssumption
        <5> HIDE DEF TypeOK
        <5>3. QED BY <4>1, <5>1, <5>2, StepUp
      <4>3. CASE j # i BY <3>1, <4>1, <4>3
      <4>4. QED BY <4>2, <4>3
    <3>4. /\ child' = [child EXCEPT ![i] = "writing"]
          /\ UNCHANGED <<host, callerVars, dispVars, waitVars, syncVars,
              workerVars, fed>>
      BY <2>1 DEF WriteResult, ChildStep
    <3>5. QED BY <3>2, <3>3, <3>4
  <2>2. CASE ~WriteResult(i)
    BY <1>4, <2>2 DEF ChildNext, ChildStep, Exec, ExecFails, ReadInput, Run,
                      Exit, Crash
  <2>3. QED BY <2>1, <2>2
<1>5. ASSUME NEW i \in Id, WorkerNext(i) PROVE TypeOK'
  <2>1. CASE ReadUnit(i)
    <3>1. /\ got' = [got EXCEPT ![i] = got[i] + 1] /\ sent' = sent
          /\ sent[i] - got[i] > 0
      BY <2>1 DEF ReadUnit
    <3>2. got' \in [Id -> Nat]
      BY <3>1
    <3>3. ASSUME NEW j \in Id PROVE sent'[j] - got'[j] \in 0 .. PipeCapacity
      <4>1. sent[j] \in Nat /\ got[j] \in Nat
            /\ sent[j] - got[j] \in 0 .. PipeCapacity
        OBVIOUS
      <4>2. CASE j = i
        <5>1. got'[j] = got[j] + 1 /\ sent'[j] = sent[j]
          BY <3>1, <4>2
        <5>2. PipeCapacity \in Nat /\ sent[j] - got[j] > 0
          BY <3>1, <4>2, BoundsAssumption
        <5> HIDE DEF TypeOK
        <5>3. QED BY <4>1, <5>1, <5>2, StepDown
      <4>3. CASE j # i BY <3>1, <4>1, <4>3
      <4>4. QED BY <4>2, <4>3
    <3>4. UNCHANGED <<host, callerVars, dispVars, waitVars, syncVars,
        childVars, worker, targets>>
      BY <2>1 DEF ReadUnit
    <3>5. QED BY <3>2, <3>3, <3>4
  <2>2. CASE CallbackPush(i) BY <2>2, PushElements DEF CallbackPush, WorkerStep
  <2>3. CASE WaitPidFails(i) BY <2>3 DEF WaitPidFails
  <2>4. CASE WaitPid(i) \/ ReadDone(i)
    BY <2>4 DEF WaitPid, ReadDone, WorkerStep
  <2>5. CASE CallbackLock(i) \/ CallbackSet(i) \/ CallbackUnlock(i)
    BY <2>5 DEF CallbackLock, CallbackSet, CallbackUnlock, WorkerStep
  <2>6. CASE CallbackNotify(i) BY <2>6 DEF CallbackNotify, WorkerStep
  <2>7. QED BY <1>5, <2>1, <2>2, <2>3, <2>4, <2>5, <2>6 DEF WorkerNext
<1>6. CASE UNCHANGED vars BY <1>6 DEF vars
<1>7. QED BY <1>1, <1>2, <1>3, <1>4, <1>5, <1>6 DEF Next, Stopped

\* Every reachable state of the local dispatcher is well typed; in particular
\* a child never has more of its result in the pipe than the pipe holds.
THEOREM TypeCorrect == Spec => []TypeOK
<1>1. Init => TypeOK
  BY BoundsAssumption, TasksAssumption
  DEF Init, TypeOK, Id, Free, Main, InPipe, CallerStage, ChildStage,
      WorkerStage
<1>2. QED BY <1>1, TypeStep, PTL DEF Spec

-----------------------------------------------------------------------------
(***************************************************************************)
(* The parts of the inductive invariant, one lemma each.                   *)
(***************************************************************************)

\* The names of the lock's states are no task ids.
LEMMA HolderNames == Free \notin Id /\ Main \notin Id /\ Free # Main
BY BoundsAssumption DEF Free, Main, Id

\* m_mutex is always held by the one thread between lock and unlock.
LEMMA LockStep == TypeOK /\ LockHolder /\ [Next]_vars => LockHolder'
<1> SUFFICES ASSUME TypeOK, LockHolder, [Next]_vars PROVE LockHolder'
  OBVIOUS
<1> USE HolderNames DEF Go, TypeOK, LockHolder, CallerStage, ChildStage,
        WorkerStage, callerVars, dispVars, waitVars, syncVars, childVars,
            workerVars
<1>1. CASE DispatchStep
  <2>1. CASE Dispatch BY <2>1 DEF Dispatch
  <2>2. CASE DispatchLock BY <2>2 DEF DispatchLock
  <2>3. CASE ForkFails BY <2>3 DEF ForkFails
  <2>4. CASE Fork BY <2>4 DEF Fork
  <2>5. CASE WriteInput BY <2>5 DEF WriteInput
  <2>6. CASE WriteInputToDeadChild BY <2>6 DEF WriteInputToDeadChild
  <2>7. CASE StartThread BY <2>7 DEF StartThread
  <2>8. CASE PushThread BY <2>8 DEF PushThread
  <2>9. CASE StartThreadFails BY <2>9 DEF StartThreadFails
  <2>10. QED
    BY <1>1, <2>1, <2>2, <2>3, <2>4, <2>5, <2>6, <2>7, <2>8, <2>9
    DEF DispatchStep
<1>2. CASE WaitStep
  <2>1. CASE WaitOne BY <2>1 DEF WaitOne
  <2>2. CASE WaitLock BY <2>2 DEF WaitLock
  <2>3. CASE TakeFinished BY <2>3 DEF TakeFinished
  <2>4. CASE Sleep BY <2>4 DEF Sleep
  <2>5. CASE SpuriousWakeup BY <2>5 DEF SpuriousWakeup
  <2>6. QED BY <1>2, <2>1, <2>2, <2>3, <2>4, <2>5 DEF WaitStep
<1>3. CASE DestroyStep BY <1>3 DEF DestroyStep, Destroy, Joined
<1>4. ASSUME NEW i \in Id, ChildNext(i) PROVE LockHolder'
  BY <1>4 DEF ChildNext, ChildStep, Exec, ExecFails, ReadInput, Run,
              WriteResult, Exit, Crash
<1>5. ASSUME NEW i \in Id, WorkerNext(i) PROVE LockHolder'
  <2>1. CASE ReadUnit(i) \/ WaitPidFails(i)
    BY <2>1 DEF ReadUnit, WaitPidFails
  <2>2. CASE WaitPid(i) \/ ReadDone(i)
    BY <2>2 DEF WaitPid, ReadDone, WorkerStep
  <2>3. CASE CallbackLock(i) BY <2>3 DEF CallbackLock, WorkerStep
  <2>4. CASE CallbackSet(i) \/ CallbackPush(i) \/ CallbackNotify(i)
    BY <2>4 DEF CallbackSet, CallbackPush, CallbackNotify, WorkerStep
  <2>5. CASE CallbackUnlock(i) BY <2>5 DEF CallbackUnlock, WorkerStep
  <2>6. QED BY <1>5, <2>1, <2>2, <2>3, <2>4, <2>5 DEF WorkerNext
<1>6. CASE UNCHANGED vars BY <1>6 DEF vars
<1>7. QED BY <1>1, <1>2, <1>3, <1>4, <1>5, <1>6 DEF Next, Stopped

\* No worker gets ahead of its child, or of the bytes it has read.
LEMMA StagesStep ==
  TypeOK /\ StagesInOrder /\ CallerInOrder /\ [Next]_vars => StagesInOrder'
<1> SUFFICES ASSUME TypeOK, StagesInOrder, CallerInOrder, [Next]_vars
             PROVE  StagesInOrder'
  OBVIOUS
<1> USE DEF Go, TypeOK, StagesInOrder, ChildStage, WorkerStage, callerVars,
        dispVars, waitVars,
        syncVars, childVars, workerVars
<1>1. CASE DispatchStep
  <2>1. CASE Fork BY <2>1 DEF Fork, CallerInOrder
  <2>2. CASE StartThread BY <2>2 DEF StartThread, CallerInOrder
  <2>3. CASE ~Fork /\ ~StartThread
    BY <1>1, <2>3 DEF DispatchStep, Dispatch, DispatchLock, ForkFails,
         WriteInput, WriteInputToDeadChild, StartThreadFails, PushThread
  <2>4. QED BY <2>1, <2>2, <2>3
<1>2. CASE WaitStep
  BY <1>2 DEF WaitStep, WaitOne, WaitLock, TakeFinished, Sleep,
              SpuriousWakeup
<1>3. CASE DestroyStep BY <1>3 DEF DestroyStep, Destroy, Joined
<1>4. ASSUME NEW i \in Id, ChildNext(i) PROVE StagesInOrder'
  <2>1. CASE Exec(i) \/ ExecFails(i) \/ ReadInput(i) \/ Run(i) \/ Crash(i)
    BY <2>1 DEF ChildStep, Exec, ExecFails, ReadInput, Run, Crash
  <2>2. CASE WriteResult(i) BY <2>2 DEF ChildStep, WriteResult
  <2>3. CASE Exit(i) BY <2>3 DEF ChildStep, Exit
  <2>4. QED BY <1>4, <2>1, <2>2, <2>3 DEF ChildNext
<1>5. ASSUME NEW i \in Id, WorkerNext(i) PROVE StagesInOrder'
  <2>1. CASE ReadUnit(i) BY <2>1 DEF ReadUnit
  <2>2. CASE WaitPid(i) \/ WaitPidFails(i)
    BY <2>2 DEF WaitPid, WaitPidFails, WorkerStep
  <2>3. CASE ReadDone(i) BY <2>3 DEF ReadDone, WorkerStep
  <2>4. CASE CallbackLock(i) BY <2>4 DEF CallbackLock, WorkerStep
  <2>5. CASE CallbackSet(i) BY <2>5 DEF CallbackSet, WorkerStep
  <2>6. CASE CallbackPush(i) \/ CallbackNotify(i) \/ CallbackUnlock(i)
    BY <2>6 DEF CallbackPush, CallbackNotify, CallbackUnlock, WorkerStep
  <2>7. QED BY <1>5, <2>1, <2>2, <2>3, <2>4, <2>5, <2>6 DEF WorkerNext
<1>6. CASE UNCHANGED vars BY <1>6 DEF vars
<1>7. QED BY <1>1, <1>2, <1>3, <1>4, <1>5, <1>6 DEF Next, Stopped

\* Ids are fresh, and the instance knows every thread it has started.
LEMMA CallerStep == TypeOK /\ CallerInOrder /\ [Next]_vars => CallerInOrder'
<1> SUFFICES ASSUME TypeOK, CallerInOrder, [Next]_vars PROVE CallerInOrder'
  OBVIOUS
<1> USE DEF Go, TypeOK, CallerInOrder, CallerStage, ChildStage, WorkerStage,
        callerVars, dispVars, waitVars, syncVars, childVars, workerVars
<1>1. CASE DispatchStep
  <2>1. CASE Dispatch BY <2>1, BoundsAssumption DEF Dispatch, Id
  <2>2. CASE DispatchLock BY <2>2 DEF DispatchLock
  <2>3. CASE ForkFails BY <2>3 DEF ForkFails
  <2>4. CASE Fork BY <2>4, BoundsAssumption DEF Fork, Id
  <2>5. CASE WriteInput BY <2>5 DEF WriteInput
  <2>6. CASE WriteInputToDeadChild BY <2>6 DEF WriteInputToDeadChild
  <2>7. CASE StartThread BY <2>7, BoundsAssumption DEF StartThread, Id
  <2>8. CASE PushThread BY <2>8 DEF PushThread
  <2>9. CASE StartThreadFails BY <2>9 DEF StartThreadFails
  <2>10. QED
    BY <1>1, <2>1, <2>2, <2>3, <2>4, <2>5, <2>6, <2>7, <2>8, <2>9
    DEF DispatchStep
<1>2. CASE WaitStep
  BY <1>2 DEF WaitStep, WaitOne, WaitLock, TakeFinished, Sleep,
              SpuriousWakeup
<1>3. CASE DestroyStep BY <1>3 DEF DestroyStep, Destroy, Joined
<1>4. ASSUME NEW i \in Id, ChildNext(i) PROVE CallerInOrder'
  <2>1. CASE Exec(i) BY <2>1 DEF ChildStep, Exec
  <2>2. CASE ExecFails(i) BY <2>2 DEF ChildStep, ExecFails
  <2>3. CASE ReadInput(i) BY <2>3 DEF ChildStep, ReadInput
  <2>4. CASE Run(i) BY <2>4 DEF ChildStep, Run
  <2>5. CASE WriteResult(i) BY <2>5 DEF ChildStep, WriteResult
  <2>6. CASE Exit(i) BY <2>6 DEF ChildStep, Exit
  <2>7. CASE Crash(i) BY <2>7 DEF ChildStep, Crash
  <2>8. QED BY <1>4, <2>1, <2>2, <2>3, <2>4, <2>5, <2>6, <2>7 DEF ChildNext
<1>5. ASSUME NEW i \in Id, WorkerNext(i) PROVE CallerInOrder'
  <2>1. CASE ReadUnit(i) \/ WaitPidFails(i)
    BY <2>1 DEF ReadUnit, WaitPidFails
  <2>2. CASE WaitPid(i) \/ ReadDone(i) \/ CallbackLock(i) \/ CallbackSet(i)
             \/ CallbackPush(i) \/ CallbackUnlock(i)
    BY <2>2 DEF WaitPid, ReadDone, CallbackLock, CallbackSet, CallbackPush,
                CallbackUnlock, WorkerStep
  <2>3. CASE CallbackNotify(i) BY <2>3 DEF CallbackNotify, WorkerStep
  <2>4. QED BY <1>5, <2>1, <2>2, <2>3 DEF WorkerNext
<1>6. CASE UNCHANGED vars BY <1>6 DEF vars
<1>7. QED BY <1>1, <1>2, <1>3, <1>4, <1>5, <1>6 DEF Next, Stopped

\* A callback adds its id to m_finished once; wait_one only moves ids over.
LEMMA ExactlyOnceStep ==
  TypeOK /\ CallerInOrder /\ ExactlyOnce /\ [Next]_vars => ExactlyOnce'
<1> SUFFICES ASSUME TypeOK, CallerInOrder, ExactlyOnce, [Next]_vars
             PROVE  ExactlyOnce'
  OBVIOUS
<1> USE DEF Go, TypeOK, ExactlyOnce, Reported, WorkerStage, callerVars,
        dispVars, waitVars, syncVars,
        childVars, workerVars
<1>1. CASE DispatchStep
  <2>1. CASE StartThread BY <2>1 DEF StartThread, CallerInOrder
  <2>2. CASE ~StartThread
    BY <1>1, <2>2 DEF DispatchStep, Dispatch, DispatchLock, ForkFails, Fork,
         WriteInput, WriteInputToDeadChild, StartThreadFails, PushThread
  <2>3. QED BY <2>1, <2>2
<1>2. CASE TakeFinished
  <2>1. /\ m_finished \in Seq(Id) /\ m_finished # <<>>
        /\ m_finished' = Front(m_finished)
        /\ returned' = Append(returned, Last(m_finished))
        /\ worker' = worker
    BY <1>2 DEF TakeFinished
  <2>2. /\ Last(m_finished) \in Id
        /\ Last(m_finished) \in ToSet(m_finished)
        /\ IsInjective(m_finished')
        /\ ToSet(m_finished') = ToSet(m_finished) \ {Last(m_finished)}
    BY <2>1, PopElements
  <2>3. /\ ToSet(returned') = ToSet(returned) \union {Last(m_finished)}
        /\ IsInjective(returned')
    BY <2>1, <2>2, PushElements
  <2>4. QED BY <2>1, <2>2, <2>3
<1>3. CASE WaitOne \/ WaitLock \/ Sleep \/ SpuriousWakeup
  BY <1>3 DEF WaitOne, WaitLock, Sleep, SpuriousWakeup
<1>4. CASE DestroyStep BY <1>4 DEF DestroyStep, Destroy, Joined
<1>5. ASSUME NEW i \in Id, ChildNext(i) PROVE ExactlyOnce'
  BY <1>5 DEF ChildNext, ChildStep, Exec, ExecFails, ReadInput, Run,
              WriteResult, Exit, Crash
<1>6. ASSUME NEW i \in Id, WorkerNext(i) PROVE ExactlyOnce'
  <2>1. CASE CallbackPush(i)
    <3>1. /\ m_finished' = Append(m_finished, i) /\ returned' = returned
          /\ worker[i] = "cb_push"
          /\ worker' = [worker EXCEPT ![i] = "cb_notify"]
      BY <2>1 DEF CallbackPush, WorkerStep
    <3>2. i \notin ToSet(m_finished) \union ToSet(returned)
      BY <3>1
    <3>3. /\ ToSet(m_finished') = ToSet(m_finished) \union {i}
          /\ IsInjective(m_finished')
      BY <3>1, <3>2, PushElements
    <3>4. QED BY <3>1, <3>2, <3>3
  <2>2. CASE ReadUnit(i) \/ WaitPidFails(i)
    BY <2>2 DEF ReadUnit, WaitPidFails
  <2>3. CASE WaitPid(i) \/ ReadDone(i) \/ CallbackLock(i) \/ CallbackSet(i)
    BY <2>3 DEF WaitPid, ReadDone, CallbackLock, CallbackSet, WorkerStep
  <2>4. CASE CallbackNotify(i) \/ CallbackUnlock(i)
    BY <2>4 DEF CallbackNotify, CallbackUnlock, WorkerStep
  <2>5. QED BY <1>6, <2>1, <2>2, <2>3, <2>4 DEF WorkerNext
<1>7. CASE UNCHANGED vars BY <1>7 DEF vars
<1>8. QED BY <1>1, <1>2, <1>3, <1>4, <1>5, <1>6, <1>7
          DEF Next, WaitStep, Stopped

\* Only a worker that is about to notify makes m_finished non-empty under a
\* sleeping caller, and it holds the lock until it has.
LEMMA NoLostWakeupStep ==
  TypeOK /\ LockHolder /\ NoLostWakeup /\ [Next]_vars => NoLostWakeup'
<1> SUFFICES ASSUME TypeOK, LockHolder, NoLostWakeup, [Next]_vars
             PROVE  NoLostWakeup'
  OBVIOUS
<1> USE HolderNames DEF Go, TypeOK, NoLostWakeup, LockHolder, WorkerStage,
        callerVars, dispVars, waitVars, syncVars, childVars, workerVars
<1>1. CASE DispatchStep
  BY <1>1 DEF DispatchStep, Dispatch, DispatchLock, ForkFails, Fork,
       WriteInput, WriteInputToDeadChild, StartThread, StartThreadFails,
       PushThread
<1>2. CASE WaitStep
  BY <1>2 DEF WaitStep, WaitOne, WaitLock, TakeFinished, Sleep,
              SpuriousWakeup
<1>3. CASE DestroyStep BY <1>3 DEF DestroyStep, Destroy, Joined
<1>4. ASSUME NEW i \in Id, ChildNext(i) PROVE NoLostWakeup'
  BY <1>4 DEF ChildNext, ChildStep, Exec, ExecFails, ReadInput, Run,
              WriteResult, Exit, Crash
<1>5. ASSUME NEW i \in Id, WorkerNext(i) PROVE NoLostWakeup'
  <2>1. CASE CallbackPush(i) BY <2>1 DEF CallbackPush, WorkerStep
  <2>2. CASE CallbackNotify(i) BY <2>2 DEF CallbackNotify, WorkerStep
  <2>3. CASE ReadUnit(i) \/ WaitPidFails(i)
    BY <2>3 DEF ReadUnit, WaitPidFails
  <2>4. CASE WaitPid(i) \/ ReadDone(i)
    BY <2>4 DEF WaitPid, ReadDone, WorkerStep
  <2>5. CASE CallbackLock(i) \/ CallbackSet(i) \/ CallbackUnlock(i)
    BY <2>5 DEF CallbackLock, CallbackSet, CallbackUnlock, WorkerStep
  <2>6. QED BY <1>5, <2>1, <2>2, <2>3, <2>4, <2>5 DEF WorkerNext
<1>6. CASE UNCHANGED vars BY <1>6 DEF vars
<1>7. QED BY <1>1, <1>2, <1>3, <1>4, <1>5, <1>6 DEF Next, Stopped

\* The destructor has joined every worker there is, and no finished worker,
\* and no worker that was never started, does anything again.
LEMMA NoUseAfterDestroyStep ==
  TypeOK /\ LockHolder /\ CallerInOrder /\ NoUseAfterDestroy /\ [Next]_vars
    => NoUseAfterDestroy'
<1> SUFFICES ASSUME TypeOK, LockHolder, CallerInOrder, NoUseAfterDestroy,
                    [Next]_vars
             PROVE  NoUseAfterDestroy'
  OBVIOUS
<1> USE HolderNames DEF Go, TypeOK, NoUseAfterDestroy, WorkerStage,
        callerVars, dispVars, waitVars, syncVars, childVars, workerVars
<1>1. CASE DispatchStep
  BY <1>1 DEF DispatchStep, Dispatch, DispatchLock, ForkFails, Fork,
       WriteInput, WriteInputToDeadChild, StartThread, StartThreadFails,
       PushThread
<1>2. CASE WaitStep
  BY <1>2 DEF WaitStep, WaitOne, WaitLock, TakeFinished, Sleep,
              SpuriousWakeup
<1>3. CASE Destroy BY <1>3 DEF Destroy
<1>4. CASE Joined BY <1>4 DEF Joined, CallerInOrder, LockHolder
<1>5. ASSUME NEW i \in Id, ChildNext(i) PROVE NoUseAfterDestroy'
  BY <1>5 DEF ChildNext, ChildStep, Exec, ExecFails, ReadInput, Run,
              WriteResult, Exit, Crash
<1>6. ASSUME NEW i \in Id, WorkerNext(i) PROVE NoUseAfterDestroy'
  BY <1>6 DEF WorkerNext, WorkerStep, WaitPid, WaitPidFails, ReadUnit,
              ReadDone, CallbackLock, CallbackSet, CallbackPush,
              CallbackNotify, CallbackUnlock
<1>7. CASE UNCHANGED vars BY <1>7 DEF vars
<1>8. QED BY <1>1, <1>2, <1>3, <1>4, <1>5, <1>6, <1>7
          DEF Next, DestroyStep, Stopped

-----------------------------------------------------------------------------
(***************************************************************************)
(* The safety properties of the runs, for every instance.                  *)
(***************************************************************************)

\* The inductive invariant holds in every reachable state.
THEOREM Invariance == Spec => []IInv
<1>1. Init => IInv
  <2> SUFFICES ASSUME Init PROVE IInv
    OBVIOUS
  <2>1. TypeOK
    BY BoundsAssumption, TasksAssumption
    DEF Init, TypeOK, Id, Free, Main, InPipe, CallerStage, ChildStage,
        WorkerStage
  <2>2. LockHolder BY HolderNames DEF Init, LockHolder
  <2>3. StagesInOrder /\ CallerInOrder
    BY DEF Init, StagesInOrder, CallerInOrder
  <2>4. ExactlyOnce
    BY DEF Init, ExactlyOnce, Reported, ToSet, IsInjective
  <2>5. NoLostWakeup /\ NoUseAfterDestroy
    BY DEF Init, NoLostWakeup, NoUseAfterDestroy
  <2>6. QED BY <2>1, <2>2, <2>3, <2>4, <2>5 DEF IInv
<1>2. IInv /\ [Next]_vars => IInv'
  BY TypeStep, LockStep, StagesStep, CallerStep, ExactlyOnceStep,
     NoLostWakeupStep, NoUseAfterDestroyStep DEF IInv
<1>3. QED BY <1>1, <1>2, PTL DEF Spec

\* Every finished invocation is in m_finished or was returned by wait_one, in
\* exactly one place and exactly once.
THEOREM ReturnedExactlyOnce == Spec => []ExactlyOnce
<1>1. IInv => ExactlyOnce BY DEF IInv
<1>2. QED BY <1>1, Invariance, PTL

\* A returned id has its complete result in the caller's target.
THEOREM ResultsAreReady == Spec => []ReturnedIsReady
<1>1. IInv => ReturnedIsReady
  <2> SUFFICES ASSUME IInv, NEW i \in ToSet(returned)
               PROVE  /\ i \in targets
                      /\ got[i] = ResultSize[i]
                      /\ child[i] = "exited"
                      /\ worker[i] \notin {"cb_set", "cb_push"}
    BY DEF ReturnedIsReady
  <2>1. i \in Id BY DEF IInv, TypeOK, ToSet
  <2>2. Reported(i) BY <2>1 DEF IInv, ExactlyOnce
  <2>3. QED BY <2>1, <2>2 DEF IInv, StagesInOrder, Reported
<1>2. QED BY <1>1, Invariance, PTL

\* The caller never sleeps through a result.
THEOREM WakeupsAreKept == Spec => []NoLostWakeup
<1>1. IInv => NoLostWakeup BY DEF IInv
<1>2. QED BY <1>1, Invariance, PTL

\* The destructor leaves no worker behind that could touch the instance.
THEOREM DestroyIsSafe == Spec => []NoUseAfterDestroy
<1>1. IInv => NoUseAfterDestroy BY DEF IInv
<1>2. QED BY <1>1, Invariance, PTL

\* A child that failed is never reported as finished.
THEOREM FailuresStayUnreported == Spec => []FailedNeverReported
<1>1. IInv => FailedNeverReported
  <2> SUFFICES ASSUME IInv, NEW i \in Id, child[i] = "crashed"
               PROVE  /\ worker[i] \in {"none", "waitpid"}
                      /\ i \notin ToSet(m_finished) \union ToSet(returned)
    BY DEF FailedNeverReported
  <2>1. worker[i] \in {"none", "waitpid"}
    BY DEF IInv, StagesInOrder
  <2>2. QED BY <2>1 DEF IInv, ExactlyOnce, Reported
<1>2. QED BY <1>1, Invariance, PTL

-----------------------------------------------------------------------------
(***************************************************************************)
(* The local dispatcher implements the safety half of Dispatcher: starting *)
(* the worker issues, push_back completes, back/pop_back returns, the      *)
(* destructor's end and the death of the host stop, and every other step   *)
(* stutters.                                                               *)
(***************************************************************************)

\* One step of the local dispatcher is one step of the abstract one, or none.
LEMMA StepRefines == IInv /\ [Next]_vars => [Promise!Next]_(Promise!vars)
<1> SUFFICES ASSUME IInv, [Next]_vars
             PROVE  Promise!Next \/ UNCHANGED Promise!vars
  OBVIOUS
<1> DEFINE Up == host = "alive" /\ pc # "destroyed"
<1> USE DEF Go, Promise!vars, callerVars, dispVars, waitVars, syncVars,
        childVars, workerVars
<1>0. TypeOK BY DEF IInv
<1>1. CASE host = "alive" /\ DispatchStep
  <2>1. CASE StartThread
    <3>1. cur \in Id /\ worker[cur] = "none" /\ Up
      BY <1>0, <1>1, <2>1 DEF IInv, CallerInOrder, TypeOK, StartThread
    <3>2. {i \in Id : worker'[i] # "none"}
            = {i \in Id : worker[i] # "none"} \union {cur}
      BY <1>0, <2>1, <3>1 DEF StartThread, TypeOK, WorkerStage
    <3>3. /\ UNCHANGED <<m_finished, returned, host>>
          /\ pc' = "disp_push"
      BY <2>1 DEF StartThread
    <3>4. PICK j \in Id : j = cur
      BY <3>1
    <3>5. Promise!Issue(j)
      BY <3>1, <3>2, <3>3, <3>4 DEF Promise!Issue
    <3>6. QED BY <3>5 DEF Promise!Next
  <2>2. CASE WriteInputToDeadChild
    <3>1. Promise!Stop BY <1>1, <2>2 DEF Promise!Stop, WriteInputToDeadChild
    <3>2. QED BY <3>1 DEF Promise!Next
  <2>3. CASE ~StartThread /\ ~WriteInputToDeadChild
    BY <1>1, <2>3 DEF DispatchStep, Dispatch, DispatchLock, ForkFails, Fork,
         WriteInput, StartThreadFails, PushThread
  <2>4. QED BY <2>1, <2>2, <2>3
<1>2. CASE host = "alive" /\ TakeFinished
  <2> DEFINE i == Last(m_finished)
  <2>1. /\ m_finished \in Seq(Id) /\ returned \in Seq(Id)
        /\ m_finished # <<>> /\ Up
        /\ m_finished' = Front(m_finished) /\ returned' = Append(returned, i)
        /\ UNCHANGED <<worker, host>> /\ pc' = "user"
    BY <1>0, <1>2 DEF TakeFinished, TypeOK
  <2>2. /\ ExactlyOnce
        /\ ToSet(m_finished) \intersect ToSet(returned) = {}
        /\ IsInjective(m_finished)
    BY DEF IInv, ExactlyOnce
  <2>3. /\ i \in Id /\ i \in ToSet(m_finished) /\ i \notin ToSet(returned)
        /\ ToSet(m_finished') = ToSet(m_finished) \ {i}
    BY <2>1, <2>2, PopElements
  <2>4. ToSet(returned') = ToSet(returned) \union {i}
    BY <2>1, <2>3, PushElements
  <2> HIDE DEF i
  <2>5. Promise!Return(i)
    BY <2>1, <2>3, <2>4 DEF Promise!Return
  <2>6. QED BY <2>3, <2>5 DEF Promise!Next
<1>3. CASE WaitOne \/ WaitLock \/ Sleep \/ SpuriousWakeup \/ Destroy
  BY <1>3 DEF WaitOne, WaitLock, Sleep, SpuriousWakeup, Destroy
<1>4. CASE host = "alive" /\ Joined
  <2>1. Promise!Stop BY <1>4 DEF Promise!Stop, Joined
  <2>2. QED BY <2>1 DEF Promise!Next
<1>5. ASSUME NEW i \in Id, ChildNext(i) PROVE UNCHANGED Promise!vars
  BY <1>5 DEF ChildNext, ChildStep, Exec, ExecFails, ReadInput, Run,
       WriteResult, Exit, Crash
<1>6. ASSUME NEW i \in Id, host = "alive", WorkerNext(i)
      PROVE  Promise!Next \/ UNCHANGED Promise!vars
  <2>0. {j \in Id : worker'[j] # "none"} = {j \in Id : worker[j] # "none"}
    <3>1. \A from, to : /\ from # "none"
                         /\ to # "none"
                         /\ WorkerStep(i, from, to)
                         => \A j \in Id : worker'[j] = "none"
                                             <=> worker[j] = "none"
      BY <1>0 DEF WorkerStep, TypeOK
    <3>2. \A j \in Id : worker'[j] = "none" <=> worker[j] = "none"
      <4>1. CASE WaitPid(i) \/ ReadDone(i) BY <3>1, <4>1 DEF WaitPid, ReadDone
      <4>2. CASE WaitPidFails(i) \/ ReadUnit(i)
        BY <4>2 DEF WaitPidFails, ReadUnit
      <4>3. CASE CallbackLock(i) \/ CallbackSet(i) \/ CallbackPush(i)
        BY <3>1, <4>3 DEF CallbackLock, CallbackSet, CallbackPush
      <4>4. CASE CallbackNotify(i) \/ CallbackUnlock(i)
        BY <3>1, <4>4 DEF CallbackNotify, CallbackUnlock
      <4>5. QED BY <1>6, <4>1, <4>2, <4>3, <4>4 DEF WorkerNext
    <3>3. QED BY <3>2
  <2>1. CASE CallbackPush(i)
    <3>1. /\ m_finished \in Seq(Id) /\ m_finished' = Append(m_finished, i)
          /\ worker[i] = "cb_push"
          /\ UNCHANGED <<host, pc, returned>>
      BY <1>0, <2>1 DEF CallbackPush, WorkerStep, TypeOK
    <3>2. i \notin ToSet(m_finished) \union ToSet(returned)
      BY <3>1 DEF IInv, ExactlyOnce, Reported
    <3>3. ToSet(m_finished') = ToSet(m_finished) \union {i}
      BY <3>1, PushElements
    <3>4. pc # "destroyed"
      BY <3>1 DEF IInv, NoUseAfterDestroy
    <3>5. Promise!Complete(i)
      BY <1>6, <2>0, <3>1, <3>2, <3>3, <3>4 DEF Promise!Complete
    <3>6. QED BY <3>5 DEF Promise!Next
  <2>2. CASE WaitPidFails(i)
    <3>1. pc # "destroyed"
      BY <2>2 DEF IInv, NoUseAfterDestroy, WaitPidFails
    <3>2. Promise!Stop BY <1>6, <2>2, <3>1 DEF Promise!Stop, WaitPidFails
    <3>3. QED BY <3>2 DEF Promise!Next
  <2>3. CASE CallbackNotify(i)
    BY <2>0, <2>3 DEF CallbackNotify, WorkerStep
  <2>4. CASE ReadUnit(i) \/ WaitPid(i) \/ ReadDone(i)
    BY <2>0, <2>4 DEF ReadUnit, WaitPid, ReadDone, WorkerStep
  <2>5. CASE CallbackLock(i) \/ CallbackSet(i) \/ CallbackUnlock(i)
    BY <2>0, <2>5 DEF CallbackLock, CallbackSet, CallbackUnlock, WorkerStep
  <2>6. QED BY <1>6, <2>1, <2>2, <2>3, <2>4, <2>5 DEF WorkerNext
<1>7. CASE UNCHANGED vars BY <1>7 DEF vars
<1>8. QED BY <1>1, <1>2, <1>3, <1>4, <1>5, <1>6, <1>7
          DEF Next, WaitStep, DestroyStep, Stopped

\* Every behaviour of the local dispatcher is one the promise allows.
THEOREM ImplementsDispatcher == Spec => KeepsPromise
<1>1. Init => Promise!Init
  BY DEF Init, Promise!Init, ToSet, IsInjective
<1>2. QED BY <1>1, Invariance, StepRefines, PTL
          DEF Spec, KeepsPromise, Promise!Safe
=============================================================================
