--------------------------- MODULE LocalDispatcher ---------------------------
(***************************************************************************)
(* The local dispatcher (include/cppless/dispatcher/local.hpp) and the     *)
(* function `execute` it runs every task with (dispatcher/common.hpp).     *)
(*                                                                         *)
(* The actors are the caller's thread (pc), which calls dispatch_impl,     *)
(* wait_one and finally the destructor; for every dispatched task a child  *)
(* process (child), forked by `execute`; and a worker thread (worker) that *)
(* waits for that child, reads its result and runs the callback cb.  They  *)
(* share m_mutex, m_cv, m_finished, the result targets and the pipes.      *)
(*                                                                         *)
(* A result is a number of pipe units.  A pipe holds PipeCapacity units.   *)
(***************************************************************************)
EXTENDS Integers, Sequences, FiniteSets, SequencesExt

CONSTANTS
  MaxTasks,       \* bound: calls of dispatch_impl
  MaxSpurious,    \* bound: spurious wakeups of the condition variable
  PipeCapacity,   \* units a pipe holds before its writer blocks
  ResultSize,     \* [Id -> units of the serialized result]
  LargeInput,     \* ids whose input exceeds the pipe capacity
  Known,          \* ids whose identifier is in m_function_map
  MayCrash,       \* ids whose child process may fail at run time
  MayFailToFork   \* ids for which pipe(), fork() or the thread may fail

Id == 0 .. MaxTasks - 1

ASSUME BoundsAssumption == /\ MaxTasks \in Nat \ {0}
                           /\ MaxSpurious \in Nat
                           /\ PipeCapacity \in Nat \ {0}
ASSUME TasksAssumption == /\ ResultSize \in [Id -> Nat]
                          /\ LargeInput \subseteq Id
                          /\ Known \subseteq Id
                          /\ MayCrash \subseteq Id
                          /\ MayFailToFork \subseteq Id

Free == -1              \* m_mutex is not held
Main == -2              \* m_mutex is held by the caller's thread

VARIABLES
  host,           \* the host process: "alive" or "dead"
  pc,             \* where the caller's thread is
  cur,            \* the id of the last dispatch_impl call
  m_next_id,      \* the id the next dispatch_impl call takes
  m_mutex,        \* Free, Main, or the id whose worker holds it
  m_finished,     \* the stack of finished ids
  m_threads,      \* ids whose thread object is in m_threads
  returned,       \* the ids wait_one has returned, in order
  calls,          \* number of wait_one calls made
  targets,        \* ids whose result_target holds the result
  child,          \* [Id -> stage of the child process]
  fed,            \* ids whose input is written and whose stdin is closed
  sent,           \* [Id -> units the child has written to its stdout pipe]
  got,            \* [Id -> units the worker has read from that pipe]
  worker,         \* [Id -> stage of the worker thread]
  spurious        \* spurious wakeups so far

dispVars   == <<cur, m_next_id, m_threads>>
waitVars   == <<returned, calls, spurious>>
callerVars == <<pc, dispVars, waitVars>>
syncVars   == <<m_mutex, m_finished>>
childVars  == <<child, fed, sent>>
workerVars == <<worker, got, targets>>
vars == <<host, callerVars, syncVars, childVars, workerVars>>

(* Stages. *)
CallerStage == {"user",          \* in the caller's own code
                "disp_lock", "disp_exec", "disp_write", "disp_thread",
                "disp_push",     \* dispatch_impl and execute
                "wait_lock", "wait_check", "cv_wait", "cv_wake",  \* wait_one
                "joining", "destroyed"}                  \* the destructor
ChildStage  == {"none", "forked", "reading", "running", "writing",
                "exited", "crashed"}
WorkerStage == {"none", "waitpid", "read", "cb_lock", "cb_set", "cb_push",
                "cb_notify", "cb_unlock", "exited"}

\* What is in the result pipe of task i.
InPipe(i) == sent[i] - got[i]

Init == /\ host = "alive"
        /\ pc = "user"
        /\ cur = 0
        /\ m_next_id = 0
        /\ m_mutex = Free
        /\ m_finished = <<>>
        /\ m_threads = {}
        /\ returned = <<>>
        /\ calls = 0
        /\ targets = {}
        /\ child = [i \in Id |-> "none"]
        /\ fed = {}
        /\ sent = [i \in Id |-> 0]
        /\ got = [i \in Id |-> 0]
        /\ worker = [i \in Id |-> "none"]
        /\ spurious = 0

-----------------------------------------------------------------------------
(* The caller's thread: dispatch_impl and execute. *)

Go(from, to) == pc = from /\ pc' = to /\ UNCHANGED host

\* dispatch_impl up to the lock: the id is taken before anything can fail.
Dispatch ==
  /\ Go("user", "disp_lock")
  /\ m_next_id < MaxTasks
  /\ cur' = m_next_id
  /\ m_next_id' = m_next_id + 1
  /\ UNCHANGED <<m_threads, waitVars, syncVars, childVars, workerVars>>

DispatchLock ==
  /\ Go("disp_lock", "disp_exec")
  /\ m_mutex = Free
  /\ m_mutex' = Main
  /\ UNCHANGED <<dispVars, waitVars, m_finished, childVars, workerVars>>

\* Faulty variant: the exception leaves the lock held.
ForkFailsKeepsLock ==
  /\ Go("disp_exec", "user")
  /\ cur \in MayFailToFork
  /\ UNCHANGED <<dispVars, waitVars, syncVars, childVars, workerVars>>

\* pipe() or fork() fails: execute throws out of dispatch_impl, whose lock is
\* released.  The id stays taken; nothing will ever finish under it.
ForkFails ==
  /\ Go("disp_exec", "user")
  /\ cur \in MayFailToFork
  /\ m_mutex' = Free
  /\ UNCHANGED <<dispVars, waitVars, m_finished, childVars, workerVars>>

Fork ==
  /\ Go("disp_exec", "disp_write")
  /\ child' = [child EXCEPT ![cur] = "forked"]
  /\ UNCHANGED <<dispVars, waitVars, syncVars, fed, sent, workerVars>>

\* The input is written, still under m_mutex, and the write end closed.  More
\* than a pipe full can only be written while the child reads.
WriteInput ==
  /\ Go("disp_write", "disp_thread")
  /\ child[cur] \in {"forked", "reading"}
  /\ cur \in LargeInput => child[cur] = "reading"
  /\ fed' = fed \union {cur}
  /\ UNCHANGED <<dispVars, waitVars, syncVars, child, sent, workerVars>>

\* Writing to a pipe nobody reads any more: SIGPIPE ends the host process.
WriteInputToDeadChild ==
  /\ pc = "disp_write"
  /\ child[cur] = "crashed"
  /\ host' = "dead"
  /\ UNCHANGED <<callerVars, syncVars, childVars, workerVars>>

\* std::thread t(wait_for_result): the worker starts to run.
StartThread ==
  /\ Go("disp_thread", "disp_push")
  /\ worker' = [worker EXCEPT ![cur] = "waitpid"]
  /\ UNCHANGED <<dispVars, waitVars, syncVars, childVars, got, targets>>

\* std::thread fails: the exception leaves dispatch_impl and releases its lock.
\* The child goes on, and nobody will ever wait for it.
StartThreadFails ==
  /\ Go("disp_thread", "user")
  /\ cur \in MayFailToFork
  /\ m_mutex' = Free
  /\ UNCHANGED <<dispVars, waitVars, m_finished, childVars, workerVars>>

\* m_threads.push_back, unlock, return id.
PushThread ==
  /\ Go("disp_push", "user")
  /\ m_threads' = m_threads \union {cur}
  /\ m_mutex' = Free
  /\ UNCHANGED <<cur, m_next_id, waitVars, m_finished, childVars, workerVars>>

-----------------------------------------------------------------------------
(* The caller's thread: wait_one. *)

\* The caller waits at most once for every invocation it has started.
WaitOne ==
  /\ Go("user", "wait_lock")
  /\ calls < Cardinality(m_threads)
  /\ calls' = calls + 1
  /\ UNCHANGED <<dispVars, returned, spurious>>
  /\ UNCHANGED <<syncVars, childVars, workerVars>>

\* Taking the lock, on entry and when the condition variable returns.
WaitLock ==
  /\ pc \in {"wait_lock", "cv_wake"}
  /\ m_mutex = Free
  /\ m_mutex' = Main
  /\ pc' = "wait_check"
  /\ UNCHANGED <<host, dispVars, waitVars, m_finished, childVars, workerVars>>

\* Faulty variant: back() without pop_back().
TakeFinishedNoPop ==
  /\ Go("wait_check", "user")
  /\ m_finished # <<>>
  /\ returned' = Append(returned, Last(m_finished))
  /\ m_mutex' = Free
  /\ UNCHANGED <<dispVars, calls, spurious, m_finished, childVars, workerVars>>

\* Something is finished: take it from the back, unlock and return it.
TakeFinished ==
  /\ Go("wait_check", "user")
  /\ m_finished # <<>>
  /\ returned' = Append(returned, Last(m_finished))
  /\ m_finished' = Front(m_finished)
  /\ m_mutex' = Free
  /\ UNCHANGED <<dispVars, calls, spurious, childVars, workerVars>>

\* Nothing is finished: m_cv.wait releases the lock and sleeps in one step.
Sleep ==
  /\ Go("wait_check", "cv_wait")
  /\ m_finished = <<>>
  /\ m_mutex' = Free
  /\ UNCHANGED <<dispVars, waitVars, m_finished, childVars, workerVars>>

SpuriousWakeup ==
  /\ Go("cv_wait", "cv_wake")
  /\ spurious < MaxSpurious
  /\ spurious' = spurious + 1
  /\ UNCHANGED <<dispVars, returned, calls, syncVars, childVars, workerVars>>

-----------------------------------------------------------------------------
(* The caller's thread: the destructor joins every thread in m_threads. *)

Destroy ==
  /\ Go("user", "joining")
  /\ UNCHANGED <<dispVars, waitVars, syncVars, childVars, workerVars>>

\* Faulty variant: the destructor detaches the threads.
JoinedDetached ==
  /\ Go("joining", "destroyed")
  /\ UNCHANGED <<dispVars, waitVars, syncVars, childVars, workerVars>>

Joined ==
  /\ Go("joining", "destroyed")
  /\ \A i \in m_threads : worker[i] = "exited"
  /\ UNCHANGED <<dispVars, waitVars, syncVars, childVars, workerVars>>

-----------------------------------------------------------------------------
(* The child process of task i: execve, then local_dispatcher::main. *)

ChildStep(i, from, to) ==
  /\ child[i] = from
  /\ child' = [child EXCEPT ![i] = to]
  /\ UNCHANGED <<host, callerVars, syncVars, workerVars>>

\* execve of a known location succeeds.
Exec(i) == /\ i \in Known
           /\ ChildStep(i, "forked", "reading")
           /\ UNCHANGED <<fed, sent>>

\* An unknown identifier has the location "": execve fails and the exception
\* ends the child.
ExecFails(i) == /\ i \notin Known
                /\ ChildStep(i, "forked", "crashed")
                /\ UNCHANGED <<fed, sent>>

\* The task is deserialized from stdin, which is complete.
ReadInput(i) == /\ i \in fed
                /\ ChildStep(i, "reading", "running")
                /\ UNCHANGED <<fed, sent>>

Run(i) == /\ ChildStep(i, "running", "writing")
          /\ UNCHANGED <<fed, sent>>

\* One unit of the result goes to stdout, when the pipe has room.
WriteResult(i) == /\ sent[i] < ResultSize[i]
                  /\ InPipe(i) < PipeCapacity
                  /\ sent' = [sent EXCEPT ![i] = @ + 1]
                  /\ ChildStep(i, "writing", "writing")
                  /\ UNCHANGED fed

\* All of the result is written: return 0.
Exit(i) == /\ sent[i] = ResultSize[i]
           /\ ChildStep(i, "writing", "exited")
           /\ UNCHANGED <<fed, sent>>

\* The task throws or is killed.
Crash(i) == /\ i \in MayCrash
            /\ \E stage \in {"reading", "running", "writing"} :
                  ChildStep(i, stage, "crashed")
            /\ UNCHANGED <<fed, sent>>

-----------------------------------------------------------------------------
(* The worker thread of task i: wait_for_result, then the callback cb. *)

WorkerStep(i, from, to) ==
  /\ worker[i] = from
  /\ worker' = [worker EXCEPT ![i] = to]
  /\ UNCHANGED <<host, dispVars, waitVars, childVars>>

\* Faulty variants: waitpid does not block; the status is not looked at.
WaitPidNoHang(i) ==
  /\ WorkerStep(i, "waitpid", "read")
  /\ UNCHANGED <<pc, syncVars, got, targets>>
WaitPidAnyStatus(i) ==
  /\ child[i] \in {"exited", "crashed"}
  /\ WorkerStep(i, "waitpid", "read")
  /\ UNCHANGED <<pc, syncVars, got, targets>>

\* waitpid returns: the child ended with status 0.
WaitPid(i) == /\ child[i] = "exited"
              /\ WorkerStep(i, "waitpid", "read")
              /\ UNCHANGED <<pc, syncVars, got, targets>>

\* waitpid returns any other status: an exception leaves the thread's
\* function, which is std::terminate for the whole host process.
WaitPidFails(i) == /\ worker[i] = "waitpid"
                   /\ child[i] = "crashed"
                   /\ host' = "dead"
                   /\ UNCHANGED <<callerVars, syncVars, childVars, workerVars>>

\* Faulty variant: the end of the file is taken for data.
ReadPastEnd(i) == /\ worker[i] = "read"
                  /\ got[i] <= sent[i]
                  /\ got' = [got EXCEPT ![i] = @ + 1]
                  /\ UNCHANGED <<host, callerVars, syncVars, childVars>>
                  /\ UNCHANGED <<worker, targets>>

\* The result is read from the pipe, unit by unit.
ReadUnit(i) == /\ worker[i] = "read"
               /\ InPipe(i) > 0
               /\ got' = [got EXCEPT ![i] = @ + 1]
               /\ UNCHANGED <<host, callerVars, syncVars, childVars>>
               /\ UNCHANGED <<worker, targets>>

ReadDone(i) == /\ got[i] = ResultSize[i]
               /\ WorkerStep(i, "read", "cb_lock")
               /\ UNCHANGED <<pc, syncVars, got, targets>>

\* cb: lock_guard(m_mutex).
CallbackLock(i) == /\ m_mutex = Free
                   /\ m_mutex' = i
                   /\ WorkerStep(i, "cb_lock", "cb_set")
                   /\ UNCHANGED <<pc, m_finished, got, targets>>

\* Faulty variant: the target of the latest call, captured by reference.
CallbackSetLatest(i) ==
  /\ WorkerStep(i, "cb_set", "cb_push")
  /\ targets' = targets \union {cur}
  /\ UNCHANGED <<pc, syncVars, got>>

\* cb: result_target = result.
CallbackSet(i) == /\ WorkerStep(i, "cb_set", "cb_push")
                  /\ targets' = targets \union {i}
                  /\ UNCHANGED <<pc, syncVars, got>>

\* Faulty variant: the id of the latest call, captured by reference.
CallbackPushLatest(i) ==
  /\ WorkerStep(i, "cb_push", "cb_notify")
  /\ m_finished' = Append(m_finished, cur)
  /\ UNCHANGED <<pc, m_mutex, got, targets>>

\* cb: m_finished.push_back.
CallbackPush(i) == /\ WorkerStep(i, "cb_push", "cb_notify")
                   /\ m_finished' = Append(m_finished, i)
                   /\ UNCHANGED <<pc, m_mutex, got, targets>>

\* Faulty variant: notify_one is forgotten.
CallbackNotifyForgotten(i) ==
  /\ WorkerStep(i, "cb_notify", "cb_unlock")
  /\ UNCHANGED <<pc, syncVars, got, targets>>

\* cb: m_cv.notify_one; only the caller's thread ever waits.
CallbackNotify(i) == /\ WorkerStep(i, "cb_notify", "cb_unlock")
                     /\ pc' = IF pc = "cv_wait" THEN "cv_wake" ELSE pc
                     /\ UNCHANGED <<syncVars, got, targets>>

\* Faulty variant: the lock is never released.
CallbackUnlockForgotten(i) ==
  /\ WorkerStep(i, "cb_unlock", "exited")
  /\ UNCHANGED <<pc, syncVars, got, targets>>

\* cb returns: the lock is released and the thread's function ends.
CallbackUnlock(i) == /\ WorkerStep(i, "cb_unlock", "exited")
                     /\ m_mutex' = Free
                     /\ UNCHANGED <<pc, m_finished, got, targets>>

-----------------------------------------------------------------------------
DispatchStep == Dispatch \/ DispatchLock \/ ForkFails \/ Fork \/ WriteInput
                \/ WriteInputToDeadChild \/ StartThread \/ StartThreadFails
                \/ PushThread

WaitStep == WaitOne \/ WaitLock \/ TakeFinished \/ Sleep \/ SpuriousWakeup

DestroyStep == Destroy \/ Joined

\* A child does not need the host to be alive: what it writes is lost then,
\* so its further steps are left out.
ChildNext(i) == Exec(i) \/ ExecFails(i) \/ ReadInput(i) \/ Run(i)
                \/ WriteResult(i) \/ Exit(i) \/ Crash(i)

WorkerNext(i) == WaitPid(i) \/ WaitPidFails(i) \/ ReadUnit(i) \/ ReadDone(i)
                 \/ CallbackLock(i) \/ CallbackSet(i) \/ CallbackPush(i)
                 \/ CallbackNotify(i) \/ CallbackUnlock(i)

\* The host is dead, or the instance is destroyed: the model is at its end.
Stopped == /\ host = "dead" \/ pc = "destroyed"
           /\ UNCHANGED vars

Next == \/ /\ host = "alive"
           /\ \/ DispatchStep \/ WaitStep \/ DestroyStep
              \/ \E i \in Id : ChildNext(i) \/ WorkerNext(i)
        \/ Stopped

Spec == Init /\ [][Next]_vars

Alive(A) == host = "alive" /\ A

\* The scheduler runs every thread and every process, and a mutex that stays
\* free is eventually taken.  Nothing is assumed of a child failing, of a
\* spurious wakeup, or of the caller starting, or destroying, anything.
Fairness ==
  /\ WF_vars(Alive(DispatchLock \/ Fork \/ WriteInput \/ WriteInputToDeadChild
                   \/ StartThread \/ PushThread))
  /\ WF_vars(Alive(WaitLock \/ TakeFinished \/ Sleep))
  /\ WF_vars(Alive(Joined))
  /\ \A i \in Id : /\ WF_vars(Alive(Exec(i) \/ ExecFails(i) \/ ReadInput(i)
                                    \/ Run(i) \/ WriteResult(i) \/ Exit(i)))
                   /\ WF_vars(Alive(WorkerNext(i)))

FairSpec == Spec /\ Fairness

\* The caller also calls wait_one as often as it has dispatched.
WaitingCaller == FairSpec /\ WF_vars(Alive(WaitOne))

-----------------------------------------------------------------------------
(* Properties. *)

TypeOK ==
  /\ host \in {"alive", "dead"}
  /\ pc \in CallerStage
  /\ cur \in Id
  /\ m_next_id \in 0 .. MaxTasks
  /\ m_mutex \in Id \union {Free, Main}
  /\ m_finished \in Seq(Id)
  /\ m_threads \subseteq Id
  /\ returned \in Seq(Id)
  /\ calls \in Nat
  /\ targets \subseteq Id
  /\ child \in [Id -> ChildStage]
  /\ fed \subseteq Id
  /\ sent \in [Id -> Nat]
  /\ got \in [Id -> Nat]
  /\ \A i \in Id : InPipe(i) \in 0 .. PipeCapacity
  /\ worker \in [Id -> WorkerStage]
  /\ spurious \in Nat

\* The worker of i has reported i.
Reported(i) == worker[i] \in {"cb_notify", "cb_unlock", "exited"}

\* The ids whose callback has run are exactly those waiting in m_finished and
\* those wait_one has returned; none is in both, none is in either twice.
\* (local.hpp: "is returned exactly once by the wait_one() method".)
ExactlyOnce ==
  /\ IsInjective(m_finished)
  /\ IsInjective(returned)
  /\ ToSet(m_finished) \intersect ToSet(returned) = {}
  /\ \A i \in Id : Reported(i) <=>
        i \in ToSet(m_finished) \union ToSet(returned)

\* When wait_one reports an id, its target holds the complete result the
\* child wrote before it ended, and the worker is not writing the target any
\* more: the caller may read it without further synchronisation.
ReturnedIsReady ==
  \A i \in ToSet(returned) :
     /\ i \in targets
     /\ got[i] = ResultSize[i]
     /\ child[i] = "exited"
     /\ worker[i] \notin {"cb_set", "cb_push"}

\* A caller asleep in wait_one while a finished id is there is about to be
\* notified: no wakeup is lost.
NoLostWakeup ==
  pc = "cv_wait" /\ m_finished # <<>> =>
     \E i \in Id : m_mutex = i /\ worker[i] = "cb_notify"

\* Once the destructor has returned, no worker will touch the mutex, the
\* condition variable or the stack of the destroyed instance.
NoUseAfterDestroy ==
  pc = "destroyed" => /\ \A i \in Id : worker[i] \in {"none", "exited"}
                      /\ m_mutex = Free

\* The host never outlives an abnormal end of a child: wait_one cannot go on
\* to report anything after a worker or the caller has seen that end, and no
\* id of a failed child is ever reported.
FailedNeverReported ==
  \A i \in Id : child[i] = "crashed" =>
     /\ worker[i] \in {"none", "waitpid"}
     /\ i \notin ToSet(m_finished) \union ToSet(returned)

\* Liveness, for a caller that keeps waiting: every started invocation is
\* returned, unless the caller destroys the instance or a child's failure
\* ends the host.  (local.hpp:259: "Each dispatched task invocation ... is
\* returned exactly once by the wait_one() method.")
EveryTaskReturned ==
  \A i \in Id : i \in m_threads ~>
     \/ i \in ToSet(returned)
     \/ pc \in {"joining", "destroyed"}
     \/ host = "dead"

\* The destructor returns (or the host dies of a failed child).
DestroyReturns == pc = "joining" ~> pc = "destroyed" \/ host = "dead"

-----------------------------------------------------------------------------
(* What the safety properties rest on: the parts of the inductive invariant. *)

\* Whoever is between lock and unlock is the holder of m_mutex.
LockHolder ==
  /\ pc \in {"disp_exec", "disp_write", "disp_thread", "disp_push",
             "wait_check"} <=> m_mutex = Main
  /\ \A i \in Id : worker[i] \in {"cb_set", "cb_push", "cb_notify",
                                   "cb_unlock"} <=> m_mutex = i

\* The worker of a task is never ahead of its child and of its own reading.
StagesInOrder ==
  \A i \in Id :
     /\ worker[i] \notin {"none", "waitpid"} => child[i] = "exited"
     /\ child[i] = "exited" => sent[i] = ResultSize[i]
     /\ worker[i] \notin {"none", "waitpid", "read"} => got[i] = ResultSize[i]
     /\ worker[i] \in {"cb_push", "cb_notify", "cb_unlock", "exited"} =>
          i \in targets

\* Ids are fresh, and every running worker is in m_threads or about to be.
CallerInOrder ==
  /\ \A i \in Id : i >= m_next_id => child[i] = "none" /\ worker[i] = "none"
  /\ pc \in {"disp_lock", "disp_exec"} => child[cur] = "none"
  /\ pc \in {"disp_lock", "disp_exec", "disp_write", "disp_thread"} =>
       worker[cur] = "none"
  /\ pc \in {"disp_lock", "disp_exec", "disp_write", "disp_thread",
             "disp_push"} => cur < m_next_id
  /\ \A i \in Id : \/ worker[i] = "none"
                  \/ i \in m_threads
                  \/ (pc = "disp_push" /\ cur = i)

IInv == /\ TypeOK
        /\ LockHolder
        /\ StagesInOrder
        /\ CallerInOrder
        /\ ExactlyOnce
        /\ NoLostWakeup
        /\ NoUseAfterDestroy

-----------------------------------------------------------------------------
(* The promise of Dispatcher, implemented.  An invocation counts as issued   *)
(* when its worker has started, behind which dispatch_impl does not fail, as *)
(* completed from the moment its id is in m_finished.                        *)
Promise == INSTANCE Dispatcher WITH
  issued    <- {i \in Id : worker[i] # "none"},
  completed <- ToSet(m_finished) \union ToSet(returned),
  returned  <- ToSet(returned),
  up        <- host = "alive" /\ pc # "destroyed"

\* Every behaviour is one the abstract dispatcher allows.
KeepsPromise == Promise!Safe

\* With a caller that waits, so is its progress.
KeepsWholePromise == Promise!Spec
=============================================================================
