----------------------------- MODULE Dispatcher -----------------------------
(***************************************************************************)
(* What every dispatcher instance of cppless promises its caller.  The     *)
(* three instances (local processes, HTTP/2, HTTP/1.1) offer the same two  *)
(* operations, dispatch_impl and wait_one; the comment above wait_one in   *)
(* include/cppless/dispatcher/local.hpp states the promise: wait_one       *)
(* returns the id of a finished invocation, in no particular order, and    *)
(* every dispatched invocation exactly once.                               *)
(***************************************************************************)
CONSTANT Id       \* the ids dispatch_impl can hand out

VARIABLES
  issued,         \* ids of the invocations that were started
  completed,      \* ids whose result has arrived in the caller's target
  returned,       \* ids wait_one has handed back
  up              \* FALSE once the instance is destroyed or its process died

vars == <<issued, completed, returned, up>>

Init == /\ issued = {}
        /\ completed = {}
        /\ returned = {}
        /\ up = TRUE

\* dispatch_impl starts an invocation under a fresh id.
Issue(i) == /\ up
            /\ i \notin issued
            /\ issued' = issued \union {i}
            /\ UNCHANGED <<completed, returned, up>>

\* The result of an invocation arrives; it becomes visible to wait_one.
Complete(i) == /\ up
               /\ i \in issued \ completed
               /\ completed' = completed \union {i}
               /\ UNCHANGED <<issued, returned, up>>

\* wait_one returns one arbitrary finished invocation, never twice the same.
Return(i) == /\ up
             /\ i \in completed \ returned
             /\ returned' = returned \union {i}
             /\ UNCHANGED <<issued, completed, up>>

\* The instance goes out of scope, or its process dies.
Stop == /\ up
        /\ up' = FALSE
        /\ UNCHANGED <<issued, completed, returned>>

Next == \/ \E i \in Id : Issue(i) \/ Complete(i) \/ Return(i)
        \/ Stop

\* The promise without its liveness half.
Safe == Init /\ [][Next]_vars

\* The whole promise, to a caller that keeps calling wait_one while results
\* are outstanding: every invocation completes and is returned, unless the
\* instance goes away first.
Spec == /\ Safe
        /\ \A i \in Id : WF_vars(Complete(i))
        /\ \A i \in Id : WF_vars(Return(i))
=============================================================================
