------------------------------- MODULE Tracing -------------------------------
(***************************************************************************)
(* Tracing spans over processes (utils/tracing.hpp) as do_task of          *)
(* examples/aws/dispatcher.cpp uses them: a process dispatches its callees, *)
(* each of which records spans in a container of its own, on a clock of    *)
(* its own; with the result comes the container, which the caller inserts  *)
(* below the span of the call.  Every step of a process takes time.        *)
(***************************************************************************)
EXTENDS Integers, Sequences

CONSTANTS
  Proc,           \* the processes
  Host,           \* the one that runs main
  Callees,        \* [Proc -> the processes do_task dispatches, in order]
  Skew            \* [Proc -> what its clock is ahead of the true time]

VARIABLES
  now,            \* the true time
  pc,             \* [Proc -> where the process is]
  m_spans,        \* [Proc -> its container]
  call,           \* [Proc -> index of the span of its call, in the caller's]
  end,            \* [Proc -> the time it sends along with its container]
  received,       \* [Proc -> when its caller has taken its result]
  inserted        \* processes whose container has been inserted

procVars == <<pc, call, end, received, inserted>>
vars == <<now, m_spans, procVars>>

Calls(p) == {Callees[p][k] : k \in DOMAIN Callees[p]}

ASSUME ProcAssumption == /\ Host \in Proc
                         /\ Skew \in [Proc -> Int]

\* Every dispatch makes a process of its own; main is not dispatched.
ASSUME CalleesAssumption ==
  /\ \A p \in Proc : Calls(p) \subseteq Proc \ {Host}
  /\ \A p, r \in Proc : p # r => Calls(p) \intersect Calls(r) = {}

\* Those that come before callee q in p.
Earlier(p, q) == {Callees[p][j] : j \in {j \in DOMAIN Callees[p] :
                    \A k \in DOMAIN Callees[p] : Callees[p][k] = q => j < k}}

Clock(p) == now + Skew[p]

-----------------------------------------------------------------------------
(* The container.  A span whose start was not called has the time 0; id and    *)
(* want, the id of its true parent, and timed are not in the code.             *)

Id == Proc \X (Nat \ {0})
Span == [id : Id, want : Id, parent : Nat, timed : BOOLEAN,
         start_time : Int, end_time : Int]

\* create_root: a root is its own parent.
CreateRoot(p, timed) ==
  <<[id |-> <<p, 1>>, want |-> <<p, 1>>, parent |-> 1, timed |-> timed,
     start_time |-> IF timed THEN Clock(p) ELSE 0, end_time |-> 0]>>

\* create_child, followed by start if timed.
CreateChild(p, spans, parent, timed) ==
  Append(spans, [id |-> <<p, Len(spans) + 1>>, want |-> spans[parent].id,
                 parent |-> parent, timed |-> timed,
                 start_time |-> IF timed THEN Clock(p) ELSE 0, end_time |-> 0])

EndSpan(spans, i, t) == [spans EXCEPT ![i].end_time = t]

\* Faulty variants: the parents are not shifted; the times are the wrong way.
ConcatUnshifted(spans, other, diff) ==
  spans \o [i \in DOMAIN other |->
    [other[i] EXCEPT !.start_time = @ + diff, !.end_time = @ + diff]]
ConcatBackwards(spans, other, diff) ==
  spans \o [i \in DOMAIN other |->
    [other[i] EXCEPT !.parent = @ + Len(spans),
                     !.start_time = @ - diff, !.end_time = @ - diff]]

Concat(spans, other, diff) ==
  spans \o [i \in DOMAIN other |->
    [other[i] EXCEPT !.parent = @ + Len(spans),
                     !.start_time = @ + diff, !.end_time = @ + diff]]

\* Faulty variant: the offset is left out where the root gets its parent.
InsertUnshifted(spans, at, other, root, diff) ==
  [Concat(spans, other, diff) EXCEPT
     ![root + Len(spans)].want = spans[at].id, ![root].parent = at]

\* insert below span "at".
Insert(spans, at, other, root, diff) ==
  [Concat(spans, other, diff) EXCEPT
     ![root + Len(spans)].want = spans[at].id,
     ![root + Len(spans)].parent = at]

-----------------------------------------------------------------------------
\* main creates a root and does not start it.
Init == /\ now = 1
        /\ pc = [p \in Proc |-> IF p = Host THEN "running" ELSE "none"]
        /\ m_spans = [p \in Proc |-> IF p = Host
                                     THEN CreateRoot(p, FALSE)
                                     ELSE <<>>]
        /\ call = [p \in Proc |-> 0]
        /\ end = [p \in Proc |-> 0]
        /\ received = [p \in Proc |-> 0]
        /\ inserted = {}

\* The lambda t0 begins in its process.
Start(p) == /\ pc[p] = "called"
            /\ pc' = [pc EXCEPT ![p] = "running"]
            /\ m_spans' = [m_spans EXCEPT ![p] = CreateRoot(p, TRUE)]
            /\ now' = now + 1
            /\ UNCHANGED <<call, end, received, inserted>>

\* do_task opens the span of a call, of all calls before the first dispatch.
OpenCall(p, q) ==
  /\ pc[p] = "running"
  /\ q \in Calls(p) /\ call[q] = 0
  /\ \A r \in Earlier(p, q) : call[r] # 0
  /\ m_spans' = [m_spans EXCEPT ![p] = CreateChild(p, @, 1, TRUE)]
  /\ call' = [call EXCEPT ![q] = Len(m_spans'[p])]
  /\ now' = now + 1
  /\ UNCHANGED <<pc, end, received, inserted>>

\* dispatch, with a child span for the dispatcher.
Dispatch(p, q) ==
  /\ pc[p] = "running"
  /\ q \in Calls(p) /\ pc[q] = "none"
  /\ \A r \in Calls(p) : call[r] # 0
  /\ \A r \in Earlier(p, q) : pc[r] # "none"
  /\ m_spans' = [m_spans EXCEPT ![p] = CreateChild(p, @, call[q], FALSE)]
  /\ pc' = [pc EXCEPT ![q] = "called"]
  /\ now' = now + 1
  /\ UNCHANGED <<call, end, received, inserted>>

\* wait_one returns; the time is taken before the first call's span is ended and
\* after the later ones' are.
Receive(p, q) ==
  LET first == \A r \in Calls(p) : received[r] = 0
      at == Clock(p) + (IF first THEN 0 ELSE 1) IN
  /\ pc[p] = "running"
  /\ \A r \in Calls(p) : pc[r] # "none"
  /\ q \in Calls(p) /\ pc[q] = "done" /\ received[q] = 0
  /\ received' = [received EXCEPT ![q] = at]
  /\ m_spans' = [m_spans EXCEPT ![p] =
                   EndSpan(@, call[q], Clock(p) + (IF first THEN 1 ELSE 0))]
  /\ now' = now + 2
  /\ UNCHANGED <<pc, call, end, inserted>>

\* A child "remote" of the call's span, and the container below it.
InsertRemote(p, q) ==
  /\ pc[p] = "running"
  /\ q \in Calls(p) \ inserted
  /\ \A r \in Calls(p) : received[r] # 0
  /\ Earlier(p, q) \subseteq inserted
  /\ LET spans == CreateChild(p, m_spans[p], call[q], FALSE) IN
     m_spans' = [m_spans EXCEPT ![p] =
                   Insert(spans, Len(spans), m_spans[q], 1, received[q] - end[q])]
  /\ inserted' = inserted \union {q}
  /\ now' = now + 1
  /\ UNCHANGED <<pc, call, end, received>>

\* t0 ends its root and then takes the time that it sends along.
Finish(p) ==
  /\ p # Host
  /\ pc[p] = "running"
  /\ Calls(p) \subseteq inserted
  /\ m_spans' = [m_spans EXCEPT ![p] = EndSpan(@, 1, Clock(p))]
  /\ end' = [end EXCEPT ![p] = Clock(p) + 1]
  /\ pc' = [pc EXCEPT ![p] = "done"]
  /\ now' = now + 2
  /\ UNCHANGED <<call, received, inserted>>

Next == \E p \in Proc :
          \/ Start(p) \/ Finish(p)
          \/ \E q \in Proc : \/ OpenCall(p, q) \/ Dispatch(p, q)
                             \/ Receive(p, q) \/ InsertRemote(p, q)

Spec == Init /\ [][Next]_vars

-----------------------------------------------------------------------------
(* Properties. *)

\* In every container every parent is a span of it that comes first: the spans
\* are a forest, however many containers have been inserted into one another.
Forest ==
  \A p \in Proc : \A i \in DOMAIN m_spans[p] : m_spans[p][i].parent \in 1 .. i

\* The parent of a span, wherever it has been copied to, is the span it was
\* created under; that of an inserted root is the "remote" span of its call.
ParentsAreRight ==
  \A p \in Proc : \A i \in DOMAIN m_spans[p] :
    LET span == m_spans[p][i] IN
    span.parent \in DOMAIN m_spans[p] =>
      m_spans[p][span.parent].id = span.want

\* The processes that run below q: the least set that has q and, with a process,
\* those it calls.
Closed(S) == \A p \in S : Calls(p) \subseteq S
Below == [q \in Proc |-> {r \in Proc : \A S \in SUBSET Proc :
                                         q \in S /\ Closed(S) => r \in S}]

\* On the caller's clock, whatever the clocks of the others, the spans of a
\* callee begin after its call and end before its result was received.
RemoteInsideCall ==
  \A p \in Proc : \A q \in Calls(p) : \A i \in DOMAIN m_spans[p] :
    LET span == m_spans[p][i] IN
    span.timed /\ span.id[1] \in Below[q] =>
       /\ m_spans[p][call[q]].start_time <= span.start_time
       /\ span.start_time <= span.end_time
       /\ span.end_time <= received[q]
=============================================================================
