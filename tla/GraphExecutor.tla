---------------------------- MODULE GraphExecutor ----------------------------
(***************************************************************************)
(* A task graph and the executor that runs it through a dispatcher:        *)
(* schedule and then (graph/execution.hpp) build the nodes of              *)
(* graph/graph.hpp, await_all of graph/host_controller_executor.hpp runs   *)
(* them.  The dispatcher is the abstract one of module Dispatcher, which   *)
(* LocalDispatcher, Nghttp2Dispatcher and BeastDispatcher implement.       *)
(*                                                                         *)
(* The executor has one thread.  A node that has no senders left to wait   *)
(* for is pushed on the stack m_ready_nodes; what is on the stack is run   *)
(* before wait_one is called.                                              *)
(***************************************************************************)
EXTENDS Integers, Sequences, FiniteSets

CONSTANTS
  MaxNodes,   \* bound: nodes of the graph
  MaxArgs,    \* bound: senders of a node
  MaxAwaits,  \* bound: calls of await_all
  Futures,    \* what the future of a new node may hold before await_all
  MayThrow    \* nodes for which dispatch_impl may throw

ASSUME GraphAssumption == /\ MaxNodes \in Nat \ {0}
                          /\ MaxArgs \in Nat \ {0}
                          /\ MaxAwaits \in Nat
                          /\ Futures \subseteq {"empty", "seed"}
                          /\ MayThrow \subseteq Nat

VARIABLES
  pc,                 \* "user" or "run" (in await_all)
  awaits,             \* calls of await_all
  threw,              \* an await_all has ended with an exception
  size,               \* number of nodes
  kind,               \* [Node -> "none", "source" or "task"]
  senders,            \* [Node -> Seq(Node)]: who fills which receiver slot
  count,              \* [Node -> m_dependency_count]
  slot,               \* [Node -> [slot number -> Value]]
  future,             \* [Node -> Value]: its shared future
  m_ready_nodes,      \* the stack of nodes to run
  running_nodes,
  m_future_node_map,  \* element id + 1 is the node of invocation id
  ran,                \* [Node -> runs in the current or last await_all]
  issued, completed, returned, up   \* the dispatcher instance

graphVars      == <<size, kind, senders>>
nodeVars       == <<count, slot, future>>
dispatcherVars == <<issued, completed, returned, up>>
vars == <<pc, awaits, threw, graphVars, nodeVars, m_ready_nodes, running_nodes,
          m_future_node_map, ran, dispatcherVars>>

Node   == 0 .. MaxNodes - 1
SlotNo == 1 .. MaxArgs
\* What a slot or a shared future holds.
Value  == {"empty", "seed", "result"}

D == INSTANCE Dispatcher WITH Id <- Nat

Init == /\ pc = "user"
        /\ awaits = 0
        /\ threw = FALSE
        /\ size = 0
        /\ kind = [n \in Node |-> "none"]
        /\ senders = [n \in Node |-> <<>>]
        /\ count = [n \in Node |-> 0]
        /\ slot = [n \in Node |-> [k \in SlotNo |-> "empty"]]
        /\ future = [n \in Node |-> "empty"]
        /\ m_ready_nodes = <<>>
        /\ running_nodes = {}
        /\ m_future_node_map = <<>>
        /\ ran = [n \in Node |-> 0]
        /\ D!Init

-----------------------------------------------------------------------------
(* Building the graph, before and between the calls of await_all. *)

Building == /\ pc = "user"
            /\ up
            /\ awaits < MaxAwaits
            /\ size < MaxNodes
            /\ size' = size + 1

Schedule == /\ Building
            /\ kind' = [kind EXCEPT ![size] = "source"]
            /\ UNCHANGED <<pc, awaits, threw, senders, count, slot, future,
                           m_ready_nodes, running_nodes, m_future_node_map,
                           ran, dispatcherVars>>

\* Faulty variant: a void sender is counted once for its edge and once for its
\* empty slot.
ThenCountsVoidTwice(from) ==
  /\ Building
  /\ kind' = [kind EXCEPT ![size] = "task"]
  /\ senders' = [senders EXCEPT ![size] = from]
  /\ count' = [count EXCEPT ![size] =
       Len(from) + Cardinality({k \in DOMAIN from : kind[from[k]] = "source"})]
  /\ \E v \in Futures : future' = [future EXCEPT ![size] = v]
  /\ UNCHANGED <<pc, awaits, threw, slot, m_ready_nodes, running_nodes,
                 m_future_node_map, ran, dispatcherVars>>

\* A new task node; every sender takes the next slot and counts as one
\* dependency, a void sender through an empty slot.  The caller may set the
\* new node's future.
Then(from) ==
  /\ Building
  /\ kind' = [kind EXCEPT ![size] = "task"]
  /\ senders' = [senders EXCEPT ![size] = from]
  /\ count' = [count EXCEPT ![size] = Len(from)]
  /\ \E v \in Futures : future' = [future EXCEPT ![size] = v]
  /\ UNCHANGED <<pc, awaits, threw, slot, m_ready_nodes, running_nodes,
                 m_future_node_map, ran, dispatcherVars>>

SendersOfNew == UNION {[1 .. k -> 0 .. size - 1] : k \in SlotNo}

-----------------------------------------------------------------------------
(* propagate_value and notify. *)

\* The slots of node n that node p fills.
SlotsFrom(p, n) == {k \in 1 .. Len(senders[n]) : senders[n][k] = p}

\* The nodes of S in the order of their ids, the order in which the vectors of
\* nodes and of successors hold them.
InOrder(S) == {s \in [1 .. Cardinality(S) -> S] :
                 /\ \A i, j \in DOMAIN s : i < j => s[i] < s[j]
                 /\ \A n \in S : \E i \in DOMAIN s : s[i] = n}

\* Faulty variant: a node is ready behind the first value.
ReachesZeroAtFirst(p) ==
  {n \in 0 .. size - 1 : SlotsFrom(p, n) # {} /\ count[n] = Len(senders[n])}

\* Faulty variant: every notification that leaves the count at or below 0 makes
\* the node ready, not only the one that takes it to 0.
ReachesZeroOrBelow(p) ==
  {n \in 0 .. size - 1 : /\ SlotsFrom(p, n) # {}
                         /\ count[n] - Cardinality(SlotsFrom(p, n)) <= 0}

\* The nodes whose dependency count passes 0 when p notifies its successors.
ReachesZero(p) ==
  {n \in 0 .. size - 1 :
     /\ count[n] > 0
     /\ count[n] - Cardinality(SlotsFrom(p, n)) <= 0}

\* Node p hands its value to every slot it fills and notifies the slot's node;
\* what becomes ready is pushed on the stack "rest".  A source has no value.
PropagateValue(p, rest) ==
  /\ slot' = [n \in Node |-> [k \in SlotNo |->
                IF kind[p] = "task" /\ k \in SlotsFrom(p, n)
                THEN future[p] ELSE slot[n][k]]]
  /\ count' = [n \in Node |-> count[n] - Cardinality(SlotsFrom(p, n))]
  /\ \E ready \in InOrder(ReachesZero(p)) : m_ready_nodes' = rest \o ready

-----------------------------------------------------------------------------
(* await_all *)

\* The nodes without dependencies are pushed on the stack, on top of what an
\* await_all that ended with an exception has left there.
Await ==
  /\ pc = "user"
  /\ up
  /\ awaits < MaxAwaits
  /\ pc' = "run"
  /\ awaits' = awaits + 1
  /\ running_nodes' = {}
  /\ ran' = [n \in Node |-> 0]
  /\ \E ready \in InOrder({n \in 0 .. size - 1 : count[n] = 0}) :
        m_ready_nodes' = m_ready_nodes \o ready
  /\ UNCHANGED <<threw, graphVars, count, slot, future, m_future_node_map,
                 dispatcherVars>>

Top(s)  == s[Len(s)]
Rest(s) == SubSeq(s, 1, Len(s) - 1)

\* The arguments of task n are there, and its future has a value that the
\* dispatcher can take a reference to.
CanRun(n) ==
  /\ future[n] # "empty"
  /\ \A k \in 1 .. Len(senders[n]) :
        kind[senders[n][k]] = "task" => slot[n][k] # "empty"

\* The frame of running the node on top of the stack.
Running(n) == /\ pc = "run"
              /\ m_ready_nodes # <<>>
              /\ n = Top(m_ready_nodes)
              /\ UNCHANGED <<awaits, graphVars, future>>

\* A source does nothing but notify its successors.
RunSource(n) == /\ Running(n)
                /\ kind[n] = "source"
                /\ PropagateValue(n, Rest(m_ready_nodes))
                /\ ran' = [ran EXCEPT ![n] = @ + 1]
                /\ UNCHANGED <<pc, threw, running_nodes, m_future_node_map,
                               dispatcherVars>>

\* Faulty variant: the value is propagated at once.
RunTaskPropagates(n) ==
  /\ Running(n)
  /\ kind[n] = "task"
  /\ CanRun(n)
  /\ D!Issue(Len(m_future_node_map))
  /\ m_future_node_map' = Append(m_future_node_map, n)
  /\ running_nodes' = running_nodes \union {n}
  /\ PropagateValue(n, Rest(m_ready_nodes))
  /\ ran' = [ran EXCEPT ![n] = @ + 1]
  /\ UNCHANGED <<pc, threw>>

\* A task is dispatched; ids are handed out in order.
RunTask(n) ==
  /\ Running(n)
  /\ kind[n] = "task"
  /\ CanRun(n)
  /\ D!Issue(Len(m_future_node_map))
  /\ m_future_node_map' = Append(m_future_node_map, n)
  /\ running_nodes' = running_nodes \union {n}
  /\ m_ready_nodes' = Rest(m_ready_nodes)
  /\ ran' = [ran EXCEPT ![n] = @ + 1]
  /\ UNCHANGED <<pc, threw, count, slot>>

\* An argument or the future is an empty optional and value() throws, or
\* dispatch_impl throws, out of await_all.  The node is off the stack, and the
\* rest stays there.
RunThrows(n) ==
  /\ Running(n)
  /\ kind[n] = "task"
  /\ ~CanRun(n) \/ n \in MayThrow
  /\ pc' = "user"
  /\ threw' = TRUE
  /\ m_ready_nodes' = Rest(m_ready_nodes)
  /\ running_nodes' = {}
  /\ UNCHANGED <<count, slot, m_future_node_map, ran, dispatcherVars>>

\* Faulty variant: the node is not taken out of running_nodes.
WaitOneKeepsRunning(i) ==
  /\ pc = "run"
  /\ m_ready_nodes = <<>>
  /\ running_nodes # {}
  /\ D!Return(i)
  /\ PropagateValue(m_future_node_map[i + 1], <<>>)
  /\ UNCHANGED <<pc, awaits, threw, graphVars, running_nodes, future,
                 m_future_node_map, ran>>

\* Nothing is ready, something is running: wait_one, and the value of the
\* node it returns is propagated.
WaitOne(i) ==
  /\ pc = "run"
  /\ m_ready_nodes = <<>>
  /\ running_nodes # {}
  /\ D!Return(i)
  /\ running_nodes' = running_nodes \ {m_future_node_map[i + 1]}
  /\ PropagateValue(m_future_node_map[i + 1], <<>>)
  /\ UNCHANGED <<pc, awaits, threw, graphVars, future, m_future_node_map, ran>>

\* Faulty variant: await_all returns when nothing is ready.
AwaitReturnsEarly == /\ pc = "run"
                     /\ m_ready_nodes = <<>>
                     /\ pc' = "user"
                     /\ UNCHANGED <<awaits, threw, graphVars, count, slot,
                                    future, m_ready_nodes, running_nodes,
                                    m_future_node_map, ran, dispatcherVars>>

AwaitReturns == /\ pc = "run"
                /\ m_ready_nodes = <<>>
                /\ running_nodes = {}
                /\ pc' = "user"
                /\ UNCHANGED <<awaits, threw, graphVars, count, slot, future,
                               m_ready_nodes, running_nodes,
                               m_future_node_map, ran, dispatcherVars>>

-----------------------------------------------------------------------------
\* The builder goes out of scope, and with it the executor and its dispatcher
\* instance.
Destroy == /\ pc = "user"
           /\ D!Stop
           /\ UNCHANGED <<pc, awaits, threw, graphVars, count, slot, future,
                          m_ready_nodes, running_nodes, m_future_node_map,
                          ran>>

\* The dispatcher finishes an invocation: its result is in the future of the
\* node, whose reference the invocation holds.
Complete(i) ==
  /\ D!Complete(i)
  /\ future' = [future EXCEPT ![m_future_node_map[i + 1]] = "result"]
  /\ UNCHANGED <<pc, awaits, threw, graphVars, count, slot, m_ready_nodes,
                 running_nodes, m_future_node_map, ran>>

-----------------------------------------------------------------------------
RunNode == \E n \in Node : RunSource(n) \/ RunTask(n) \/ RunThrows(n)

Build == Schedule \/ \E from \in SendersOfNew : Then(from)

Executor == RunNode \/ AwaitReturns \/ \E i \in completed : WaitOne(i)

\* The instance is gone, and its results with it.
Ended == ~up /\ UNCHANGED vars

Next == \/ Build \/ Await \/ Executor \/ Destroy
        \/ \E i \in issued : Complete(i)
        \/ Ended

Spec == Init /\ [][Next]_vars

\* The thread in await_all runs; the dispatcher keeps its promise.
FairSpec == /\ Spec
            /\ WF_vars(Executor)
            /\ WF_vars(\E i \in issued : Complete(i))

-----------------------------------------------------------------------------
(* Properties. *)

Created == 0 .. size - 1

TypeOK ==
  /\ pc \in {"user", "run"}
  /\ awaits \in 0 .. MaxAwaits
  /\ threw \in BOOLEAN
  /\ size \in 0 .. MaxNodes
  /\ kind \in [Node -> {"none", "source", "task"}]
  /\ senders \in [Node -> Seq(Node)]
  /\ \A n \in Node : Len(senders[n]) <= MaxArgs
  /\ count \in [Node -> Int]
  /\ \A n \in Node : count[n] <= Len(senders[n])
  /\ slot \in [Node -> [SlotNo -> Value]]
  /\ future \in [Node -> Value]
  /\ m_ready_nodes \in Seq(Node)
  /\ running_nodes \subseteq Node
  /\ m_future_node_map \in Seq(Node)
  /\ ran \in [Node -> Nat]
  /\ issued = 0 .. Len(m_future_node_map) - 1
  /\ completed \subseteq issued
  /\ returned \subseteq completed

Finished(n) == ran[n] = 1 /\ n \notin running_nodes

Ready(n) == \E i \in DOMAIN m_ready_nodes : m_ready_nodes[i] = n

\* Until an await_all throws, a node is pushed once in each call and then run
\* once, however often it is notified, and not while it waits for senders.
OnceEach ==
  ~threw =>
    /\ \A i, j \in DOMAIN m_ready_nodes :
         m_ready_nodes[i] = m_ready_nodes[j] => i = j
    /\ \A n \in Node : /\ ran[n] \in {0, 1}
                       /\ Ready(n) => ran[n] = 0
                       /\ n \in running_nodes => ran[n] = 1
    /\ pc = "run" => \A n \in Node : count[n] > 0 => ran[n] = 0 /\ ~Ready(n)

\* In the first await_all a node is ready or run only when every node it
\* depends on has finished in it.
SendersFirst ==
  awaits = 1 /\ ~threw =>
    \A n \in Created :
       ran[n] > 0 \/ (\E i \in DOMAIN m_ready_nodes : m_ready_nodes[i] = n) =>
         \A k \in 1 .. Len(senders[n]) : Finished(senders[n][k])

\* In the first three calls of await_all, until one has thrown, the arguments
\* of a ready task are results of its senders: args() does not throw, and no
\* seed is passed on.  (In the fourth one a source may have been counted twice for a node
\* whose other sender has stopped running.)
ArgumentsAreResults ==
  awaits <= 3 /\ ~threw =>
    \A i \in DOMAIN m_ready_nodes :
      LET n == m_ready_nodes[i] IN
      \A k \in 1 .. Len(senders[n]) :
         kind[senders[n][k]] = "task" => slot[n][k] = "result"

\* wait_one is called only while an invocation is outstanding: it would never
\* return otherwise.
WaitsForSomething ==
  pc = "run" /\ m_ready_nodes = <<>> /\ running_nodes # {} => issued # returned

\* When the first or the second await_all returns, every node has run in it
\* and every invocation has been returned.  (Behind the second one the
\* dependency counts of the nodes with senders are negative.)
AwaitsAll ==
  [][(pc = "run" /\ pc' = "user" /\ ~threw' /\ awaits <= 2) =>
       /\ \A n \in Created : ran[n] = 1
       /\ returned = issued]_vars

\* The parts of the inductive invariant.

\* A node is behind its senders; stack and map hold nodes of the graph.
GraphIsBuilt ==
  /\ pc = "run" => awaits >= 1
  /\ \A n \in Node : \A k \in 1 .. Len(senders[n]) : senders[n][k] < n
  /\ \A n \in Node \ Created : senders[n] = <<>> /\ count[n] = 0 /\ ran[n] = 0
  /\ \A i \in DOMAIN m_ready_nodes : m_ready_nodes[i] \in Created
  /\ \A i \in DOMAIN m_future_node_map : m_future_node_map[i] \in Created

\* The futures of what has completed are not written again, and every running
\* node has its outstanding invocation.
NodesOfInvocations ==
  /\ \A i \in completed : future[m_future_node_map[i + 1]] = "result"
  /\ \A n \in running_nodes :
       \E i \in issued \ returned : m_future_node_map[i + 1] = n

\* Until an await_all throws, the outstanding invocations are those of the
\* running nodes, one for each, and nothing outlives its await_all.
InvocationsOfNodes ==
  ~threw =>
    /\ pc = "user" => m_ready_nodes = <<>> /\ running_nodes = {}
    /\ \A i \in issued \ returned : m_future_node_map[i + 1] \in running_nodes
    /\ \A i, j \in issued \ returned :
         m_future_node_map[i + 1] = m_future_node_map[j + 1] => i = j

\* The slots whose senders have finished in this await_all, and the dependency
\* count with which the node entered it.
FinishedSlots(n) == {k \in 1 .. Len(senders[n]) : Finished(senders[n][k])}
CountBefore(n) == count[n] + Cardinality(FinishedSlots(n))

\* Behind call "a" of await_all a node of the graph has waited for its senders
\* not at all, once or twice.
Counts(a, n) ==
  {c \in {Len(senders[n]), 0, -Len(senders[n])} :
     \/ c = Len(senders[n])
     \/ c = 0 /\ a >= 1
     \/ c = -Len(senders[n]) /\ a >= 2}

SlotsFilled(n, S) ==
  \A k \in S : kind[senders[n][k]] = "task" => slot[n][k] = "result"

\* Counts and slots tell how far the senders are.
CountsKept ==
  ~threw =>
    /\ pc = "user" /\ awaits <= 2 =>
         \A n \in Created :
            /\ count[n] \in Counts(awaits, n)
            /\ count[n] <= 0 => SlotsFilled(n, 1 .. Len(senders[n]))
    /\ pc = "run" /\ awaits <= 3 =>
         \A n \in Created :
            /\ CountBefore(n) \in Counts(awaits - 1, n)
            /\ SlotsFilled(n, FinishedSlots(n))
            /\ CountBefore(n) <= 0 => SlotsFilled(n, 1 .. Len(senders[n]))

\* In the first two calls no node is left behind.
NoneForgotten ==
  pc = "run" /\ awaits <= 2 /\ ~threw =>
    \A n \in Created : count[n] <= 0 => Ready(n) \/ ran[n] = 1

\* The inductive invariant: dependency counts, slots, the stack and the
\* outstanding invocations agree on which nodes have finished.
IInv == /\ TypeOK /\ GraphIsBuilt /\ NodesOfInvocations /\ InvocationsOfNodes
        /\ OnceEach /\ CountsKept /\ NoneForgotten /\ SendersFirst

\* await_all ends, by returning or with an exception.
AwaitEnds == pc = "run" ~> pc = "user"

\* The future of every task that the caller has built has its result after
\* await_all.
ResultsArrive ==
  \A n \in Node : (pc = "run" /\ kind[n] = "task") ~> future[n] = "result"
=============================================================================
