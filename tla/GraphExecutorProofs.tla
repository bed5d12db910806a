------------------------- MODULE GraphExecutorProofs -------------------------
(***************************************************************************)
(* For graphs of every size: nodes run behind their senders, with the      *)
(* results of their senders, each once, and wait_one is called only while  *)
(* an invocation is outstanding.  The heart of the argument is CountsKept: *)
(* what a node's dependency count and the senders that have finished in    *)
(* this await_all add up to does not change while await_all runs; that     *)
(* nodes are behind their senders then leaves none of them waiting, so     *)
(* that await_all returns only when every node has run.                    *)
(***************************************************************************)
EXTENDS GraphExecutor, SequencesExt, SequenceTheorems, FiniteSetTheorems,
        WellFoundedInduction, TLAPS

-----------------------------------------------------------------------------
(* Vectors, sets of indices and sets of numbers. *)

\* Elements pushed one after the other are those of both sequences; there are no
\* duplicates if the sequences have none and share none.
LEMMA ConcatElements ==
  ASSUME NEW S, NEW s \in Seq(S), NEW t \in Seq(S)
  PROVE  /\ s \o t \in Seq(S)
         /\ ToSet(s \o t) = ToSet(s) \union ToSet(t)
         /\ /\ IsInjective(s) /\ IsInjective(t)
            /\ ToSet(s) \intersect ToSet(t) = {}
            => IsInjective(s \o t)
<1> DEFINE c == s \o t
<1>1. /\ Len(s) \in Nat /\ Len(t) \in Nat
      /\ DOMAIN s = 1 .. Len(s) /\ DOMAIN t = 1 .. Len(t)
  BY LenProperties
<1>2. /\ c \in Seq(S) /\ Len(c) = Len(s) + Len(t)
      /\ \A i \in 1 .. Len(s) : c[i] = s[i]
      /\ \A j \in 1 .. Len(t) : c[Len(s) + j] = t[j]
  BY <1>1
<1>3. DOMAIN c = 1 .. Len(s) + Len(t)
  BY <1>2
<1> HIDE DEF c
<1>4. \A i \in 1 .. Len(s) + Len(t) :
        i \in 1 .. Len(s) \/ \E j \in 1 .. Len(t) : i = Len(s) + j
  <2> SUFFICES ASSUME NEW i \in 1 .. Len(s) + Len(t), i \notin 1 .. Len(s)
               PROVE  \E j \in 1 .. Len(t) : i = Len(s) + j
    OBVIOUS
  <2>1. i - Len(s) \in 1 .. Len(t) /\ i = Len(s) + (i - Len(s))
    BY <1>1
  <2> QED BY <2>1
<1>5. ToSet(c) = ToSet(s) \union ToSet(t)
  <2>1. ASSUME NEW i \in 1 .. Len(s) + Len(t)
        PROVE  c[i] \in ToSet(s) \union ToSet(t)
    <3>1. CASE i \in 1 .. Len(s)
      BY <1>1, <1>2, <3>1 DEF ToSet
    <3>2. CASE i \notin 1 .. Len(s)
      <4>1. PICK j \in 1 .. Len(t) : i = Len(s) + j
        BY <1>4, <3>2
      <4> QED BY <1>1, <1>2, <4>1 DEF ToSet
    <3> QED BY <3>1, <3>2
  <2>2. ToSet(s) \subseteq ToSet(c)
    <3>1. 1 .. Len(s) \subseteq DOMAIN c
      BY <1>1, <1>3
    <3> QED BY <1>1, <1>2, <3>1 DEF ToSet
  <2>3. ToSet(t) \subseteq ToSet(c)
    <3>1. \A j \in 1 .. Len(t) : Len(s) + j \in DOMAIN c
      BY <1>1, <1>3
    <3> QED BY <1>1, <1>2, <3>1 DEF ToSet
  <2> QED BY <1>3, <2>1, <2>2, <2>3 DEF ToSet
<1>6. ASSUME IsInjective(s), IsInjective(t), ToSet(s) \intersect ToSet(t) = {}
      PROVE  IsInjective(c)
  <2> SUFFICES ASSUME NEW i \in 1 .. Len(s) + Len(t),
                      NEW j \in 1 .. Len(s) + Len(t), c[i] = c[j]
               PROVE  i = j
    BY <1>3 DEF IsInjective
  <2>1. \A k \in 1 .. Len(s) : c[k] \in ToSet(s)
    BY <1>1, <1>2 DEF ToSet
  <2>2. \A k \in 1 .. Len(t) : c[Len(s) + k] \in ToSet(t)
    BY <1>1, <1>2 DEF ToSet
  <2>3. CASE i \in 1 .. Len(s) /\ j \in 1 .. Len(s)
    BY <1>1, <1>2, <1>6, <2>3 DEF IsInjective
  <2>4. CASE i \notin 1 .. Len(s) /\ j \notin 1 .. Len(s)
    <3>1. PICK k \in 1 .. Len(t), l \in 1 .. Len(t) :
            i = Len(s) + k /\ j = Len(s) + l
      BY <1>4, <2>4
    <3>2. t[k] = t[l]
      BY <1>2, <3>1
    <3> QED BY <1>1, <1>6, <3>1, <3>2 DEF IsInjective
  <2>5. CASE i \in 1 .. Len(s) <=> j \notin 1 .. Len(s)
    BY <1>4, <1>6, <2>1, <2>2, <2>5
  <2> QED BY <2>3, <2>4, <2>5
<1> QED BY <1>2, <1>5, <1>6 DEF c

\* The indices of a sequence have no more members than it has elements.
LEMMA IndexSet ==
  ASSUME NEW m \in Nat, NEW T, T \subseteq 1 .. m
  PROVE  /\ IsFiniteSet(T) /\ Cardinality(T) \in 0 .. m
         /\ Cardinality(T) = m <=> T = 1 .. m
<1>1. IsFiniteSet(1 .. m) /\ Cardinality(1 .. m) = m
  BY FS_Interval
<1>2. /\ IsFiniteSet(T) /\ Cardinality(T) <= Cardinality(1 .. m)
      /\ Cardinality(1 .. m) = Cardinality(T) => 1 .. m = T
  <2>1. \A U \in SUBSET (1 .. m) :
          /\ IsFiniteSet(U) /\ Cardinality(U) <= Cardinality(1 .. m)
          /\ Cardinality(1 .. m) = Cardinality(U) => 1 .. m = U
    BY <1>1, FS_Subset, Zenon
  <2> QED BY <2>1
<1>3. Cardinality(T) \in Nat
  BY <1>2, FS_CardinalityType
<1> QED BY <1>1, <1>2, <1>3

\* A set of natural numbers has a least member.
LEMMA LeastMember ==
  ASSUME NEW T, T \subseteq Nat, T # {}
  PROVE  \E x \in T : \A y \in T : x <= y
<1> DEFINE R == OpToRel(<, Nat)
<1>1. IsWellFoundedOn(R, Nat)
  BY NatLessThanWellFounded
<1>2. \A x, y \in Nat : y < x => <<y, x>> \in R
  BY DEF OpToRel
<1> HIDE DEF R
<1>3. PICK x \in T : \A y \in T : <<y, x>> \notin R
  BY <1>1, WFMin
<1>4. \A y \in T : ~ (y < x)
  BY <1>2, <1>3
<1>5. \A a, b \in Nat : ~ (b < a) => a <= b
  OBVIOUS
<1> QED BY <1>4, <1>5

-----------------------------------------------------------------------------
(* The operators of the model. *)

\* The stack as a set, and its top.
LEMMA ReadySet ==
  /\ \A n : Ready(n) <=> n \in ToSet(m_ready_nodes)
  /\ IsInjective(m_ready_nodes) <=>
       \A i, j \in DOMAIN m_ready_nodes :
          m_ready_nodes[i] = m_ready_nodes[j] => i = j
BY Zenon DEF Ready, ToSet, IsInjective

LEMMA CreatedNodes ==
  ASSUME TypeOK
  PROVE  /\ Created \subseteq Node /\ size \in Nat /\ MaxNodes \in Nat
         /\ \A n \in Node : n \in Nat /\ n \in Int
         /\ \A n \in Node : n \in Created <=> n < size
BY GraphAssumption DEF TypeOK, Created, Node

\* The nodes of a set in order are a sequence of just these nodes.
LEMMA InOrderFacts ==
  ASSUME NEW S, S \subseteq Node, NEW s \in InOrder(S)
  PROVE  s \in Seq(Node) /\ ToSet(s) = S /\ IsInjective(s)
<1>1. IsFiniteSet(S)
  <2>1. MaxNodes \in Nat /\ 0 \in Int /\ MaxNodes - 1 \in Int
    BY GraphAssumption
  <2>2. IsFiniteSet(0 .. MaxNodes - 1)
    BY <2>1, FS_Interval
  <2> QED BY <2>2, FS_Subset DEF Node
<1>2. Cardinality(S) \in Nat
  BY <1>1, FS_CardinalityType
<1>3. /\ s \in [1 .. Cardinality(S) -> S]
      /\ \A i, j \in DOMAIN s : i < j => s[i] < s[j]
      /\ \A n \in S : \E i \in DOMAIN s : s[i] = n
  BY DEF InOrder
<1>4. s \in Seq(Node)
  <2>1. s \in [1 .. Cardinality(S) -> Node]
    BY <1>3
  <2> QED BY <1>2, <2>1, SeqDef
<1>5. ToSet(s) = S
  BY <1>3 DEF ToSet
<1>6. IsInjective(s)
  <2> SUFFICES ASSUME NEW i \in DOMAIN s, NEW j \in DOMAIN s, s[i] = s[j]
               PROVE  i = j
    BY DEF IsInjective
  <2>1. i \in Int /\ j \in Int /\ s[i] \in Int
    <3>1. \A n \in Node : n \in Int
      BY GraphAssumption DEF Node
    <3> QED BY <1>2, <1>3, <3>1
  <2>2. ~ (i < j) /\ ~ (j < i)
    BY <1>3, <2>1
  <2> QED BY <2>1, <2>2
<1> QED BY <1>4, <1>5, <1>6

\* Slots of a node are some of its indices.
LEMMA SlotSets ==
  ASSUME TypeOK, NEW n \in Node, NEW p
  PROVE  /\ Len(senders[n]) \in Nat
         /\ SlotsFrom(p, n) \subseteq 1 .. Len(senders[n])
         /\ IsFiniteSet(SlotsFrom(p, n))
         /\ Cardinality(SlotsFrom(p, n)) \in Nat
         /\ SlotsFrom(p, n) = {} => Cardinality(SlotsFrom(p, n)) = 0
         /\ FinishedSlots(n) \subseteq 1 .. Len(senders[n])
         /\ IsFiniteSet(FinishedSlots(n))
         /\ Cardinality(FinishedSlots(n)) \in 0 .. Len(senders[n])
         /\ Cardinality(FinishedSlots(n)) = Len(senders[n]) <=>
              FinishedSlots(n) = 1 .. Len(senders[n])
         /\ count[n] \in Int
<1>1. Len(senders[n]) \in Nat /\ count[n] \in Int
  BY DEF TypeOK
<1>2. /\ SlotsFrom(p, n) \subseteq 1 .. Len(senders[n])
      /\ FinishedSlots(n) \subseteq 1 .. Len(senders[n])
  BY DEF SlotsFrom, FinishedSlots
<1>3. /\ IsFiniteSet(SlotsFrom(p, n))
      /\ Cardinality(SlotsFrom(p, n)) \in 0 .. Len(senders[n])
  BY <1>1, <1>2, IndexSet
<1>4. /\ IsFiniteSet(FinishedSlots(n))
      /\ Cardinality(FinishedSlots(n)) \in 0 .. Len(senders[n])
      /\ Cardinality(FinishedSlots(n)) = Len(senders[n]) <=>
           FinishedSlots(n) = 1 .. Len(senders[n])
  BY <1>1, <1>2, IndexSet
<1>5. SlotsFrom(p, n) = {} => Cardinality(SlotsFrom(p, n)) = 0
  BY FS_EmptySet
<1> QED BY <1>1, <1>2, <1>3, <1>4, <1>5

\* Until await_all throws, a node on the stack or behind its run waits for
\* nobody; so all its senders have finished or its slots were full before.
LEMMA ReadyFacts ==
  ASSUME TypeOK, GraphIsBuilt, OnceEach, CountsKept, ~threw, pc = "run",
         awaits <= 3, NEW n \in Created, Ready(n) \/ ran[n] > 0
  PROVE  /\ SlotsFilled(n, 1 .. Len(senders[n]))
         /\ awaits = 1 => \A k \in 1 .. Len(senders[n]) : Finished(senders[n][k])
<1>1. n \in Node /\ awaits \in Nat /\ awaits >= 1
  BY CreatedNodes, GraphAssumption DEF TypeOK, GraphIsBuilt
<1>2. count[n] <= 0
  <2>1. ~ (count[n] > 0)
    BY <1>1 DEF OnceEach, TypeOK
  <2> QED BY <1>1, <2>1, SlotSets
<1>3. /\ CountBefore(n) \in Counts(awaits - 1, n)
      /\ SlotsFilled(n, FinishedSlots(n))
      /\ CountBefore(n) <= 0 => SlotsFilled(n, 1 .. Len(senders[n]))
  BY DEF CountsKept
<1> DEFINE L == Len(senders[n])
           f == Cardinality(FinishedSlots(n))
<1>4. /\ L \in Nat /\ f \in 0 .. L /\ count[n] \in Int
      /\ f = L <=> FinishedSlots(n) = 1 .. L
  BY <1>1, SlotSets
<1>5. /\ count[n] + f \in {L, 0, -L}
      /\ awaits = 1 => count[n] + f = L
  BY <1>1, <1>3 DEF Counts, CountBefore
<1>6. f = L => \A k \in 1 .. Len(senders[n]) : Finished(senders[n][k])
  BY <1>4 DEF FinishedSlots
<1>7. f = L => SlotsFilled(n, 1 .. L)
  BY <1>3, <1>4
<1>8. count[n] + f <= 0 => SlotsFilled(n, 1 .. L)
  BY <1>3 DEF CountBefore
<1> HIDE DEF L, f
<1>9. f = L \/ count[n] + f <= 0
  BY <1>2, <1>4, <1>5
<1>10. awaits = 1 => f = L
  BY <1>2, <1>4, <1>5
<1> QED BY <1>6, <1>7, <1>8, <1>9, <1>10 DEF L

\* The two properties of what is ready.
LEMMA ReadyProperties ==
  ASSUME TypeOK, GraphIsBuilt, InvocationsOfNodes, OnceEach, CountsKept
  PROVE  ArgumentsAreResults /\ (pc = "run" => SendersFirst)
<1>1. pc = "user" /\ ~threw => DOMAIN m_ready_nodes = {}
  BY DEF InvocationsOfNodes
<1>2. pc = "user" \/ pc = "run"
  BY DEF TypeOK
<1>3. ASSUME pc = "run", ~threw, awaits <= 3, NEW i \in DOMAIN m_ready_nodes
      PROVE  SlotsFilled(m_ready_nodes[i], 1 .. Len(senders[m_ready_nodes[i]]))
  <2>1. m_ready_nodes[i] \in Created /\ Ready(m_ready_nodes[i])
    BY DEF GraphIsBuilt, Ready
  <2> QED BY <1>3, <2>1, ReadyFacts
<1>4. ArgumentsAreResults
  BY <1>1, <1>2, <1>3, Zenon DEF ArgumentsAreResults, SlotsFilled
<1>5. ASSUME pc = "run" PROVE SendersFirst
  <2> SUFFICES ASSUME awaits = 1, ~threw, NEW n \in Created,
                      ran[n] > 0 \/ Ready(n)
               PROVE  \A k \in 1 .. Len(senders[n]) : Finished(senders[n][k])
    BY Zenon DEF SendersFirst, Ready
  <2> QED BY <1>5, ReadyFacts
<1> QED BY <1>4, <1>5

-----------------------------------------------------------------------------
(* propagate_value *)

\* A node propagates its value once the rest of the stack is known.
LEMMA PropagateTypes ==
  ASSUME TypeOK, GraphIsBuilt, NEW p \in Node, NEW rest \in Seq(Node),
         PropagateValue(p, rest)
  PROVE  /\ slot' \in [Node -> [SlotNo -> Value]]
         /\ count' \in [Node -> Int]
         /\ \A n \in Node :
              /\ count'[n] = count[n] - Cardinality(SlotsFrom(p, n))
              /\ count'[n] <= Len(senders[n])
         /\ \A n \in Node : \A k \in SlotNo :
              slot'[n][k] = IF kind[p] = "task" /\ k \in SlotsFrom(p, n)
                            THEN future[p] ELSE slot[n][k]
         /\ m_ready_nodes' \in Seq(Node)
         /\ ToSet(m_ready_nodes') = ToSet(rest) \union ReachesZero(p)
         /\ IsInjective(rest) /\ ToSet(rest) \intersect ReachesZero(p) = {} =>
              IsInjective(m_ready_nodes')
<1>1. \A n \in Node : count'[n] = count[n] - Cardinality(SlotsFrom(p, n))
  BY DEF PropagateValue
<1>2. \A n \in Node : count'[n] \in Int /\ count'[n] <= Len(senders[n])
  <2> SUFFICES ASSUME NEW n \in Node
               PROVE  count'[n] \in Int /\ count'[n] <= Len(senders[n])
    OBVIOUS
  <2>1. /\ count[n] \in Int /\ Cardinality(SlotsFrom(p, n)) \in Nat
        /\ Len(senders[n]) \in Nat
    BY SlotSets
  <2>2. count[n] <= Len(senders[n])
    BY DEF TypeOK
  <2> QED BY <1>1, <2>1, <2>2
<1>3. count' \in [Node -> Int]
  BY <1>2 DEF PropagateValue
<1>4. future[p] \in Value /\ \A n \in Node, k \in SlotNo : slot[n][k] \in Value
  BY DEF TypeOK
<1>5. \A n \in Node : \A k \in SlotNo :
        slot'[n][k] = IF kind[p] = "task" /\ k \in SlotsFrom(p, n)
                      THEN future[p] ELSE slot[n][k]
  BY DEF PropagateValue
<1>6. slot' \in [Node -> [SlotNo -> Value]]
  <2> DEFINE v(n, k) == IF kind[p] = "task" /\ k \in SlotsFrom(p, n)
                        THEN future[p] ELSE slot[n][k]
  <2>1. \A n \in Node : \A k \in SlotNo : v(n, k) \in Value
    BY <1>4
  <2>2. slot' = [n \in Node |-> [k \in SlotNo |-> v(n, k)]]
    BY DEF PropagateValue
  <2> HIDE DEF v
  <2> QED BY <2>1, <2>2
<1>7. PICK ready \in InOrder(ReachesZero(p)) : m_ready_nodes' = rest \o ready
  BY DEF PropagateValue
<1>8. ReachesZero(p) \subseteq Node
  BY CreatedNodes DEF ReachesZero, Created
<1>9. ready \in Seq(Node) /\ ToSet(ready) = ReachesZero(p) /\ IsInjective(ready)
  BY <1>8, InOrderFacts
<1>10. /\ m_ready_nodes' \in Seq(Node)
       /\ ToSet(m_ready_nodes') = ToSet(rest) \union ReachesZero(p)
       /\ IsInjective(rest) /\ ToSet(rest) \intersect ReachesZero(p) = {} =>
            IsInjective(m_ready_nodes')
  BY <1>7, <1>9, ConcatElements
<1> QED BY <1>1, <1>2, <1>3, <1>5, <1>6, <1>10

\* The slots that p fills had not been counted as finished, and are now.
LEMMA OneMoreFinished ==
  ASSUME TypeOK, NEW p \in Node, NEW n \in Node, ~Finished(p),
         senders' = senders, \A q \in Node : Finished(q)' <=> Finished(q) \/ q = p
  PROVE  /\ FinishedSlots(n)' = FinishedSlots(n) \union SlotsFrom(p, n)
         /\ Cardinality(FinishedSlots(n)') =
              Cardinality(FinishedSlots(n)) + Cardinality(SlotsFrom(p, n))
<1>1. \A k \in 1 .. Len(senders[n]) : senders[n][k] \in Node
  BY DEF TypeOK
<1>2. FinishedSlots(n)' =
        {k \in 1 .. Len(senders[n]) : Finished(senders[n][k])'}
  BY DEF FinishedSlots
<1>3. FinishedSlots(n)' = FinishedSlots(n) \union SlotsFrom(p, n)
  BY <1>1, <1>2 DEF FinishedSlots, SlotsFrom
<1>4. FinishedSlots(n) \intersect SlotsFrom(p, n) = {}
  BY DEF FinishedSlots, SlotsFrom
<1>5. IsFiniteSet(FinishedSlots(n)) /\ IsFiniteSet(SlotsFrom(p, n))
  BY SlotSets
<1>6. Cardinality(FinishedSlots(n) \union SlotsFrom(p, n)) =
        Cardinality(FinishedSlots(n)) + Cardinality(SlotsFrom(p, n))
        - Cardinality(FinishedSlots(n) \intersect SlotsFrom(p, n))
  BY <1>5, FS_Union
<1>7. Cardinality(FinishedSlots(n) \intersect SlotsFrom(p, n)) = 0
  BY <1>4, FS_EmptySet
<1>8. /\ Cardinality(FinishedSlots(n)) \in Nat
      /\ Cardinality(SlotsFrom(p, n)) \in Nat
  BY SlotSets
<1> QED BY <1>3, <1>6, <1>7, <1>8

\* The frame of a step that makes p finished: it was ready or running, has
\* waited for nobody, and is off the stack.
Finishes(p, rest) ==
  /\ p \in Created /\ ~Finished(p) /\ count[p] <= 0
  /\ rest \in Seq(Node) /\ IsInjective(rest)
  /\ ToSet(rest) = ToSet(m_ready_nodes) \ {p}
  /\ PropagateValue(p, rest)
  /\ kind[p] = "task" => future[p] = "result"
  /\ ran' = [ran EXCEPT ![p] = 1]
  /\ running_nodes' = running_nodes \ {p}
  /\ UNCHANGED <<pc, awaits, threw, graphVars>>

\* Then the counts and the slots agree with what has finished.
LEMMA FinishKeepsCounts ==
  ASSUME TypeOK, GraphIsBuilt, OnceEach, CountsKept, pc = "run", ~threw,
         NEW p, NEW rest, Finishes(p, rest)
  PROVE  CountsKept'
<1>1. /\ p \in Node /\ ~Finished(p) /\ PropagateValue(p, rest)
      /\ rest \in Seq(Node)
      /\ pc' = "run" /\ senders' = senders /\ size' = size /\ kind' = kind
      /\ awaits' = awaits
      /\ kind[p] = "task" => future[p] = "result"
  BY CreatedNodes DEF Finishes, graphVars
<1>2. \A q \in Node : Finished(q)' <=> Finished(q) \/ q = p
  BY DEF Finishes, Finished, TypeOK
<1> SUFFICES ASSUME awaits <= 3, NEW n \in Created
             PROVE  /\ CountBefore(n)' \in Counts(awaits - 1, n)
                    /\ SlotsFilled(n, FinishedSlots(n))'
                    /\ CountBefore(n)' <= 0 =>
                          SlotsFilled(n, 1 .. Len(senders[n]))'
  BY <1>1 DEF CountsKept, Created, Counts
<1>3. n \in Node
  BY CreatedNodes
<1>4. /\ CountBefore(n) \in Counts(awaits - 1, n)
      /\ SlotsFilled(n, FinishedSlots(n))
      /\ CountBefore(n) <= 0 => SlotsFilled(n, 1 .. Len(senders[n]))
  BY DEF CountsKept
<1>5. /\ FinishedSlots(n)' = FinishedSlots(n) \union SlotsFrom(p, n)
      /\ Cardinality(FinishedSlots(n)') =
           Cardinality(FinishedSlots(n)) + Cardinality(SlotsFrom(p, n))
  BY <1>1, <1>2, <1>3, OneMoreFinished
<1>6. CountBefore(n)' = CountBefore(n)
  <2>1. count'[n] = count[n] - Cardinality(SlotsFrom(p, n))
    BY <1>1, <1>3, PropagateTypes
  <2>2. /\ count[n] \in Int /\ Cardinality(SlotsFrom(p, n)) \in Nat
        /\ Cardinality(FinishedSlots(n)) \in Nat
    BY <1>3, SlotSets
  <2>3. CountBefore(n)' = count'[n] + Cardinality(FinishedSlots(n)')
    BY DEF CountBefore
  <2> QED BY <1>5, <2>1, <2>2, <2>3 DEF CountBefore
<1>7. /\ SlotsFrom(p, n) \subseteq 1 .. Len(senders[n])
      /\ 1 .. Len(senders[n]) \subseteq SlotNo
  <2>1. Len(senders[n]) \in Nat /\ Len(senders[n]) <= MaxArgs
    BY <1>3 DEF TypeOK
  <2> QED BY <1>3, <2>1, SlotSets, GraphAssumption DEF SlotNo
<1> DEFINE FilledNow(S) ==
      \A k \in S : kind[senders[n][k]] = "task" => slot'[n][k] = "result"
<1>8. ASSUME NEW S, S \subseteq 1 .. Len(senders[n]), SlotsFilled(n, S)
      PROVE  FilledNow(S \union SlotsFrom(p, n))
  <2> SUFFICES ASSUME NEW k \in S \union SlotsFrom(p, n),
                      kind[senders[n][k]] = "task"
               PROVE  slot'[n][k] = "result"
    OBVIOUS
  <2>1. k \in SlotNo
    BY <1>7, <1>8
  <2>2. slot'[n][k] = IF kind[p] = "task" /\ k \in SlotsFrom(p, n)
                      THEN future[p] ELSE slot[n][k]
    BY <1>1, <1>3, <2>1, PropagateTypes
  <2>3. CASE k \in SlotsFrom(p, n)
    <3>1. senders[n][k] = p
      BY <2>3 DEF SlotsFrom
    <3> QED BY <1>1, <2>2, <2>3, <3>1
  <2>4. CASE k \notin SlotsFrom(p, n)
    BY <1>8, <2>2, <2>4 DEF SlotsFilled
  <2> QED BY <2>3, <2>4
<1>9. SlotsFilled(n, FinishedSlots(n))'
  <2>1. FilledNow(FinishedSlots(n)')
    <3>1. FinishedSlots(n) \subseteq 1 .. Len(senders[n])
      BY DEF FinishedSlots
    <3> HIDE DEF FilledNow
    <3>2. FilledNow(FinishedSlots(n) \union SlotsFrom(p, n))
      BY <1>4, <1>8, <3>1
    <3> QED BY <1>5, <3>2
  <2> QED BY <1>1, <2>1 DEF SlotsFilled
<1>10. SlotsFilled(n, 1 .. Len(senders[n])) => SlotsFilled(n, 1 .. Len(senders[n]))'
  <2>1. SlotsFilled(n, 1 .. Len(senders[n])) => FilledNow(1 .. Len(senders[n]))
    <3>1. (1 .. Len(senders[n])) \union SlotsFrom(p, n) = 1 .. Len(senders[n])
      BY <1>7
    <3> HIDE DEF FilledNow
    <3> QED BY <1>8, <3>1
  <2> QED BY <1>1, <2>1 DEF SlotsFilled
<1> QED BY <1>4, <1>6, <1>9, <1>10

\* The stack holds each node once, and only nodes that have not run.
LEMMA FinishKeepsOrder ==
  ASSUME TypeOK, GraphIsBuilt, OnceEach, NoneForgotten, pc = "run", ~threw,
         NEW p, NEW rest, Finishes(p, rest)
  PROVE  OnceEach' /\ NoneForgotten'
<1>1. /\ p \in Node /\ PropagateValue(p, rest) /\ rest \in Seq(Node)
      /\ count[p] <= 0 /\ IsInjective(rest)
      /\ ToSet(rest) = ToSet(m_ready_nodes) \ {p}
      /\ pc' = "run" /\ senders' = senders /\ size' = size
      /\ awaits' = awaits /\ threw' = threw
      /\ running_nodes' = running_nodes \ {p}
  BY CreatedNodes DEF Finishes, graphVars
<1>2. /\ \A n \in Node : count'[n] = count[n] - Cardinality(SlotsFrom(p, n))
      /\ ToSet(m_ready_nodes') = ToSet(rest) \union ReachesZero(p)
      /\ IsInjective(rest) /\ ToSet(rest) \intersect ReachesZero(p) = {} =>
           IsInjective(m_ready_nodes')
  BY <1>1, PropagateTypes
<1>3. \A n \in Node : ran'[n] = IF n = p THEN 1 ELSE ran[n]
  BY DEF Finishes, TypeOK
<1>4. \A n : Ready(n) <=> n \in ToSet(m_ready_nodes)
  BY ReadySet
<1>5. \A n : Ready(n)' <=> n \in ToSet(m_ready_nodes')
  BY Zenon DEF Ready, ToSet
<1>6. \A n \in Node :
        /\ ran[n] \in {0, 1}
        /\ Ready(n) => ran[n] = 0
        /\ n \in running_nodes => ran[n] = 1
        /\ count[n] > 0 => ran[n] = 0 /\ ~Ready(n)
  BY DEF OnceEach
<1>7. \A n \in ReachesZero(p) :
        /\ n \in Created /\ n \in Node /\ n # p
        /\ ran[n] = 0 /\ n \notin ToSet(m_ready_nodes)
  <2>1. \A n \in ReachesZero(p) : n \in Created /\ n \in Node /\ count[n] > 0
    BY CreatedNodes DEF ReachesZero, Created
  <2>2. count[p] \in Int
    BY <1>1 DEF TypeOK
  <2> QED BY <1>1, <1>4, <1>6, <2>1, <2>2
<1>8. IsInjective(m_ready_nodes')
  BY <1>1, <1>2, <1>7
<1>9. ASSUME NEW n \in Node
      PROVE  /\ ran'[n] \in {0, 1}
             /\ Ready(n)' => ran'[n] = 0
             /\ n \in running_nodes' => ran'[n] = 1
             /\ count'[n] > 0 => ran'[n] = 0 /\ ~Ready(n)'
  <2>1. ran'[n] \in {0, 1} /\ (n \in running_nodes' => ran'[n] = 1)
    BY <1>1, <1>3, <1>6
  <2>2. Ready(n)' => ran'[n] = 0
    BY <1>1, <1>2, <1>3, <1>4, <1>5, <1>6, <1>7
  <2>3. ASSUME count'[n] > 0 PROVE ran'[n] = 0 /\ ~Ready(n)'
    <3>1. /\ count'[n] = count[n] - Cardinality(SlotsFrom(p, n))
          /\ count[n] \in Int /\ Cardinality(SlotsFrom(p, n)) \in Nat
      BY <1>2, SlotSets
    <3>2. count[n] > 0 /\ ~ (count[n] - Cardinality(SlotsFrom(p, n)) <= 0)
      BY <2>3, <3>1
    <3>3. n # p
      BY <1>1, <3>1, <3>2
    <3>4. n \notin ReachesZero(p)
      BY <3>2, Zenon DEF ReachesZero
    <3> QED BY <1>1, <1>2, <1>3, <1>4, <1>5, <1>6, <3>2, <3>3, <3>4
  <2> QED BY <2>1, <2>2, <2>3
<1>10. OnceEach'
  <2>1. \A i, j \in DOMAIN m_ready_nodes' :
           m_ready_nodes'[i] = m_ready_nodes'[j] => i = j
    BY <1>8, Zenon DEF IsInjective
  <2> QED BY <1>1, <1>9, <2>1 DEF OnceEach
<1>11. NoneForgotten'
  <2> SUFFICES ASSUME awaits <= 2, NEW n \in Created, count'[n] <= 0
               PROVE  Ready(n)' \/ ran'[n] = 1
    BY <1>1 DEF NoneForgotten, Created
  <2>1. n \in Node
    BY CreatedNodes
  <2>2. /\ count'[n] = count[n] - Cardinality(SlotsFrom(p, n))
        /\ count[n] \in Int
    BY <1>2, <2>1, SlotSets
  <2>3. CASE n = p
    BY <1>3, <2>1, <2>3
  <2>4. CASE n # p /\ count[n] <= 0
    <3>1. Ready(n) \/ ran[n] = 1
      BY <2>4 DEF NoneForgotten
    <3> QED BY <1>1, <1>2, <1>3, <1>4, <1>5, <2>1, <2>4, <3>1
  <2>5. CASE count[n] > 0
    <3>1. n \in ReachesZero(p)
      BY <2>2, <2>5 DEF ReachesZero, Created
    <3> QED BY <1>2, <1>5, <3>1
  <2> QED BY <2>2, <2>3, <2>4, <2>5
<1> QED BY <1>10, <1>11

-----------------------------------------------------------------------------
(* The actions. *)

USE DEF graphVars, nodeVars, dispatcherVars

\* While await_all runs, the order of the nodes follows from the counts.
LEMMA SendersFirstNext ==
  (TypeOK /\ GraphIsBuilt /\ InvocationsOfNodes /\ OnceEach /\ CountsKept
   /\ pc = "run") => SendersFirst
BY ReadyProperties

\* The invocation of id i is in the map.
LEMMA IdsOfMap ==
  ASSUME TypeOK, NEW i \in issued
  PROVE  /\ i \in Nat /\ i + 1 \in DOMAIN m_future_node_map
         /\ m_future_node_map[i + 1] \in Node
<1>1. Len(m_future_node_map) \in Nat /\ i \in 0 .. Len(m_future_node_map) - 1
  BY DEF TypeOK
<1>2. DOMAIN m_future_node_map = 1 .. Len(m_future_node_map)
  BY DEF TypeOK
<1> QED BY <1>1, <1>2 DEF TypeOK

\* A source or a task is added behind the nodes there are.
LEMMA BuildKeeps ==
  ASSUME IInv, Building,
         NEW from \in Seq(Node), Len(from) <= MaxArgs,
         \A k \in 1 .. Len(from) : from[k] < size,
         kind' \in [Node -> {"none", "source", "task"}],
         \A n \in Created : kind'[n] = kind[n],
         senders' = [senders EXCEPT ![size] = from],
         count' = [count EXCEPT ![size] = Len(from)],
         future' \in [Node -> Value],
         \A n \in Created : future'[n] = future[n],
         UNCHANGED <<pc, awaits, threw, slot, m_ready_nodes, running_nodes,
                     m_future_node_map, ran, dispatcherVars>>
  PROVE  IInv'
<1>1. TypeOK /\ GraphIsBuilt /\ OnceEach
  BY DEF IInv
<1>2. /\ pc = "user" /\ size < MaxNodes /\ size' = size + 1
      /\ size \in Node /\ size \in Nat /\ MaxNodes \in Nat
      /\ size + 1 \in 0 .. MaxNodes
      /\ Len(from) \in Nat
      /\ \A n \in Node : n \in Nat /\ (n \in Created <=> n < size)
      /\ Created \subseteq Node
  BY <1>1, CreatedNodes, GraphAssumption DEF Building, Node
<1>3. Created' = Created \union {size} /\ size \notin Created
  BY <1>2 DEF Created
<1>4. \A n \in Node :
        /\ senders'[n] = IF n = size THEN from ELSE senders[n]
        /\ count'[n] = IF n = size THEN Len(from) ELSE count[n]
  BY <1>1 DEF TypeOK
<1>5. TypeOK'
  <2>1. senders' \in [Node -> Seq(Node)] /\ count' \in [Node -> Int]
    BY <1>1, <1>2 DEF TypeOK
  <2>2. \A n \in Node : /\ Len(senders'[n]) <= MaxArgs
                        /\ count'[n] <= Len(senders'[n])
    BY <1>1, <1>2, <1>4 DEF TypeOK
  <2> QED BY <1>1, <1>2, <2>1, <2>2 DEF TypeOK
<1>6. GraphIsBuilt'
  <2>1. \A n \in Node : \A k \in 1 .. Len(senders'[n]) : senders'[n][k] < n
    BY <1>1, <1>4 DEF GraphIsBuilt
  <2>2. \A n \in Node \ Created' :
          senders'[n] = <<>> /\ count'[n] = 0 /\ ran'[n] = 0
    BY <1>1, <1>3, <1>4 DEF GraphIsBuilt
  <2> QED BY <1>1, <1>2, <1>3, <2>1, <2>2 DEF GraphIsBuilt
<1>7. NodesOfInvocations'
  <2>1. \A i \in completed : m_future_node_map[i + 1] \in Created
    BY <1>1, IdsOfMap DEF GraphIsBuilt, TypeOK
  <2> QED BY <2>1 DEF IInv, NodesOfInvocations
<1>8. InvocationsOfNodes'
  BY DEF IInv, InvocationsOfNodes
<1>9. OnceEach'
  BY <1>1, <1>2 DEF OnceEach, Ready
<1>10. NoneForgotten'
  BY <1>2 DEF NoneForgotten
<1>11. \A n \in Created : \A k \in 1 .. Len(senders[n]) :
         senders[n][k] \in Created
  <2> SUFFICES ASSUME NEW n \in Created, NEW k \in 1 .. Len(senders[n])
               PROVE  senders[n][k] \in Created
    OBVIOUS
  <2>1. n \in Node /\ n \in Nat /\ n < size
    BY <1>2
  <2>2. senders[n][k] \in Node /\ senders[n][k] < n
    BY <1>1, <2>1 DEF GraphIsBuilt, TypeOK
  <2>3. senders[n][k] \in Nat
    BY <1>2, <2>2
  <2>4. senders[n][k] < size
    BY <1>2, <2>1, <2>2, <2>3
  <2> QED BY <1>2, <2>2, <2>4
<1>12. CountsKept'
  <2> SUFFICES ASSUME ~threw, awaits <= 2, NEW n \in Created'
               PROVE  /\ (count[n] \in Counts(awaits, n))'
                      /\ (count[n] <= 0 => SlotsFilled(n, 1 .. Len(senders[n])))'
    BY <1>2 DEF CountsKept
  <2>1. CASE n = size
    <3>1. senders'[n] = from /\ count'[n] = Len(from)
      BY <1>2, <1>4, <2>1
    <3>2. (count[n] \in Counts(awaits, n))'
      BY <3>1 DEF Counts
    <3>3. (count[n] <= 0 => SlotsFilled(n, 1 .. Len(senders[n])))'
      BY <1>2, <3>1 DEF SlotsFilled
    <3> QED BY <3>2, <3>3
  <2>2. CASE n \in Created
    <3>1. n \in Node /\ senders'[n] = senders[n] /\ count'[n] = count[n]
      BY <1>2, <1>3, <1>4, <2>2
    <3>2. /\ count[n] \in Counts(awaits, n)
          /\ count[n] <= 0 => SlotsFilled(n, 1 .. Len(senders[n]))
      BY <1>2, <2>2 DEF IInv, CountsKept
    <3>3. (count[n] \in Counts(awaits, n))'
      BY <3>1, <3>2 DEF Counts
    <3>4. (count[n] <= 0 => SlotsFilled(n, 1 .. Len(senders[n])))'
      BY <1>11, <2>2, <3>1, <3>2 DEF SlotsFilled
    <3> QED BY <3>3, <3>4
  <2> QED BY <1>3, <2>1, <2>2
<1>13. SendersFirst'
  <2> SUFFICES ASSUME awaits = 1, ~threw, NEW n \in Created',
                      ran[n] > 0 \/ Ready(n)
               PROVE  \A k \in 1 .. Len(senders'[n]) : Finished(senders'[n][k])
    <3>1. \A q : Finished(q)' <=> Finished(q)
      BY DEF Finished
    <3>2. \A n : Ready(n)' <=> Ready(n)
      BY DEF Ready
    <3> QED BY <3>1, <3>2 DEF SendersFirst, Ready
  <2>1. ~Ready(n)
    <3>1. m_ready_nodes = <<>>
      BY <1>2 DEF IInv, InvocationsOfNodes
    <3> QED BY <3>1, ReadySet DEF ToSet
  <2>2. n # size
    BY <1>1, <1>2, <1>3, <2>1 DEF GraphIsBuilt
  <2>3. n \in Created /\ senders'[n] = senders[n]
    BY <1>2, <1>3, <1>4, <2>2
  <2> QED BY <2>3 DEF IInv, SendersFirst, Ready
<1> QED BY <1>5, <1>6, <1>7, <1>8, <1>9, <1>10, <1>12, <1>13 DEF IInv

LEMMA BuildInvariant == IInv /\ Build => IInv'
<1> SUFFICES ASSUME IInv, Build PROVE IInv'
  OBVIOUS
<1>1. TypeOK /\ GraphIsBuilt
  BY DEF IInv
<1>2. /\ size \in Nat /\ MaxNodes \in Nat /\ MaxArgs \in Nat
      /\ size < MaxNodes => size \in Node /\ size \notin Created
      /\ \A n \in Created : n \in Node /\ n # size
  BY <1>1, CreatedNodes, GraphAssumption DEF Node
<1>3. CASE Schedule
  <2>1. Building /\ size \in Node \ Created
    BY <1>2, <1>3 DEF Schedule, Building
  <2>2. senders[size] = <<>> /\ count[size] = 0
    BY <1>1, <2>1 DEF GraphIsBuilt
  <2>3. /\ senders' = [senders EXCEPT ![size] = <<>>]
        /\ count' = [count EXCEPT ![size] = Len(<<>>)]
    BY <1>1, <1>3, <2>2 DEF Schedule, TypeOK
  <2>4. /\ kind' \in [Node -> {"none", "source", "task"}]
        /\ \A n \in Created : kind'[n] = kind[n]
    BY <1>1, <1>2, <1>3 DEF Schedule, TypeOK
  <2>5. /\ future' \in [Node -> Value]
        /\ \A n \in Created : future'[n] = future[n]
    BY <1>1, <1>3 DEF Schedule, TypeOK
  <2>6. /\ << >> \in Seq(Node) /\ Len(<< >>) <= MaxArgs
        /\ \A k \in 1 .. Len(<< >>) : << >>[k] < size
    BY <1>2
  <2> QED BY <1>3, <2>1, <2>3, <2>4, <2>5, <2>6, BuildKeeps DEF Schedule
<1>4. ASSUME NEW from \in SendersOfNew, Then(from) PROVE IInv'
  <2>1. Building /\ size \in Node \ Created
    BY <1>2, <1>4 DEF Then, Building
  <2>2. PICK m \in SlotNo : from \in [1 .. m -> 0 .. size - 1]
    BY DEF SendersOfNew
  <2>3. m \in Nat /\ m <= MaxArgs
    BY <1>2 DEF SlotNo
  <2>4. from \in Seq(Node) /\ Len(from) = m
    <3>1. 0 .. size - 1 \subseteq Node
      BY <1>1, CreatedNodes DEF Created
    <3>2. from \in [1 .. m -> Node]
      BY <2>2, <3>1
    <3>3. from \in Seq(Node)
      BY <2>3, <3>2, SeqDef
    <3>4. DOMAIN from = 1 .. m /\ DOMAIN from = 1 .. Len(from) /\ Len(from) \in Nat
      BY <3>2, <3>3
    <3> QED BY <2>3, <3>3, <3>4
  <2>5. \A k \in 1 .. Len(from) : from[k] < size
    BY <1>2, <2>2, <2>4
  <2>6. /\ kind' \in [Node -> {"none", "source", "task"}]
        /\ \A n \in Created : kind'[n] = kind[n]
    BY <1>1, <1>2, <1>4 DEF Then, TypeOK
  <2>7. /\ future' \in [Node -> Value]
        /\ \A n \in Created : future'[n] = future[n]
    BY <1>1, <1>2, <1>4, GraphAssumption DEF Then, TypeOK, Value
  <2>8. Len(from) <= MaxArgs
    BY <2>3, <2>4
  <2> QED BY <1>4, <2>1, <2>4, <2>5, <2>6, <2>7, <2>8, BuildKeeps DEF Then
<1> QED BY <1>3, <1>4 DEF Build

\* await_all pushes the nodes that wait for nobody; the counts are those with
\* which the last one has ended.
LEMMA AwaitInvariant == IInv /\ Await => IInv'
<1> SUFFICES ASSUME IInv, Await PROVE IInv'
  OBVIOUS
<1>1. TypeOK /\ GraphIsBuilt /\ InvocationsOfNodes /\ CountsKept
  BY DEF IInv
<1> DEFINE S == {n \in 0 .. size - 1 : count[n] = 0}
<1>2. PICK ready \in InOrder(S) : m_ready_nodes' = m_ready_nodes \o ready
  BY DEF Await
<1>3. /\ pc = "user" /\ awaits < MaxAwaits /\ pc' = "run" /\ awaits' = awaits + 1
      /\ running_nodes' = {} /\ ran' = [n \in Node |-> 0]
      /\ UNCHANGED <<threw, graphVars, count, slot, future, m_future_node_map,
                     dispatcherVars>>
  BY DEF Await
<1>4. /\ awaits \in Nat /\ awaits + 1 \in 0 .. MaxAwaits
      /\ Created \subseteq Node /\ S \subseteq Created /\ S \subseteq Node
  BY <1>1, <1>3, CreatedNodes, GraphAssumption DEF TypeOK, Created
<1>5. /\ ready \in Seq(Node) /\ ToSet(ready) = S /\ IsInjective(ready)
      /\ m_ready_nodes \in Seq(Node)
  BY <1>1, <1>4, InOrderFacts DEF TypeOK
<1>6. /\ m_ready_nodes' \in Seq(Node)
      /\ ToSet(m_ready_nodes') = ToSet(m_ready_nodes) \union S
  BY <1>2, <1>5, ConcatElements
<1>7. \A n : Ready(n)' <=> n \in ToSet(m_ready_nodes')
  BY Zenon DEF Ready, ToSet
<1>8. TypeOK'
  <2>1. ran' \in [Node -> Nat]
    BY <1>3
  <2> QED BY <1>1, <1>3, <1>4, <1>6, <2>1 DEF TypeOK
<1>9. GraphIsBuilt'
  <2>1. ToSet(m_ready_nodes) \subseteq Created
    BY <1>1 DEF GraphIsBuilt, ToSet
  <2>2. \A i \in DOMAIN m_ready_nodes' : m_ready_nodes'[i] \in Created
    BY <1>4, <1>6, <2>1 DEF ToSet
  <2>3. Created' = Created
    BY <1>3 DEF Created
  <2>4. awaits' >= 1 /\ \A n \in Node : ran'[n] = 0
    BY <1>3, <1>4
  <2> QED BY <1>1, <1>3, <2>2, <2>3, <2>4 DEF GraphIsBuilt
<1>10. NodesOfInvocations'
  BY <1>3 DEF IInv, NodesOfInvocations
<1>11. ASSUME ~threw
       PROVE  /\ ToSet(m_ready_nodes') = S /\ IsInjective(m_ready_nodes')
              /\ issued \ returned = {}
  <2>1. m_ready_nodes = <<>> /\ running_nodes = {}
    BY <1>1, <1>3, <1>11 DEF InvocationsOfNodes
  <2>2. issued \ returned = {}
    BY <1>1, <1>11, <2>1 DEF InvocationsOfNodes
  <2>3. m_ready_nodes' = ready
    BY <1>2, <1>5, <2>1
  <2> QED BY <1>5, <2>2, <2>3
<1>12. InvocationsOfNodes'
  BY <1>3, <1>11 DEF InvocationsOfNodes
<1>13. OnceEach'
  <2> SUFFICES ASSUME ~threw PROVE OnceEach'
    BY <1>3 DEF OnceEach
  <2>1. \A i, j \in DOMAIN m_ready_nodes' :
          m_ready_nodes'[i] = m_ready_nodes'[j] => i = j
    BY <1>11, Zenon DEF IsInjective
  <2>2. \A n \in Node : ran'[n] = 0
    BY <1>3
  <2>3. \A n \in Node : count[n] > 0 => ~Ready(n)'
    BY <1>1, <1>7, <1>11 DEF TypeOK
  <2> QED BY <1>3, <2>1, <2>2, <2>3 DEF OnceEach
<1>14. CountsKept'
  <2> SUFFICES ASSUME ~threw, awaits + 1 <= 3, NEW n \in Created
               PROVE  /\ CountBefore(n)' \in Counts(awaits, n)
                      /\ SlotsFilled(n, FinishedSlots(n))'
                      /\ CountBefore(n)' <= 0 =>
                            SlotsFilled(n, 1 .. Len(senders[n]))
    <3>1. awaits' - 1 = awaits
      BY <1>3, <1>4
    <3> QED BY <1>3, <3>1 DEF CountsKept, Created, Counts, SlotsFilled
  <2>1. n \in Node
    BY <1>4
  <2>2. FinishedSlots(n)' = {}
    <3>1. \A k \in 1 .. Len(senders[n]) : senders[n][k] \in Node
      BY <1>1, <2>1 DEF TypeOK
    <3>2. \A q \in Node : ~Finished(q)'
      BY <1>3 DEF Finished
    <3> QED BY <1>3, <3>1, <3>2 DEF FinishedSlots
  <2>3. CountBefore(n)' = count[n]
    <3>1. Cardinality(FinishedSlots(n)') = 0
      BY <2>2, FS_EmptySet
    <3>2. CountBefore(n)' = count'[n] + Cardinality(FinishedSlots(n)')
      BY DEF CountBefore
    <3>3. count[n] \in Int
      BY <1>1, <2>1 DEF TypeOK
    <3> QED BY <1>3, <3>1, <3>2, <3>3
  <2>4. /\ count[n] \in Counts(awaits, n)
        /\ count[n] <= 0 => SlotsFilled(n, 1 .. Len(senders[n]))
    BY <1>1, <1>3, <1>4 DEF CountsKept
  <2>5. SlotsFilled(n, FinishedSlots(n))'
    BY <2>2 DEF SlotsFilled
  <2> QED BY <2>3, <2>4, <2>5
<1>15. NoneForgotten'
  <2> SUFFICES ASSUME ~threw, awaits + 1 <= 2, NEW n \in Created, count[n] <= 0
               PROVE  Ready(n)'
    BY <1>3 DEF NoneForgotten, Created
  <2>1. count[n] \in Counts(awaits, n) /\ n \in Node
    BY <1>1, <1>3, <1>4 DEF CountsKept
  <2>2. count[n] = 0
    <3>1. Len(senders[n]) \in Nat /\ ~ (awaits >= 2)
      BY <1>1, <1>4, <2>1 DEF TypeOK
    <3> QED BY <2>1, <3>1 DEF Counts
  <2> QED BY <1>7, <1>11, <2>2 DEF Created
<1>16. SendersFirst'
  <2>1. ((TypeOK /\ GraphIsBuilt /\ InvocationsOfNodes /\ OnceEach
          /\ CountsKept /\ pc = "run") => SendersFirst)'
    BY SendersFirstNext, PTL
  <2> QED BY <1>3, <1>8, <1>9, <1>12, <1>13, <1>14, <2>1
<1> QED BY <1>8, <1>9, <1>10, <1>12, <1>13, <1>14, <1>15, <1>16 DEF IInv

\* What is on the stack once its top is taken off.
LEMMA PopFacts ==
  ASSUME TypeOK, m_ready_nodes # <<>>
  PROVE  /\ Rest(m_ready_nodes) \in Seq(Node)
         /\ Top(m_ready_nodes) \in Node /\ Ready(Top(m_ready_nodes))
         /\ ToSet(Rest(m_ready_nodes)) \subseteq ToSet(m_ready_nodes)
         /\ IsInjective(m_ready_nodes) =>
              /\ IsInjective(Rest(m_ready_nodes))
              /\ ToSet(Rest(m_ready_nodes)) =
                   ToSet(m_ready_nodes) \ {Top(m_ready_nodes)}
<1> DEFINE s == m_ready_nodes
           k == Len(s) - 1
<1>1. /\ s \in Seq(Node) /\ Len(s) \in Nat \ {0} /\ k \in Nat
      /\ DOMAIN s = 1 .. Len(s)
      /\ \A i \in 1 .. Len(s) : s[i] \in Node
  BY EmptySeq, LenProperties, ElementOfSeq DEF TypeOK
<1>2. /\ Rest(s) \in Seq(Node) /\ DOMAIN Rest(s) = 1 .. k
      /\ \A i \in 1 .. k : Rest(s)[i] = s[i]
  BY <1>1, SubSeqProperties, LenProperties DEF Rest
<1>3. 1 .. Len(s) = (1 .. k) \union {Len(s)} /\ Len(s) \notin 1 .. k
  BY <1>1
<1>4. Top(s) \in Node /\ Top(s) \in ToSet(s)
  BY <1>1 DEF Top, ToSet
<1>5. /\ ToSet(Rest(s)) = {s[i] : i \in 1 .. k}
      /\ ToSet(s) = {s[i] : i \in 1 .. k} \union {Top(s)}
  BY <1>1, <1>2, <1>3 DEF Top, ToSet
<1>6. ASSUME IsInjective(s)
      PROVE  /\ IsInjective(Rest(s))
             /\ \A i \in 1 .. k : s[i] # Top(s)
  BY <1>1, <1>2, <1>3, <1>6 DEF IsInjective, Top
<1> QED BY <1>2, <1>4, <1>5, <1>6, ReadySet

\* A node that is run is a node of the graph; when no await_all has thrown it
\* has not run and waits for nobody.
LEMMA RunningNode ==
  ASSUME TypeOK, GraphIsBuilt, NEW n, Running(n)
  PROVE  /\ n \in Created /\ n \in Node /\ Ready(n)
         /\ n = Top(m_ready_nodes) /\ m_ready_nodes # <<>> /\ pc = "run"
         /\ OnceEach /\ ~threw => /\ ran[n] = 0 /\ n \notin running_nodes
                                  /\ count[n] <= 0
<1>1. n = Top(m_ready_nodes) /\ m_ready_nodes # <<>> /\ pc = "run"
  BY DEF Running
<1>2. n \in Node /\ Ready(n)
  BY <1>1, PopFacts
<1>3. n \in Created
  BY <1>2 DEF Ready, GraphIsBuilt
<1>4. OnceEach /\ ~threw => /\ ran[n] = 0 /\ n \notin running_nodes
                            /\ count[n] <= 0
  <2> SUFFICES ASSUME OnceEach, ~threw
               PROVE  ran[n] = 0 /\ n \notin running_nodes /\ count[n] <= 0
    OBVIOUS
  <2>1. ran[n] = 0 /\ n \notin running_nodes /\ ~ (count[n] > 0)
    BY <1>1, <1>2 DEF OnceEach
  <2>2. count[n] \in Int
    BY <1>2 DEF TypeOK
  <2> QED BY <2>1, <2>2
<1> QED BY <1>1, <1>2, <1>3, <1>4

\* A step that propagates a value keeps the graph.
LEMMA PropagateKeepsGraph ==
  ASSUME TypeOK, GraphIsBuilt, NEW p \in Node, NEW rest \in Seq(Node),
         ToSet(rest) \subseteq ToSet(m_ready_nodes), PropagateValue(p, rest),
         running_nodes' \subseteq running_nodes, ran' \in [Node -> Nat],
         \A n \in Node \ Created : ran'[n] = 0,
         returned' \subseteq completed,
         UNCHANGED <<pc, awaits, threw, graphVars, future, m_future_node_map,
                     issued, completed>>
  PROVE  TypeOK' /\ GraphIsBuilt'
<1>1. TypeOK'
  BY PropagateTypes DEF TypeOK
<1>2. \A n \in Node \ Created : count'[n] = 0
  <2> SUFFICES ASSUME NEW n \in Node \ Created PROVE count'[n] = 0
    OBVIOUS
  <2>1. senders[n] = <<>> /\ count[n] = 0
    BY DEF GraphIsBuilt
  <2>2. SlotsFrom(p, n) = {}
    BY <2>1 DEF SlotsFrom
  <2>3. /\ count'[n] = count[n] - Cardinality(SlotsFrom(p, n))
        /\ Cardinality(SlotsFrom(p, n)) = 0
    BY <2>2, PropagateTypes, SlotSets
  <2> QED BY <2>1, <2>3
<1>3. \A i \in DOMAIN m_ready_nodes' : m_ready_nodes'[i] \in Created
  <2>1. ToSet(m_ready_nodes) \subseteq Created
    BY DEF GraphIsBuilt, ToSet
  <2>2. ReachesZero(p) \subseteq Created
    BY DEF ReachesZero, Created
  <2>3. ToSet(m_ready_nodes') \subseteq Created
    BY <2>1, <2>2, PropagateTypes
  <2> QED BY <2>3 DEF ToSet
<1>4. GraphIsBuilt'
  BY <1>2, <1>3 DEF GraphIsBuilt, Created
<1> QED BY <1>1, <1>4

LEMMA RunSourceInvariant ==
  ASSUME IInv, NEW n \in Node, RunSource(n)
  PROVE  IInv'
<1>1. TypeOK /\ GraphIsBuilt /\ InvocationsOfNodes /\ OnceEach /\ CountsKept
      /\ NoneForgotten
  BY DEF IInv
<1> DEFINE rest == Rest(m_ready_nodes)
<1>2. /\ Running(n) /\ kind[n] = "source" /\ PropagateValue(n, rest)
      /\ ran' = [ran EXCEPT ![n] = @ + 1]
      /\ UNCHANGED <<pc, awaits, threw, graphVars, future, running_nodes,
                     m_future_node_map, dispatcherVars>>
  BY DEF RunSource, Running
<1>3. /\ n \in Created /\ Ready(n) /\ pc = "run"
      /\ ~threw => ran[n] = 0 /\ n \notin running_nodes /\ count[n] <= 0
  BY <1>1, <1>2, RunningNode
<1>4. /\ rest \in Seq(Node) /\ ToSet(rest) \subseteq ToSet(m_ready_nodes)
      /\ IsInjective(m_ready_nodes) =>
           IsInjective(rest) /\ ToSet(rest) = ToSet(m_ready_nodes) \ {n}
  BY <1>1, <1>2, RunningNode, PopFacts
<1> HIDE DEF rest
<1>5. TypeOK' /\ GraphIsBuilt'
  <2>1. ran' \in [Node -> Nat] /\ \A m \in Node \ Created : ran'[m] = 0
    BY <1>1, <1>2, <1>3 DEF TypeOK, GraphIsBuilt
  <2>2. returned' \subseteq completed
    BY <1>1, <1>2 DEF TypeOK
  <2> QED BY <1>1, <1>2, <1>4, <2>1, <2>2, PropagateKeepsGraph
<1>6. NodesOfInvocations' /\ InvocationsOfNodes'
  <2>1. NodesOfInvocations'
    BY <1>2 DEF IInv, NodesOfInvocations
  <2>2. InvocationsOfNodes'
    BY <1>1, <1>2, <1>3 DEF InvocationsOfNodes
  <2> QED BY <2>1, <2>2
<1>7. OnceEach' /\ CountsKept' /\ NoneForgotten'
  <2>1. CASE threw
    BY <1>2, <2>1 DEF OnceEach, CountsKept, NoneForgotten
  <2>2. CASE ~threw
    <3>1. IsInjective(m_ready_nodes)
      BY <1>1, <2>2, ReadySet DEF OnceEach
    <3>2. ran' = [ran EXCEPT ![n] = 1] /\ ~Finished(n)
      <4>1. ran[n] = 0 /\ ran[n] + 1 = 1
        BY <1>3, <2>2
      <4>2. ran' = [ran EXCEPT ![n] = ran[n] + 1]
        BY <1>2
      <4>3. ran' = [ran EXCEPT ![n] = 1]
        BY <4>1, <4>2, Zenon
      <4>4. ~Finished(n)
        BY <4>1 DEF Finished
      <4> QED BY <4>3, <4>4
    <3>3. Finishes(n, rest)
      BY <1>2, <1>3, <1>4, <2>2, <3>1, <3>2 DEF Finishes
    <3> QED BY <1>1, <1>3, <2>2, <3>3, FinishKeepsCounts, FinishKeepsOrder
  <2> QED BY <2>1, <2>2
<1>8. SendersFirst'
  <2>1. ((TypeOK /\ GraphIsBuilt /\ InvocationsOfNodes /\ OnceEach
          /\ CountsKept /\ pc = "run") => SendersFirst)'
    BY SendersFirstNext, PTL
  <2> QED BY <1>2, <1>3, <1>5, <1>6, <1>7, <2>1
<1> QED BY <1>5, <1>6, <1>7, <1>8 DEF IInv

\* The node of an outstanding invocation, when no await_all has thrown.
LEMMA WaitOneInvariant ==
  ASSUME IInv, NEW i \in completed, WaitOne(i)
  PROVE  IInv'
<1>1. TypeOK /\ GraphIsBuilt /\ NodesOfInvocations /\ InvocationsOfNodes
      /\ OnceEach /\ CountsKept /\ NoneForgotten
  BY DEF IInv
<1> DEFINE p == m_future_node_map[i + 1]
<1>2. /\ pc = "run" /\ m_ready_nodes = <<>> /\ i \in completed \ returned
      /\ i \in issued \ returned
      /\ returned' = returned \union {i} /\ running_nodes' = running_nodes \ {p}
      /\ PropagateValue(p, <<>>)
      /\ UNCHANGED <<pc, awaits, threw, graphVars, future, m_future_node_map,
                     ran, issued, completed>>
  BY <1>1 DEF WaitOne, D!Return, TypeOK
<1>3. /\ i + 1 \in DOMAIN m_future_node_map /\ p \in Node /\ p \in Created
      /\ future[p] = "result"
  <2>1. i + 1 \in DOMAIN m_future_node_map /\ p \in Node
    BY <1>1, <1>2, IdsOfMap
  <2> QED BY <1>1, <1>2, <2>1 DEF GraphIsBuilt, NodesOfInvocations
<1>4. ToSet(m_ready_nodes) = {} /\ IsInjective(<<>>) /\ <<>> \in Seq(Node)
  BY <1>2 DEF ToSet, IsInjective
<1>5. \A j \in issued \ returned :
        ~threw => /\ m_future_node_map[j + 1] \in running_nodes
                  /\ m_future_node_map[j + 1] = p => j = i
  BY <1>1, <1>2 DEF InvocationsOfNodes
<1>6. \A n \in running_nodes :
        \E j \in issued \ returned : m_future_node_map[j + 1] = n
  BY <1>1 DEF NodesOfInvocations
<1>7. \A j \in completed : future[m_future_node_map[j + 1]] = "result"
  BY <1>1 DEF NodesOfInvocations
<1> HIDE DEF p
<1>8. TypeOK' /\ GraphIsBuilt'
  <2>1. ran' \in [Node -> Nat] /\ \A m \in Node \ Created : ran'[m] = 0
    BY <1>1, <1>2 DEF TypeOK, GraphIsBuilt
  <2>2. returned' \subseteq completed
    BY <1>1, <1>2 DEF TypeOK
  <2>3. ToSet(<<>>) \subseteq ToSet(m_ready_nodes)
    BY <1>2
  <2>4. running_nodes' \subseteq running_nodes
    BY <1>2
  <2> QED BY <1>1, <1>2, <1>3, <1>4, <2>1, <2>2, <2>3, <2>4,
             PropagateKeepsGraph
<1>9. NodesOfInvocations'
  <2>1. \A n \in running_nodes' :
          \E j \in issued \ returned' : m_future_node_map[j + 1] = n
    <3> SUFFICES ASSUME NEW n \in running_nodes, n # p
                 PROVE  \E j \in issued \ returned' : m_future_node_map[j + 1] = n
      BY <1>2
    <3>1. PICK j \in issued \ returned : m_future_node_map[j + 1] = n
      BY <1>6
    <3>2. j # i
      BY <3>1 DEF p
    <3> QED BY <1>2, <3>1, <3>2
  <2> QED BY <1>2, <1>7, <2>1 DEF NodesOfInvocations
<1>10. InvocationsOfNodes'
  <2> SUFFICES ASSUME ~threw PROVE InvocationsOfNodes'
    BY <1>2 DEF InvocationsOfNodes
  <2>1. \A j \in issued \ returned' : m_future_node_map[j + 1] \in running_nodes'
    BY <1>2, <1>5
  <2>2. \A j, k \in issued \ returned' :
          m_future_node_map[j + 1] = m_future_node_map[k + 1] => j = k
    BY <1>1, <1>2 DEF InvocationsOfNodes
  <2> QED BY <1>2, <2>1, <2>2 DEF InvocationsOfNodes
<1>11. OnceEach' /\ CountsKept' /\ NoneForgotten'
  <2>1. CASE threw
    BY <1>2, <2>1 DEF OnceEach, CountsKept, NoneForgotten
  <2>2. CASE ~threw
    <3>1. p \in running_nodes /\ ran[p] = 1
      <4>1. p \in running_nodes
        BY <1>2, <1>5, <2>2 DEF p
      <4> QED BY <1>1, <1>3, <2>2, <4>1 DEF OnceEach
    <3>2. ~ (count[p] > 0) /\ count[p] \in Int
      BY <1>1, <1>2, <1>3, <2>2, <3>1 DEF OnceEach, TypeOK
    <3>3. ran' = [ran EXCEPT ![p] = 1]
      BY <1>1, <1>2, <1>3, <3>1 DEF TypeOK
    <3>4. ToSet(<<>>) = ToSet(m_ready_nodes) \ {p}
      BY <1>4, <1>2
    <3>5. ~Finished(p) /\ count[p] <= 0
      BY <3>1, <3>2 DEF Finished
    <3>6. Finishes(p, <<>>)
      BY <1>2, <1>3, <1>4, <3>3, <3>4, <3>5 DEF Finishes
    <3> QED BY <1>1, <1>2, <2>2, <3>6, FinishKeepsCounts, FinishKeepsOrder
  <2> QED BY <2>1, <2>2
<1>12. SendersFirst'
  <2>1. ((TypeOK /\ GraphIsBuilt /\ InvocationsOfNodes /\ OnceEach
          /\ CountsKept /\ pc = "run") => SendersFirst)'
    BY SendersFirstNext, PTL
  <2> QED BY <1>2, <1>8, <1>10, <1>11, <2>1
<1> QED BY <1>8, <1>9, <1>10, <1>11, <1>12 DEF IInv

\* A task that is dispatched is running and has not finished.
LEMMA RunTaskInvariant ==
  ASSUME IInv, NEW n \in Node, RunTask(n)
  PROVE  IInv'
<1>1. TypeOK /\ GraphIsBuilt /\ NodesOfInvocations /\ InvocationsOfNodes
      /\ OnceEach /\ CountsKept /\ NoneForgotten
  BY DEF IInv
<1> DEFINE rest == Rest(m_ready_nodes)
           new  == Len(m_future_node_map)
<1>2. /\ Running(n) /\ m_ready_nodes' = rest
      /\ issued' = issued \union {new}
      /\ m_future_node_map' = Append(m_future_node_map, n)
      /\ running_nodes' = running_nodes \union {n}
      /\ ran' = [ran EXCEPT ![n] = @ + 1]
      /\ UNCHANGED <<pc, awaits, threw, graphVars, count, slot, future,
                     completed, returned>>
  BY DEF RunTask, Running, D!Issue
<1>3. /\ n \in Created /\ Ready(n) /\ pc = "run"
      /\ ~threw => ran[n] = 0 /\ n \notin running_nodes /\ count[n] <= 0
  BY <1>1, <1>2, RunningNode
<1>4. /\ rest \in Seq(Node) /\ ToSet(rest) \subseteq ToSet(m_ready_nodes)
      /\ IsInjective(m_ready_nodes) =>
           IsInjective(rest) /\ ToSet(rest) = ToSet(m_ready_nodes) \ {n}
  BY <1>1, <1>2, RunningNode, PopFacts
<1>5. /\ new \in Nat /\ issued = 0 .. new - 1 /\ new \notin issued
      /\ issued' = 0 .. new
      /\ m_future_node_map' \in Seq(Node) /\ Len(m_future_node_map') = new + 1
      /\ DOMAIN m_future_node_map = 1 .. new
      /\ DOMAIN m_future_node_map' = 1 .. new + 1
      /\ m_future_node_map'[new + 1] = n
      /\ \A k \in 1 .. new : m_future_node_map'[k] = m_future_node_map[k]
  <2>1. new \in Nat /\ issued = 0 .. new - 1
    BY <1>1 DEF TypeOK
  <2>2. new \notin issued /\ issued' = 0 .. new
    BY <1>2, <2>1
  <2>3. m_future_node_map \in Seq(Node)
    BY <1>1 DEF TypeOK
  <2> QED BY <1>2, <2>1, <2>2, <2>3
<1>6. /\ \A i \in issued : m_future_node_map'[i + 1] = m_future_node_map[i + 1]
      /\ \A i \in issued' : i \in issued \/ i = new
  <2>1. \A i \in issued : i + 1 \in 1 .. new
    BY <1>5
  <2> QED BY <1>2, <1>5, <2>1
<1> HIDE DEF rest, new
<1>7. TypeOK'
  <2>1. ran' \in [Node -> Nat]
    BY <1>1, <1>2 DEF TypeOK
  <2>2. issued' = 0 .. Len(m_future_node_map') - 1
    BY <1>5
  <2>3. completed' \subseteq issued'
    BY <1>1, <1>2 DEF TypeOK
  <2> QED BY <1>1, <1>2, <1>4, <1>5, <2>1, <2>2, <2>3 DEF TypeOK
<1>8. GraphIsBuilt'
  <2>1. \A i \in DOMAIN m_ready_nodes' : m_ready_nodes'[i] \in Created
    <3>1. ToSet(rest) \subseteq Created
      BY <1>1, <1>4 DEF GraphIsBuilt, ToSet
    <3> QED BY <1>2, <3>1 DEF ToSet
  <2>2. \A i \in DOMAIN m_future_node_map' : m_future_node_map'[i] \in Created
    BY <1>1, <1>3, <1>5 DEF GraphIsBuilt
  <2>3. \A m \in Node \ Created : ran'[m] = 0
    BY <1>1, <1>2, <1>3 DEF TypeOK, GraphIsBuilt
  <2> QED BY <1>1, <1>2, <2>1, <2>2, <2>3 DEF GraphIsBuilt, Created
<1>9. completed \subseteq issued /\ returned \subseteq issued
  BY <1>1 DEF TypeOK
<1>10. NodesOfInvocations'
  <2>1. \A i \in completed : future[m_future_node_map'[i + 1]] = "result"
    BY <1>1, <1>6, <1>9 DEF NodesOfInvocations
  <2>2. \A m \in running_nodes' :
          \E i \in issued' \ returned : m_future_node_map'[i + 1] = m
    <3> SUFFICES ASSUME NEW m \in running_nodes'
                 PROVE  \E i \in issued' \ returned : m_future_node_map'[i + 1] = m
      OBVIOUS
    <3>1. CASE m = n
      <4>1. new \in issued' \ returned
        BY <1>2, <1>5, <1>9
      <4> QED BY <1>5, <3>1, <4>1
    <3>2. CASE m \in running_nodes
      BY <1>1, <1>2, <1>6, <3>2 DEF NodesOfInvocations
    <3> QED BY <1>2, <3>1, <3>2
  <2> QED BY <1>2, <2>1, <2>2 DEF NodesOfInvocations
<1>11. InvocationsOfNodes'
  <2> SUFFICES ASSUME ~threw PROVE InvocationsOfNodes'
    BY <1>2 DEF InvocationsOfNodes
  <2>1. \A i \in issued \ returned : m_future_node_map[i + 1] \in running_nodes
    BY <1>1 DEF InvocationsOfNodes
  <2>2. \A i \in issued' \ returned :
          m_future_node_map'[i + 1] \in running_nodes'
    BY <1>2, <1>5, <1>6, <2>1
  <2>3. \A i \in issued \ returned : m_future_node_map'[i + 1] # n
    BY <1>3, <1>6, <2>1
  <2>4. \A i, j \in issued \ returned :
          m_future_node_map'[i + 1] = m_future_node_map'[j + 1] => i = j
    BY <1>1, <1>6 DEF InvocationsOfNodes
  <2>5. \A i, j \in issued' \ returned :
          m_future_node_map'[i + 1] = m_future_node_map'[j + 1] => i = j
    BY <1>5, <1>6, <2>3, <2>4
  <2> QED BY <1>2, <1>3, <2>2, <2>5 DEF InvocationsOfNodes
<1>12. \A m : Ready(m) <=> m \in ToSet(m_ready_nodes)
  BY ReadySet
<1>13. \A m : Ready(m)' <=> m \in ToSet(rest)
  BY <1>2, Zenon DEF Ready, ToSet
<1>14. \A m \in Node : ran'[m] = IF m = n THEN ran[n] + 1 ELSE ran[m]
  BY <1>1, <1>2 DEF TypeOK
<1>15. ASSUME ~threw
       PROVE  /\ IsInjective(rest) /\ ToSet(rest) = ToSet(m_ready_nodes) \ {n}
              /\ ran'[n] = 1
  <2>1. IsInjective(m_ready_nodes)
    BY <1>1, <1>15, ReadySet DEF OnceEach
  <2> QED BY <1>3, <1>4, <1>14, <1>15, <2>1
<1>16. OnceEach'
  <2> SUFFICES ASSUME ~threw PROVE OnceEach'
    BY <1>2 DEF OnceEach
  <2>1. \A i, j \in DOMAIN m_ready_nodes' :
          m_ready_nodes'[i] = m_ready_nodes'[j] => i = j
    BY <1>2, <1>15, Zenon DEF IsInjective
  <2>2. \A m \in Node : /\ ran'[m] \in {0, 1}
                        /\ Ready(m)' => ran'[m] = 0
                        /\ m \in running_nodes' => ran'[m] = 1
                        /\ count[m] > 0 => ran'[m] = 0 /\ ~Ready(m)'
    <3> SUFFICES ASSUME NEW m \in Node
                 PROVE  /\ ran'[m] \in {0, 1}
                        /\ Ready(m)' => ran'[m] = 0
                        /\ m \in running_nodes' => ran'[m] = 1
                        /\ count[m] > 0 => ran'[m] = 0 /\ ~Ready(m)'
      OBVIOUS
    <3>1. CASE m = n
      <4>1. count[n] \in Int
        BY <1>1 DEF TypeOK
      <4> QED BY <1>3, <1>13, <1>15, <3>1, <4>1
    <3>2. CASE m # n
      <4>1. /\ ran[m] \in {0, 1}
            /\ Ready(m) => ran[m] = 0
            /\ m \in running_nodes => ran[m] = 1
            /\ count[m] > 0 => ran[m] = 0 /\ ~Ready(m)
        BY <1>1, <1>3 DEF OnceEach
      <4>2. Ready(m)' <=> Ready(m)
        BY <1>12, <1>13, <1>15, <3>2
      <4>3. ran'[m] = ran[m] /\ (m \in running_nodes' <=> m \in running_nodes)
        BY <1>2, <1>14, <3>2
      <4> QED BY <4>1, <4>2, <4>3
    <3> QED BY <3>1, <3>2
  <2> QED BY <1>2, <2>1, <2>2 DEF OnceEach
<1>17. ASSUME ~threw PROVE \A m \in Node : Finished(m)' <=> Finished(m)
  BY <1>2, <1>3, <1>14, <1>17 DEF Finished
<1>18. CountsKept'
  <2> SUFFICES ASSUME ~threw, awaits <= 3, NEW m \in Created
               PROVE  /\ CountBefore(m)' \in Counts(awaits - 1, m)
                      /\ SlotsFilled(m, FinishedSlots(m)')
                      /\ CountBefore(m)' <= 0 =>
                           SlotsFilled(m, 1 .. Len(senders[m]))
    BY <1>2, <1>3 DEF CountsKept, Created, Counts, SlotsFilled
  <2>1. m \in Node
    BY <1>1, CreatedNodes
  <2>2. FinishedSlots(m)' = FinishedSlots(m)
    <3>1. \A k \in 1 .. Len(senders[m]) : senders[m][k] \in Node
      BY <1>1, <2>1 DEF TypeOK
    <3> QED BY <1>2, <1>17, <3>1 DEF FinishedSlots
  <2>3. CountBefore(m)' = CountBefore(m)
    BY <1>2, <2>2 DEF CountBefore
  <2> QED BY <1>1, <1>3, <2>2, <2>3 DEF CountsKept
<1>19. NoneForgotten'
  <2> SUFFICES ASSUME ~threw, awaits <= 2, NEW m \in Created, count[m] <= 0
               PROVE  Ready(m)' \/ ran'[m] = 1
    BY <1>2 DEF NoneForgotten, Created
  <2>1. Ready(m) \/ ran[m] = 1
    BY <1>1, <1>3 DEF NoneForgotten
  <2>2. m \in Node
    BY <1>1, CreatedNodes
  <2>3. CASE m = n
    BY <1>15, <2>3
  <2>4. CASE m # n
    BY <1>12, <1>13, <1>14, <1>15, <2>1, <2>2, <2>4
  <2> QED BY <2>3, <2>4
<1>20. SendersFirst'
  <2>1. ((TypeOK /\ GraphIsBuilt /\ InvocationsOfNodes /\ OnceEach
          /\ CountsKept /\ pc = "run") => SendersFirst)'
    BY SendersFirstNext, PTL
  <2> QED BY <1>2, <1>3, <1>7, <1>8, <1>11, <1>16, <1>18, <2>1
<1> QED BY <1>7, <1>8, <1>10, <1>11, <1>16, <1>18, <1>19, <1>20 DEF IInv

\* An exception leaves the rest of the stack behind.
LEMMA RunThrowsInvariant ==
  ASSUME IInv, NEW n \in Node, RunThrows(n)
  PROVE  IInv'
<1>1. TypeOK /\ GraphIsBuilt
  BY DEF IInv
<1>2. /\ m_ready_nodes # <<>> /\ pc' = "user" /\ threw' = TRUE
      /\ m_ready_nodes' = Rest(m_ready_nodes) /\ running_nodes' = {}
      /\ UNCHANGED <<awaits, graphVars, count, slot, future,
                     m_future_node_map, ran, dispatcherVars>>
  BY DEF RunThrows, Running
<1>3. /\ m_ready_nodes' \in Seq(Node)
      /\ ToSet(m_ready_nodes') \subseteq ToSet(m_ready_nodes)
  BY <1>1, <1>2, PopFacts
<1>4. TypeOK'
  BY <1>1, <1>2, <1>3 DEF TypeOK
<1>5. GraphIsBuilt'
  <2>1. ToSet(m_ready_nodes) \subseteq Created
    BY <1>1 DEF GraphIsBuilt, ToSet
  <2>2. \A i \in DOMAIN m_ready_nodes' : m_ready_nodes'[i] \in Created
    BY <1>3, <2>1 DEF ToSet
  <2> QED BY <1>1, <1>2, <2>2 DEF GraphIsBuilt, Created
<1>6. NodesOfInvocations'
  BY <1>2 DEF IInv, NodesOfInvocations
<1>7. /\ InvocationsOfNodes' /\ OnceEach' /\ CountsKept' /\ NoneForgotten'
      /\ SendersFirst'
  BY <1>2 DEF InvocationsOfNodes, OnceEach, CountsKept, NoneForgotten,
              SendersFirst
<1> QED BY <1>4, <1>5, <1>6, <1>7 DEF IInv

\* The steps of the dispatcher do not touch what the other parts are about.
LEMMA DispatcherKeeps ==
  ASSUME IInv,
         UNCHANGED <<pc, awaits, threw, graphVars, count, slot, m_ready_nodes,
                     running_nodes, m_future_node_map, ran, issued, returned>>,
         TypeOK', NodesOfInvocations'
  PROVE  IInv'
<1>1. GraphIsBuilt'
  BY DEF IInv, GraphIsBuilt, Created
<1>2. InvocationsOfNodes'
  BY DEF IInv, InvocationsOfNodes
<1>3. OnceEach'
  BY DEF IInv, OnceEach, Ready
<1>4. CountsKept'
  <2>1. \A n : /\ FinishedSlots(n)' = FinishedSlots(n)
               /\ CountBefore(n)' = CountBefore(n)
    <3>1. \A n : FinishedSlots(n)' = FinishedSlots(n)
      BY Zenon DEF FinishedSlots, Finished
    <3> QED BY <3>1 DEF CountBefore
  <2>2. CountsKept
    BY DEF IInv
  <2> QED BY <2>1, <2>2 DEF CountsKept, Created, Counts, SlotsFilled
<1>5. NoneForgotten' /\ SendersFirst'
  BY DEF IInv, NoneForgotten, SendersFirst, Created, Ready, Finished
<1> QED BY <1>1, <1>2, <1>3, <1>4, <1>5 DEF IInv

LEMMA CompleteInvariant ==
  ASSUME IInv, NEW i \in issued, Complete(i)
  PROVE  IInv'
<1>1. TypeOK /\ NodesOfInvocations
  BY DEF IInv
<1>2. /\ completed' = completed \union {i}
      /\ future' = [future EXCEPT ![m_future_node_map[i + 1]] = "result"]
      /\ UNCHANGED <<pc, awaits, threw, graphVars, count, slot, m_ready_nodes,
                     running_nodes, m_future_node_map, ran, issued, returned>>
  BY DEF Complete, D!Complete
<1>3. m_future_node_map[i + 1] \in Node
  BY <1>1, IdsOfMap
<1>4. \A n \in Node : future'[n] = IF n = m_future_node_map[i + 1]
                                  THEN "result" ELSE future[n]
  BY <1>1, <1>2, <1>3 DEF TypeOK
<1>5. TypeOK'
  <2>1. future' \in [Node -> Value]
    BY <1>1, <1>2, <1>3 DEF TypeOK, Value
  <2>2. completed' \subseteq issued' /\ returned' \subseteq completed'
    BY <1>1, <1>2 DEF TypeOK
  <2> QED BY <1>1, <1>2, <2>1, <2>2 DEF TypeOK
<1>6. NodesOfInvocations'
  <2>1. \A j \in completed' : m_future_node_map[j + 1] \in Node
    BY <1>1, <1>2, IdsOfMap DEF TypeOK
  <2>2. \A j \in completed' : future'[m_future_node_map[j + 1]] = "result"
    BY <1>1, <1>2, <1>4, <2>1 DEF NodesOfInvocations
  <2> QED BY <1>1, <1>2, <2>2 DEF NodesOfInvocations
<1> QED BY <1>2, <1>5, <1>6, DispatcherKeeps

LEMMA DestroyInvariant == IInv /\ (Destroy \/ UNCHANGED vars) => IInv'
<1> SUFFICES ASSUME IInv, Destroy \/ UNCHANGED vars PROVE IInv'
  OBVIOUS
<1>1. UNCHANGED <<pc, awaits, threw, graphVars, count, slot, future,
                  m_ready_nodes, running_nodes, m_future_node_map, ran,
                  issued, completed, returned>>
  BY DEF Destroy, D!Stop, vars
<1>2. TypeOK'
  BY <1>1 DEF IInv, TypeOK
<1>3. NodesOfInvocations'
  BY <1>1 DEF IInv, NodesOfInvocations
<1> QED BY <1>1, <1>2, <1>3, DispatcherKeeps

-----------------------------------------------------------------------------
(* The end of await_all. *)

\* In the first two calls, when nothing is ready and nothing runs, every node
\* has run: the first one that had not would have had all its senders finished,
\* and so a dependency count that makes it ready.
LEMMA AllHaveRun ==
  ASSUME IInv, pc = "run", ~threw, awaits <= 2,
         m_ready_nodes = <<>>, running_nodes = {}
  PROVE  \A n \in Created :
            /\ ran[n] = 1
            /\ FinishedSlots(n) = 1 .. Len(senders[n])
<1>1. TypeOK /\ GraphIsBuilt /\ CountsKept /\ NoneForgotten
  BY DEF IInv
<1>2. /\ \A n \in Node : n \in Nat /\ (n \in Created <=> n < size)
      /\ Created \subseteq Node /\ size \in Nat
  BY <1>1, CreatedNodes
<1>3. ASSUME NEW n \in Created, NEW k \in 1 .. Len(senders[n])
      PROVE  senders[n][k] \in Created /\ senders[n][k] < n
  <2>1. n \in Node /\ n \in Nat /\ n < size
    BY <1>2
  <2>2. senders[n][k] \in Node /\ senders[n][k] < n
    BY <1>1, <2>1 DEF GraphIsBuilt, TypeOK
  <2>3. senders[n][k] \in Nat
    BY <1>2, <2>2
  <2>4. senders[n][k] < size
    BY <1>2, <2>1, <2>2, <2>3
  <2> QED BY <1>2, <2>2, <2>4
<1>4. ASSUME NEW n \in Created,
             \A k \in 1 .. Len(senders[n]) : ran[senders[n][k]] = 1
      PROVE  ran[n] = 1 /\ FinishedSlots(n) = 1 .. Len(senders[n])
  <2> DEFINE L == Len(senders[n])
  <2>1. FinishedSlots(n) = 1 .. L
    BY <1>4 DEF FinishedSlots, Finished
  <2>2. /\ L \in Nat /\ count[n] \in Int
        /\ Cardinality(FinishedSlots(n)) = L
    BY <1>1, <1>2, <2>1, SlotSets
  <2>3. awaits \in Nat /\ awaits <= 3 /\ ~ (awaits - 1 >= 2)
    BY <1>1, GraphAssumption DEF TypeOK
  <2>4. count[n] + L \in Counts(awaits - 1, n)
    BY <1>1, <2>2, <2>3 DEF CountsKept, CountBefore
  <2>5. count[n] + L = L \/ count[n] + L = 0
    BY <2>3, <2>4 DEF Counts
  <2> HIDE DEF L
  <2>6. count[n] <= 0
    BY <2>2, <2>5
  <2>7. ~Ready(n)
    BY ReadySet DEF ToSet
  <2> QED BY <1>1, <2>1, <2>6, <2>7 DEF NoneForgotten, L
<1> DEFINE T == {n \in Created : ran[n] # 1}
<1>5. T = {}
  <2> SUFFICES ASSUME T # {} PROVE FALSE
    OBVIOUS
  <2>1. T \subseteq Nat
    BY <1>2
  <2>2. PICK n \in T : \A m \in T : n <= m
    BY <2>1, LeastMember
  <2>3. n \in Created /\ n \in Nat
    BY <2>1
  <2>4. ASSUME NEW k \in 1 .. Len(senders[n]) PROVE ran[senders[n][k]] = 1
    <3>1. senders[n][k] \in Created /\ senders[n][k] < n
      BY <1>3, <2>3
    <3>2. senders[n][k] \in Nat
      BY <1>2, <3>1
    <3>3. ~ (n <= senders[n][k])
      BY <2>3, <3>1, <3>2
    <3> QED BY <2>2, <3>1, <3>3
  <2> QED BY <1>4, <2>3, <2>4
<1>6. \A n \in Created : ran[n] = 1
  BY <1>5
<1> QED BY <1>3, <1>4, <1>6

LEMMA AwaitReturnsInvariant == IInv /\ AwaitReturns => IInv'
<1> SUFFICES ASSUME IInv, AwaitReturns PROVE IInv'
  OBVIOUS
<1>1. TypeOK /\ GraphIsBuilt /\ CountsKept
  BY DEF IInv
<1>2. /\ pc = "run" /\ m_ready_nodes = <<>> /\ running_nodes = {}
      /\ pc' = "user"
      /\ UNCHANGED <<awaits, threw, graphVars, count, slot, future,
                     m_ready_nodes, running_nodes, m_future_node_map, ran,
                     dispatcherVars>>
  BY DEF AwaitReturns
<1>3. TypeOK'
  BY <1>1, <1>2 DEF TypeOK
<1>4. GraphIsBuilt'
  BY <1>1, <1>2 DEF GraphIsBuilt, Created
<1>5. NodesOfInvocations'
  BY <1>2 DEF IInv, NodesOfInvocations
<1>6. InvocationsOfNodes'
  BY <1>2 DEF IInv, InvocationsOfNodes
<1>7. OnceEach'
  BY <1>2 DEF IInv, OnceEach, Ready
<1>8. NoneForgotten' /\ SendersFirst'
  BY <1>2 DEF IInv, NoneForgotten, SendersFirst, Created, Ready, Finished
<1>9. CountsKept'
  <2> SUFFICES ASSUME ~threw, awaits <= 2, NEW n \in Created
               PROVE  /\ count[n] \in Counts(awaits, n)
                      /\ SlotsFilled(n, 1 .. Len(senders[n]))
    BY <1>2 DEF CountsKept, Created, Counts, SlotsFilled
  <2> DEFINE L == Len(senders[n])
  <2>1. FinishedSlots(n) = 1 .. L /\ n \in Node
    BY <1>1, <1>2, AllHaveRun, CreatedNodes
  <2>2. /\ L \in Nat /\ count[n] \in Int
        /\ Cardinality(FinishedSlots(n)) = L
    BY <1>1, <2>1, SlotSets
  <2>3. awaits \in Nat /\ awaits >= 1 /\ awaits <= 3
    BY <1>1, <1>2, GraphAssumption DEF TypeOK, GraphIsBuilt
  <2>4. /\ count[n] + L \in Counts(awaits - 1, n)
        /\ SlotsFilled(n, 1 .. L)
    BY <1>1, <1>2, <2>1, <2>2, <2>3 DEF CountsKept, CountBefore
  <2>5. count[n] + L = L \/ (count[n] + L = 0 /\ awaits - 1 >= 1)
    BY <2>3, <2>4 DEF Counts
  <2>6. count[n] = 0 \/ (count[n] = -L /\ awaits >= 2)
    <3> HIDE DEF L
    <3> QED BY <2>2, <2>3, <2>5
  <2>7. count[n] \in Counts(awaits, n)
    BY <2>3, <2>6 DEF Counts
  <2> QED BY <2>4, <2>7
<1> QED BY <1>3, <1>4, <1>5, <1>6, <1>7, <1>8, <1>9 DEF IInv

-----------------------------------------------------------------------------
(* The theorems. *)

LEMMA InitInvariant == Init => IInv
<1> SUFFICES ASSUME Init PROVE IInv
  OBVIOUS
<1>1. /\ pc = "user" /\ awaits = 0 /\ threw = FALSE /\ size = 0
      /\ kind = [n \in Node |-> "none"] /\ senders = [n \in Node |-> <<>>]
      /\ count = [n \in Node |-> 0] /\ ran = [n \in Node |-> 0]
      /\ slot = [n \in Node |-> [k \in SlotNo |-> "empty"]]
      /\ future = [n \in Node |-> "empty"]
      /\ m_ready_nodes = <<>> /\ running_nodes = {}
      /\ m_future_node_map = <<>>
      /\ issued = {} /\ completed = {} /\ returned = {}
  BY DEF Init, D!Init
<1>2. Created = {}
  BY <1>1 DEF Created
<1>3. TypeOK
  <2>1. 0 \in 0 .. MaxAwaits /\ 0 \in 0 .. MaxNodes /\ 0 <= MaxArgs
    BY GraphAssumption
  <2>2. issued = 0 .. Len(m_future_node_map) - 1
    BY <1>1
  <2>3. /\ senders \in [Node -> Seq(Node)] /\ count \in [Node -> Int]
        /\ \A n \in Node : Len(senders[n]) = 0 /\ count[n] = 0
    BY <1>1
  <2>4. \A n \in Node : Len(senders[n]) <= MaxArgs /\ count[n] <= Len(senders[n])
    BY <2>1, <2>3
  <2>5. /\ kind \in [Node -> {"none", "source", "task"}]
        /\ slot \in [Node -> [SlotNo -> Value]] /\ future \in [Node -> Value]
        /\ ran \in [Node -> Nat]
    BY <1>1 DEF Value
  <2>6. m_ready_nodes \in Seq(Node) /\ m_future_node_map \in Seq(Node)
    BY <1>1
  <2>7. /\ pc \in {"user", "run"} /\ awaits \in 0 .. MaxAwaits
        /\ threw \in BOOLEAN /\ size \in 0 .. MaxNodes
        /\ running_nodes \subseteq Node /\ completed \subseteq issued
        /\ returned \subseteq completed
    BY <1>1, <2>1
  <2> QED BY <2>2, <2>3, <2>4, <2>5, <2>6, <2>7 DEF TypeOK
<1>4. GraphIsBuilt
  BY <1>1 DEF GraphIsBuilt
<1>5. NodesOfInvocations /\ InvocationsOfNodes
  BY <1>1 DEF NodesOfInvocations, InvocationsOfNodes
<1>6. OnceEach
  BY <1>1 DEF OnceEach, Ready
<1>7. CountsKept /\ NoneForgotten /\ SendersFirst
  BY <1>1, <1>2 DEF CountsKept, NoneForgotten, SendersFirst
<1> QED BY <1>3, <1>4, <1>5, <1>6, <1>7 DEF IInv

LEMMA NextInvariant == IInv /\ [Next]_vars => IInv'
<1> SUFFICES ASSUME IInv, [Next]_vars PROVE IInv'
  OBVIOUS
<1>1. CASE Build
  BY <1>1, BuildInvariant
<1>2. CASE Await
  BY <1>2, AwaitInvariant
<1>3. CASE \E n \in Node : RunSource(n)
  BY <1>3, RunSourceInvariant
<1>4. CASE \E n \in Node : RunTask(n)
  BY <1>4, RunTaskInvariant
<1>5. CASE \E n \in Node : RunThrows(n)
  BY <1>5, RunThrowsInvariant
<1>6. CASE AwaitReturns
  BY <1>6, AwaitReturnsInvariant
<1>7. CASE \E i \in completed : WaitOne(i)
  BY <1>7, WaitOneInvariant
<1>8. CASE \E i \in issued : Complete(i)
  BY <1>8, CompleteInvariant
<1>9. CASE Destroy \/ UNCHANGED vars
  BY <1>9, DestroyInvariant
<1> QED BY <1>1, <1>2, <1>3, <1>4, <1>5, <1>6, <1>7, <1>8, <1>9
        DEF Next, Executor, RunNode, Ended

\* The counts, the slots, the stack and the outstanding invocations agree in
\* every reachable state.
THEOREM Invariance == Spec => []IInv
<1>1. Init => IInv
  BY InitInvariant
<1>2. IInv /\ [Next]_vars => IInv'
  BY NextInvariant
<1> QED BY <1>1, <1>2, PTL DEF Spec

\* Dependency counts never exceed the number of senders, and the invocations
\* are numbered by their place in m_future_node_map.
THEOREM TypeCorrect == Spec => []TypeOK
<1>1. IInv => TypeOK
  BY DEF IInv
<1> QED BY <1>1, Invariance, PTL

\* In the first await_all no node is made ready, and none run, before all the
\* nodes it depends on have finished.
THEOREM RunsBehindSenders == Spec => []SendersFirst
<1>1. IInv => SendersFirst
  BY DEF IInv
<1> QED BY <1>1, Invariance, PTL

\* In every await_all, until one throws, no node is pushed twice or run twice,
\* and none that still waits for a sender.
THEOREM EachNodeOnce == Spec => []OnceEach
<1>1. IInv => OnceEach
  BY DEF IInv
<1> QED BY <1>1, Invariance, PTL

\* In the first three calls of await_all every ready task has the results of its
\* senders as its arguments, not a seed and not an empty optional.
THEOREM RunsOnResults == Spec => []ArgumentsAreResults
<1>1. IInv => ArgumentsAreResults
  BY ReadyProperties DEF IInv
<1> QED BY <1>1, Invariance, PTL

\* await_all never calls wait_one when the dispatcher owes it nothing.
THEOREM WaitsOnlyForInvocations == Spec => []WaitsForSomething
<1>1. IInv => WaitsForSomething
  BY DEF IInv, NodesOfInvocations, WaitsForSomething
<1> QED BY <1>1, Invariance, PTL

\* The first and the second await_all return only when every node has run and
\* every invocation has been returned.
THEOREM AwaitsEverything == Spec => AwaitsAll
<1> DEFINE Ends == (pc = "run" /\ pc' = "user" /\ ~threw' /\ awaits <= 2) =>
                     /\ \A n \in Created : ran[n] = 1
                     /\ returned = issued
<1>1. ASSUME IInv, [Next]_vars PROVE [Ends]_vars
  <2> SUFFICES ASSUME pc = "run", pc' = "user", ~threw', awaits <= 2
               PROVE  /\ \A n \in Created : ran[n] = 1
                      /\ returned = issued
    OBVIOUS
  <2>1. AwaitReturns
    BY <1>1 DEF Next, vars, Build, Schedule, Then, Building, Await, Executor,
                RunNode, RunSource, RunTask, RunThrows, WaitOne, Destroy,
                Complete, Ended
  <2>2. ~threw /\ m_ready_nodes = <<>> /\ running_nodes = {}
    BY <2>1 DEF AwaitReturns
  <2>3. issued \ returned = {} /\ returned \subseteq issued
    BY <1>1, <2>2 DEF IInv, InvocationsOfNodes, TypeOK
  <2> QED BY <1>1, <2>2, <2>3, AllHaveRun
<1> QED BY <1>1, Invariance, PTL DEF Spec, AwaitsAll
=============================================================================
