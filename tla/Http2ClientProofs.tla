-------------------------- MODULE Http2ClientProofs --------------------------
(***************************************************************************)
(* For every number of invocations, of places and of sessions, and however *)
(* answers and throttling come, an invocation of the load generator is in  *)
(* one place and no more than p are in flight.  The four places partition  *)
(* the started ids; each handler moves ids between them, and those ids     *)
(* that leave inflight make the room for those that enter it.              *)
(***************************************************************************)
EXTENDS Http2Client, SequenceTheorems, FiniteSetTheorems, TLAPS

-----------------------------------------------------------------------------
(* What push_back, back and pop_back do to the ids that wait to be resent. *)

\* push_back adds one element.
LEMMA PushElements ==
  ASSUME NEW S, NEW s \in Seq(S), NEW e \in S
  PROVE  /\ Append(s, e) \in Seq(S)
         /\ ToSet(Append(s, e)) = ToSet(s) \union {e}
         /\ IsInjective(s) /\ e \notin ToSet(s) => IsInjective(Append(s, e))
<1>1. /\ Append(s, e) \in Seq(S)
      /\ Len(s) \in Nat
      /\ DOMAIN s = 1 .. Len(s)
      /\ DOMAIN Append(s, e) = 1 .. Len(s) + 1
      /\ \A k \in 1 .. Len(s) : Append(s, e)[k] = s[k]
      /\ Append(s, e)[Len(s) + 1] = e
  BY LenProperties
<1>2. 1 .. Len(s) + 1 = (1 .. Len(s)) \union {Len(s) + 1}
  BY <1>1
<1>3. ToSet(Append(s, e)) = ToSet(s) \union {e}
  <2>1. ToSet(Append(s, e)) \subseteq ToSet(s) \union {e}
    BY <1>1, <1>2 DEF ToSet
  <2>2. ASSUME NEW x \in ToSet(s) \union {e} PROVE x \in ToSet(Append(s, e))
    <3>1. CASE x = e BY <1>1, <1>2, <3>1 DEF ToSet
    <3>2. CASE x \in ToSet(s)
      <4>1. PICK k \in 1 .. Len(s) : x = s[k] BY <1>1, <3>2 DEF ToSet
      <4>2. k \in DOMAIN Append(s, e) /\ Append(s, e)[k] = x
        BY <1>1, <1>2, <4>1
      <4>3. QED BY <4>2 DEF ToSet
    <3>3. QED BY <3>1, <3>2
  <2>3. QED BY <2>1, <2>2
<1>4. ASSUME IsInjective(s), e \notin ToSet(s)
      PROVE  IsInjective(Append(s, e))
  <2>1. \A k \in 1 .. Len(s) : s[k] # e
    BY <1>1, <1>4 DEF ToSet
  <2>2. QED BY <1>1, <1>2, <1>4, <2>1 DEF IsInjective
<1>5. QED BY <1>1, <1>3, <1>4

\* back and pop_back take exactly one element away, when there are no
\* duplicates.
LEMMA PopElements ==
  ASSUME NEW S, NEW s \in Seq(S), s # <<>>
  PROVE  /\ Front(s) \in Seq(S)
         /\ Last(s) \in S
         /\ Last(s) \in ToSet(s)
         /\ IsInjective(s) => /\ IsInjective(Front(s))
                              /\ ToSet(Front(s)) = ToSet(s) \ {Last(s)}
<1>1. /\ Len(s) \in Nat \ {0}
      /\ DOMAIN s = 1 .. Len(s)
      /\ \A k \in 1 .. Len(s) : s[k] \in S
  BY EmptySeq, LenProperties, ElementOfSeq
<1>2. Last(s) \in S /\ Last(s) \in ToSet(s)
  BY <1>1 DEF Last, ToSet
<1>3. /\ Front(s) \in Seq(S)
      /\ Len(Front(s)) = Len(s) - 1
      /\ \A k \in 1 .. Len(s) - 1 : Front(s)[k] = s[k]
  BY <1>1, SubSeqProperties DEF Front
<1>4. DOMAIN Front(s) = 1 .. Len(s) - 1
  BY <1>3, LenProperties
<1>5. 1 .. Len(s) = (1 .. Len(s) - 1) \union {Len(s)}
  BY <1>1
<1>6. ASSUME IsInjective(s)
      PROVE  /\ IsInjective(Front(s))
             /\ ToSet(Front(s)) = ToSet(s) \ {Last(s)}
  <2>1. IsInjective(Front(s))
    BY <1>1, <1>3, <1>4, <1>6 DEF IsInjective
  <2>2. \A k \in 1 .. Len(s) - 1 : s[k] # s[Len(s)]
    BY <1>1, <1>6 DEF IsInjective
  <2>3. ToSet(Front(s)) = {s[k] : k \in 1 .. Len(s) - 1}
    BY <1>3, <1>4 DEF ToSet
  <2>4. ToSet(s) = {s[k] : k \in 1 .. Len(s) - 1} \union {s[Len(s)]}
    BY <1>1, <1>5 DEF ToSet
  <2>5. QED BY <2>1, <2>2, <2>3, <2>4 DEF Last
<1>7. QED BY <1>2, <1>3, <1>6

-----------------------------------------------------------------------------
\* The four places with ids 0 .. k - 1.
Partition(a, b, c, d, k) ==
  /\ a \union b \union c \union d = 0 .. k - 1
  /\ a \intersect b = {} /\ a \intersect c = {} /\ a \intersect d = {}
  /\ b \intersect c = {} /\ b \intersect d = {} /\ c \intersect d = {}

Places == Partition(inflight, ToSet(resend_queue), done, failed, started)

LEMMA PlacesArePartition ==
  OnePlaceEach <=> /\ IsInjective(resend_queue) /\ Places
                   /\ completed = Cardinality(done)
                   /\ Cardinality(inflight) <= p
<1> DEFINE b == ToSet(resend_queue)
           places == <<inflight, b, done, failed>>
<1> HIDE DEF b
<1>1. /\ places[1] = inflight /\ places[2] = b
      /\ places[3] = done /\ places[4] = failed
  OBVIOUS
<1>2. \A k \in 1 .. 4 : k = 1 \/ k = 2 \/ k = 3 \/ k = 4
  OBVIOUS
<1> HIDE DEF places
<1>3. UNION {places[k] : k \in 1 .. 4} =
        inflight \union b \union done \union failed
  <2>1. 1 \in 1 .. 4 /\ 2 \in 1 .. 4 /\ 3 \in 1 .. 4 /\ 4 \in 1 .. 4
    OBVIOUS
  <2> QED BY <1>1, <1>2, <2>1
<1>4. (\A k, l \in 1 .. 4 : k # l => places[k] \intersect places[l] = {}) <=>
        /\ inflight \intersect b = {} /\ inflight \intersect done = {}
        /\ inflight \intersect failed = {} /\ b \intersect done = {}
        /\ b \intersect failed = {} /\ done \intersect failed = {}
  BY <1>1, <1>2
<1> QED BY <1>3, <1>4 DEF OnePlaceEach, Places, Partition, places, b

\* The places are finite, and one id in flight is one more than have completed.
LEMMA PlacesAreFinite ==
  ASSUME Types, Places
  PROVE  /\ IsFiniteSet(inflight) /\ IsFiniteSet(done)
         /\ Cardinality(inflight) \in 0 .. started
         /\ Cardinality(done) \in 0 .. started
         /\ inflight # {} => Cardinality(done) < started
<1>1. started \in Nat /\ n \in Nat
  BY ArgumentsAssumption DEF Types
<1>2. IsFiniteSet(0 .. started - 1) /\ Cardinality(0 .. started - 1) = started
  <2>1. 0 \in Int /\ started - 1 \in Int
    BY <1>1
  <2> QED BY <1>1, <2>1, FS_Interval
<1>3. inflight \subseteq 0 .. started - 1 /\ done \subseteq 0 .. started - 1
  BY DEF Places, Partition
<1>4. /\ IsFiniteSet(inflight) /\ Cardinality(inflight) <= started
      /\ IsFiniteSet(done) /\ Cardinality(done) <= started
  <2>1. \A T \in SUBSET (0 .. started - 1) :
          /\ IsFiniteSet(T)
          /\ Cardinality(T) <= Cardinality(0 .. started - 1)
    BY <1>2, FS_Subset, Zenon
  <2> QED BY <1>2, <1>3, <2>1
<1>5. Cardinality(inflight) \in Nat /\ Cardinality(done) \in Nat
  BY <1>4, FS_CardinalityType
<1>6. ASSUME NEW i \in inflight PROVE Cardinality(done) < started
  <2>1. i \notin done /\ done \union {i} \subseteq 0 .. started - 1
    BY <1>3 DEF Places, Partition
  <2>2. Cardinality(done \union {i}) = Cardinality(done) + 1
    BY <1>4, <2>1, FS_AddElement
  <2>3. Cardinality(done \union {i}) <= started
    BY <1>2, <2>1, FS_Subset
  <2> QED BY <1>1, <1>5, <2>2, <2>3
<1> QED BY <1>1, <1>4, <1>5, <1>6

\* Replacing an element of a finite set by at most one other one does not make
\* the set larger.
LEMMA ReplaceElement ==
  ASSUME NEW S, IsFiniteSet(S), NEW i \in S, NEW T,
         T = S \ {i} \/ \E j : T = (S \ {i}) \union {j}
  PROVE  Cardinality(T) <= Cardinality(S)
<1>1. /\ IsFiniteSet(S \ {i}) /\ Cardinality(S \ {i}) = Cardinality(S) - 1
      /\ Cardinality(S) \in Nat
  BY FS_RemoveElement, FS_CardinalityType
<1>2. ASSUME NEW j PROVE Cardinality((S \ {i}) \union {j}) <= Cardinality(S)
  <2>1. CASE j \in S \ {i}
    <3>1. (S \ {i}) \union {j} = S \ {i}
      BY <2>1
    <3>2. Cardinality((S \ {i}) \union {j}) = Cardinality(S) - 1
      BY <1>1, <3>1, Zenon
    <3> QED BY <1>1, <3>2
  <2>2. CASE j \notin S \ {i}
    <3>1. Cardinality((S \ {i}) \union {j}) = Cardinality(S \ {i}) + 1
      BY <1>1, <2>2, FS_AddElement
    <3> QED BY <1>1, <3>1
  <2> QED BY <2>1, <2>2
<1>3. Cardinality(S \ {i}) <= Cardinality(S)
  BY <1>1
<1> QED BY <1>2, <1>3, Zenon

-----------------------------------------------------------------------------
(* The invariant is inductive. *)

USE DEF connectVars

LEMMA InitInvariant == Init => IInv
<1> SUFFICES ASSUME Init PROVE IInv
  OBVIOUS
<1>1. n \in Nat /\ p \in 1 .. n
  BY ArgumentsAssumption
<1>2. Types /\ ScheduledFirst
  BY <1>1 DEF Init, Types, ScheduledFirst
<1>3. IsInjective(resend_queue) /\ ToSet(resend_queue) = {}
  BY DEF Init, ToSet, IsInjective
<1>4. Places
  <2>1. 0 .. started - 1 = {}
    BY DEF Init
  <2> QED BY <1>3, <2>1 DEF Init, Places, Partition
<1>5. completed = Cardinality(done) /\ Cardinality(inflight) <= p
  BY <1>1, FS_EmptySet DEF Init
<1> QED BY <1>2, <1>3, <1>4, <1>5, PlacesArePartition DEF IInv

\* A step that moves nothing.
LEMMA QuietStep ==
  ASSUME IInv, main' \in {"connecting", "scheduling", "running", "shutdown",
                          "dead"},
         ScheduledFirst',
         UNCHANGED <<started, completed, resend_queue, inflight, done, failed>>
  PROVE  IInv'
<1>1. Types'
  BY DEF IInv, Types
<1>2. OnePlaceEach'
  BY DEF IInv, OnePlaceEach
<1> QED BY <1>1, <1>2 DEF IInv

\* schedule_request takes an id that was in no place.
LEMMA NextIsFresh ==
  ASSUME Types, Places
  PROVE  /\ started \notin inflight \union done \union failed
         /\ started \notin ToSet(resend_queue)
         /\ 0 .. (started + 1) - 1 = (0 .. started - 1) \union {started}
<1>1. started \in Nat
  BY ArgumentsAssumption DEF Types
<1>2. started \notin 0 .. started - 1
  BY <1>1
<1>3. 0 .. (started + 1) - 1 = (0 .. started - 1) \union {started}
  BY <1>1
<1> QED BY <1>2, <1>3 DEF Places, Partition

LEMMA ScheduleInvariant ==
  ASSUME IInv, Schedule
  PROVE  IInv'
<1>1. /\ Types /\ ScheduledFirst /\ IsInjective(resend_queue) /\ Places
      /\ completed = Cardinality(done)
  BY PlacesArePartition DEF IInv
<1>2. /\ main = "scheduling" /\ started' = started + 1
      /\ inflight' = inflight \union {started}
      /\ main' \in {"dead", IF started' = p THEN "running" ELSE main}
      /\ UNCHANGED <<completed, resend_queue, done, failed>>
  BY DEF Schedule, ScheduleRequest, SubmitReq
<1>3. /\ started \in 0 .. n /\ started < p /\ n \in Nat /\ p \in 1 .. n
      /\ started + 1 \in 0 .. n /\ started + 1 <= p
  BY <1>1, <1>2, ArgumentsAssumption DEF Types, ScheduledFirst
<1>4. Types' /\ ScheduledFirst'
  <2>1. started \in ReqId
    BY <1>3 DEF ReqId
  <2>2. ScheduledFirst'
    BY <1>2, <1>3 DEF ScheduledFirst
  <2>3. Types'
    BY <1>1, <1>2, <1>3, <2>1 DEF Types
  <2> QED BY <2>2, <2>3
<1>5. Places'
  BY <1>1, <1>2, NextIsFresh DEF Places, Partition
<1>6. Cardinality(inflight') <= p
  <2>1. (Types /\ Places => Cardinality(inflight) \in 0 .. started)'
    BY PlacesAreFinite, PTL
  <2> QED BY <1>2, <1>3, <1>4, <1>5, <2>1
<1> QED
  <2>1. (IsInjective(resend_queue))' /\ (completed = Cardinality(done))'
    BY <1>1, <1>2
  <2>2. ((IsInjective(resend_queue) /\ Places /\ completed = Cardinality(done)
          /\ Cardinality(inflight) <= p) => OnePlaceEach)'
    BY PlacesArePartition, PTL
  <2> QED BY <1>4, <1>5, <1>6, <2>1, <2>2 DEF IInv

\* A handler of an answer moves id i and what takes its place.
LEMMA MoveKeepsInvariant ==
  ASSUME IInv, NEW i \in inflight, Types', ScheduledFirst', Places',
         IsInjective(resend_queue)',
         \/ completed' = completed /\ done' = done
         \/ completed' = completed + 1 /\ done' = done \union {i},
         \/ inflight' = inflight \ {i}
         \/ \E j : inflight' = (inflight \ {i}) \union {j}
  PROVE  IInv'
<1>1. /\ Types /\ Places
      /\ completed = Cardinality(done) /\ Cardinality(inflight) <= p
  BY PlacesArePartition DEF IInv
<1>2. IsFiniteSet(inflight) /\ IsFiniteSet(done)
  BY <1>1, PlacesAreFinite
<1>3. Cardinality(inflight') <= p
  <2>1. Cardinality(inflight') <= Cardinality(inflight)
    BY <1>2, ReplaceElement
  <2>2. Cardinality(inflight) \in Nat
    BY <1>2, FS_CardinalityType
  <2>3. IsFiniteSet(inflight')
    <3>1. (Types /\ Places => IsFiniteSet(inflight))'
      BY PlacesAreFinite, PTL
    <3> QED BY <3>1
  <2>4. Cardinality(inflight') \in Nat
    BY <2>3, FS_CardinalityType
  <2> QED BY <1>1, <2>1, <2>2, <2>4, ArgumentsAssumption
<1>4. completed' = Cardinality(done')
  <2>1. i \notin done
    BY <1>1 DEF Places, Partition
  <2>2. Cardinality(done \union {i}) = Cardinality(done) + 1
    BY <1>2, <2>1, FS_AddElement
  <2> QED BY <1>1, <2>2
<1>5. OnePlaceEach'
  <2>1. (completed = Cardinality(done))' /\ (Cardinality(inflight) <= p)'
    BY <1>3, <1>4
  <2> QED BY <2>1, PlacesArePartition, PTL
<1> QED BY <1>5 DEF IInv

LEMMA OnResultInvariant ==
  ASSUME IInv, NEW i \in ReqId, OnResult(i)
  PROVE  IInv'
<1> DEFINE Q == ToSet(resend_queue)
<1>1. /\ Types /\ ScheduledFirst /\ IsInjective(resend_queue) /\ Places
  BY PlacesArePartition DEF IInv
<1>2. /\ i \in inflight /\ main = "running"
      /\ completed' = completed + 1 /\ done' = done \union {i}
      /\ main' \in {main, "dead"} /\ failed' = failed
  BY DEF OnResult, Answered, Resend, StartNext, ScheduleRequest, SubmitReq
<1>3. CASE Resend(inflight \ {i})
  <2> DEFINE j == Last(resend_queue)
  <2>1. /\ resend_queue # <<>> /\ resend_queue' = Front(resend_queue)
        /\ inflight' = (inflight \ {i}) \union {j} /\ started' = started
    BY <1>3 DEF Resend, SubmitReq
  <2>2. /\ resend_queue' \in Seq(ReqId) /\ j \in ReqId /\ j \in Q
        /\ IsInjective(resend_queue)'
        /\ ToSet(resend_queue') = Q \ {j}
    BY <1>1, <2>1, PopElements DEF Types
  <2> HIDE DEF j, Q
  <2>3. Types' /\ ScheduledFirst'
    BY <1>1, <1>2, <2>1, <2>2 DEF Types, ScheduledFirst
  <2>4. Places'
    <3>1. Partition(inflight, Q, done, failed, started)
      BY <1>1 DEF Places, Q
    <3>2. Partition((inflight \ {i}) \union {j}, Q \ {j}, done \union {i},
                    failed, started)
      BY <1>2, <2>2, <3>1 DEF Partition
    <3> QED BY <1>2, <2>1, <2>2, <3>2 DEF Places
  <2> QED BY <1>2, <2>1, <2>2, <2>3, <2>4, MoveKeepsInvariant
<1>4. CASE StartNext(inflight \ {i})
  <2>1. resend_queue' = resend_queue /\ IsInjective(resend_queue)'
    BY <1>1, <1>4 DEF StartNext
  <2>2. CASE started < n /\ ScheduleRequest(inflight \ {i}, main)
    <3>1. /\ inflight' = (inflight \ {i}) \union {started}
          /\ started' = started + 1
      BY <2>2 DEF ScheduleRequest, SubmitReq
    <3>2. Types' /\ ScheduledFirst'
      <4>1. started \in ReqId /\ started + 1 \in 0 .. n
        BY <1>1, <2>2, ArgumentsAssumption DEF Types, ReqId
      <4> QED BY <1>1, <1>2, <2>1, <3>1, <4>1 DEF Types, ScheduledFirst
    <3>3. Places'
      <4>1. Partition((inflight \ {i}) \union {started}, ToSet(resend_queue),
                      done \union {i}, failed, started + 1)
        BY <1>1, <1>2, NextIsFresh DEF Places, Partition
      <4> QED BY <1>2, <2>1, <3>1, <4>1 DEF Places
    <3> QED BY <1>2, <2>1, <3>1, <3>2, <3>3, MoveKeepsInvariant
  <2>3. CASE started = n /\ inflight' = inflight \ {i} /\ UNCHANGED started
    <3>1. Types' /\ ScheduledFirst'
      BY <1>1, <1>2, <2>1, <2>3 DEF Types, ScheduledFirst
    <3>2. Places'
      BY <1>1, <1>2, <2>1, <2>3 DEF Places, Partition
    <3> QED BY <1>2, <2>1, <2>3, <3>1, <3>2, MoveKeepsInvariant
  <2> QED BY <1>4, <2>2, <2>3 DEF StartNext
<1> QED BY <1>3, <1>4 DEF OnResult

\* A throttled answer is kept for later: completed is behind started.
LEMMA OnThrottledInvariant ==
  ASSUME IInv, NEW i \in ReqId, OnThrottled(i)
  PROVE  IInv'
<1>1. /\ Types /\ ScheduledFirst /\ IsInjective(resend_queue) /\ Places
      /\ completed = Cardinality(done)
  BY PlacesArePartition DEF IInv
<1>2. i \in inflight /\ started > completed
  <2>1. i \in inflight
    BY DEF OnThrottled, Answered
  <2>2. /\ Cardinality(done) < started /\ Cardinality(done) \in 0 .. started
        /\ started \in 0 .. n
    BY <1>1, <2>1, PlacesAreFinite DEF Types
  <2> QED BY <1>1, <2>1, <2>2, ArgumentsAssumption
<1>3. /\ resend_queue' = Append(resend_queue, i)
      /\ inflight' = inflight \ {i} /\ main = "running"
      /\ UNCHANGED <<main, started, completed, done, failed>>
  BY <1>2 DEF OnThrottled, Answered
<1>4. i \notin ToSet(resend_queue)
  BY <1>1, <1>2 DEF Places, Partition
<1>5. /\ resend_queue' \in Seq(ReqId) /\ IsInjective(resend_queue)'
      /\ ToSet(resend_queue') = ToSet(resend_queue) \union {i}
  BY <1>1, <1>3, <1>4, PushElements DEF Types
<1>6. Types' /\ ScheduledFirst'
  BY <1>1, <1>3, <1>5 DEF Types, ScheduledFirst
<1>7. Places'
  BY <1>1, <1>2, <1>3, <1>5 DEF Places, Partition
<1> QED BY <1>2, <1>3, <1>5, <1>6, <1>7, MoveKeepsInvariant

LEMMA OnErrorInvariant ==
  ASSUME IInv, NEW i \in ReqId, OnError(i)
  PROVE  IInv'
<1>1. Types /\ ScheduledFirst /\ IsInjective(resend_queue) /\ Places
  BY PlacesArePartition DEF IInv
<1>2. /\ i \in inflight
      /\ inflight' = inflight \ {i} /\ failed' = failed \union {i}
      /\ UNCHANGED <<main, started, completed, resend_queue, done>>
  BY DEF OnError, Answered
<1>3. Types' /\ ScheduledFirst' /\ IsInjective(resend_queue)'
  BY <1>1, <1>2 DEF Types, ScheduledFirst
<1>4. Places'
  BY <1>1, <1>2 DEF Places, Partition
<1> QED BY <1>2, <1>3, <1>4, MoveKeepsInvariant

LEMMA NextInvariant == IInv /\ [Next]_vars => IInv'
<1> SUFFICES ASSUME IInv, [Next]_vars PROVE IInv'
  OBVIOUS
<1>1. ScheduledFirst /\ main \in {"connecting", "scheduling", "running",
                                  "shutdown", "dead"}
  BY DEF IInv, Types
<1>2. CASE Connected
  <2>1. ScheduledFirst'
    BY <1>1, <1>2, ArgumentsAssumption DEF Connected, ScheduledFirst
  <2> QED BY <1>2, <2>1, QuietStep DEF Connected
<1>3. CASE OnClose
  <2>1. ScheduledFirst'
    BY <1>1, <1>3 DEF OnClose, ScheduledFirst
  <2> QED BY <1>1, <1>3, <2>1, QuietStep DEF OnClose
<1>4. ASSUME NEW s \in Session, OnConnect(s) \/ OnSessionError(s) PROVE IInv'
  <2>1. UNCHANGED <<main, started, completed, resend_queue, inflight, done,
                    failed>>
    BY <1>4 DEF OnConnect, OnSessionError
  <2>2. ScheduledFirst'
    BY <1>1, <2>1 DEF ScheduledFirst
  <2> QED BY <1>1, <2>1, <2>2, QuietStep
<1>5. ASSUME NEW i \in ReqId, OnUnexpected(i) PROVE IInv'
  <2>1. /\ main' = "dead"
        /\ UNCHANGED <<started, completed, resend_queue, inflight, done, failed>>
    BY <1>5 DEF OnUnexpected
  <2>2. ScheduledFirst'
    BY <2>1 DEF ScheduledFirst
  <2> QED BY <2>1, <2>2, QuietStep
<1>6. CASE UNCHANGED vars
  <2>1. ScheduledFirst'
    BY <1>1, <1>6 DEF vars, ScheduledFirst
  <2> QED BY <1>1, <1>6, <2>1, QuietStep DEF vars
<1>7. \A i \in ReqId : Handler(i) => IInv'
  BY <1>5, OnResultInvariant, OnThrottledInvariant, OnErrorInvariant DEF Handler
<1>8. Schedule => IInv'
  BY ScheduleInvariant
<1> QED BY <1>2, <1>3, <1>4, <1>6, <1>7, <1>8 DEF Next

-----------------------------------------------------------------------------
(* The theorems. *)

\* The invariant holds in every reachable state.
THEOREM Invariance == Spec => []IInv
<1>1. Init => IInv
  BY InitInvariant
<1>2. IInv /\ [Next]_vars => IInv'
  BY NextInvariant
<1> QED BY <1>1, <1>2, PTL DEF Spec

\* For every n and p: no invocation of http2_client.cpp is lost between
\* inflight, resend_queue and the counter completed, none is submitted again
\* while it is in flight, and never more than p are in flight.
THEOREM EveryInvocationInOnePlace == Spec => []OnePlaceEach
<1>1. IInv => OnePlaceEach
  BY DEF IInv
<1> QED BY <1>1, Invariance, PTL
=============================================================================
