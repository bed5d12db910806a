---------------------------- MODULE TracingProofs ----------------------------
(***************************************************************************)
(* For every tree of calls and whatever the clocks show, the spans of each *)
(* container form a forest, in which every span is below the one it was    *)
(* created under; and the spans that came with a result lie inside the     *)
(* span of the call.  IInv adds what keeps the indices in bounds that the  *)
(* steps read from other variables: the span of a call that was opened     *)
(* exists, and a process that has started has its root.  TimesInv adds     *)
(* where spans come from and what lies in the past on each clock.          *)
(***************************************************************************)
EXTENDS Tracing, TLAPS

States == {"none", "called", "running", "done"}
Started == {"running", "done"}

WellFormed(s) == /\ s \in Seq(Span)
                 /\ \A i \in 1 .. Len(s) : s[i].parent \in 1 .. i
                 /\ \A i \in 1 .. Len(s) : s[s[i].parent].id = s[i].want

Types == /\ now \in Int
         /\ pc \in [Proc -> States]
         /\ m_spans \in [Proc -> Seq(Span)]
         /\ call \in [Proc -> Nat]
         /\ end \in [Proc -> Int]
         /\ received \in [Proc -> Int]

Containers == \A p \in Proc : WellFormed(m_spans[p])

RootsExist == \A p \in Proc : pc[p] \in Started => Len(m_spans[p]) >= 1

CallsExist == \A p \in Proc : \A q \in Calls(p) :
                call[q] # 0 => /\ pc[p] \in Started
                               /\ call[q] \in 1 .. Len(m_spans[p])

ReceivedAreDone == \A q \in Proc : received[q] # 0 => pc[q] = "done"

DispatchedAreCalls == \A p \in Proc : \A q \in Calls(p) :
                        pc[q] # "none" => call[q] # 0

IInv == /\ Types /\ Containers /\ RootsExist
        /\ CallsExist /\ ReceivedAreDone /\ DispatchedAreCalls

-----------------------------------------------------------------------------
(* What the operations of the container do to a well-formed one. *)

\* create_root makes a container with one span.
LEMMA RootWellFormed ==
  ASSUME NEW p \in Proc, NEW timed \in BOOLEAN, Types
  PROVE  WellFormed(CreateRoot(p, timed)) /\ Len(CreateRoot(p, timed)) = 1
<1>1. Clock(p) \in Int
  BY ProcAssumption DEF Clock, Types
<1>2. <<p, 1>> \in Id
  BY DEF Id
<1> DEFINE t == IF timed THEN Clock(p) ELSE 0
           r == [id |-> <<p, 1>>, want |-> <<p, 1>>, parent |-> 1,
                 timed |-> timed, start_time |-> t, end_time |-> 0]
<1>3. t \in Int
  BY <1>1
<1>4. r \in Span /\ r.parent = 1 /\ r.id = r.want
  <2> HIDE DEF t
  <2> QED BY <1>2, <1>3 DEF Span
<1>5. CreateRoot(p, timed) = <<r>>
  BY DEF CreateRoot
<1> HIDE DEF r
<1> QED BY <1>4, <1>5 DEF WellFormed

\* create_child appends a span below one that exists.
LEMMA ChildWellFormed ==
  ASSUME NEW p \in Proc, NEW s, WellFormed(s), NEW a \in 1 .. Len(s),
         NEW timed \in BOOLEAN, Types
  PROVE  /\ WellFormed(CreateChild(p, s, a, timed))
         /\ Len(CreateChild(p, s, a, timed)) = Len(s) + 1
<1>1. Clock(p) \in Int
  BY ProcAssumption DEF Clock, Types
<1>2. s \in Seq(Span) /\ Len(s) \in Nat /\ s[a] \in Span
  BY DEF WellFormed
<1>3. <<p, Len(s) + 1>> \in Id /\ s[a].id \in Id
  <2>1. Len(s) + 1 \in Nat \ {0}
    BY <1>2
  <2>2. <<p, Len(s) + 1>> \in Id
    BY <2>1, Zenon DEF Id
  <2> QED BY <1>2, <2>2 DEF Span
<1> DEFINE t == IF timed THEN Clock(p) ELSE 0
           r == [id |-> <<p, Len(s) + 1>>, want |-> s[a].id, parent |-> a,
                 timed |-> timed, start_time |-> t, end_time |-> 0]
<1>4. t \in Int
  BY <1>1
<1>5. r \in Span /\ r.parent = a /\ r.want = s[a].id
  <2> HIDE DEF t
  <2> QED BY <1>2, <1>3, <1>4 DEF Span
<1>6. CreateChild(p, s, a, timed) = Append(s, r)
  BY DEF CreateChild
<1> HIDE DEF r
<1>7. /\ Append(s, r) \in Seq(Span) /\ Len(Append(s, r)) = Len(s) + 1
      /\ \A i \in 1 .. Len(s) : Append(s, r)[i] = s[i]
      /\ Append(s, r)[Len(s) + 1] = r
  BY <1>2, <1>5
<1> DEFINE new == Append(s, r)
<1> HIDE DEF new
<1>8. ASSUME NEW i \in 1 .. Len(s) + 1
      PROVE  new[i].parent \in 1 .. i /\ new[new[i].parent].id = new[i].want
  <2>1. CASE i \in 1 .. Len(s)
    <3>1. new[i] = s[i]
      BY <1>7, <2>1 DEF new
    <3>2. s[i].parent \in 1 .. i /\ s[s[i].parent].id = s[i].want
      BY <2>1 DEF WellFormed
    <3>3. s[i].parent \in 1 .. Len(s)
      BY <1>2, <2>1, <3>2
    <3>4. new[s[i].parent] = s[s[i].parent]
      BY <1>7, <3>3 DEF new
    <3> QED BY <3>1, <3>2, <3>4
  <2>2. CASE i = Len(s) + 1
    <3>1. new[i] = r /\ new[a] = s[a]
      BY <1>7, <2>2 DEF new
    <3>2. a \in 1 .. i
      BY <1>2, <2>2
    <3> QED BY <1>5, <3>1, <3>2
  <2>3. i \in 1 .. Len(s) \/ i = Len(s) + 1
    BY <1>2
  <2> QED BY <2>1, <2>2, <2>3
<1> QED BY <1>6, <1>7, <1>8 DEF WellFormed, new

\* end changes a time.
LEMMA EndWellFormed ==
  ASSUME NEW s, WellFormed(s), NEW i \in 1 .. Len(s), NEW t \in Int
  PROVE  WellFormed(EndSpan(s, i, t)) /\ Len(EndSpan(s, i, t)) = Len(s)
<1>1. s \in Seq(Span) /\ s[i] \in Span
  BY DEF WellFormed
<1> DEFINE r == [s[i] EXCEPT !.end_time = t]
<1>2. /\ r \in Span /\ r.parent = s[i].parent
      /\ r.id = s[i].id /\ r.want = s[i].want
  BY <1>1 DEF Span
<1>3. EndSpan(s, i, t) = [s EXCEPT ![i] = r]
  BY DEF EndSpan
<1> HIDE DEF r
<1> DEFINE new == [s EXCEPT ![i] = r]
<1>4. new \in Seq(Span) /\ Len(new) = Len(s)
  BY <1>1, <1>2
<1>5. \A j \in 1 .. Len(s) : /\ new[j].parent = s[j].parent
                             /\ new[j].id = s[j].id /\ new[j].want = s[j].want
  BY <1>1, <1>2
<1> HIDE DEF new
<1>6. ASSUME NEW j \in 1 .. Len(s)
      PROVE  new[j].parent \in 1 .. j /\ new[new[j].parent].id = new[j].want
  <2>1. s[j].parent \in 1 .. j /\ s[s[j].parent].id = s[j].want
    BY DEF WellFormed
  <2>2. s[j].parent \in 1 .. Len(s)
    BY <1>1, <2>1
  <2> QED BY <1>5, <2>1, <2>2
<1>7. EndSpan(s, i, t) = new
  BY <1>3 DEF new
<1> QED BY <1>4, <1>6, <1>7 DEF WellFormed

\* concat shifts the parents of the other container with its spans.
LEMMA ConcatWellFormed ==
  ASSUME NEW s, WellFormed(s), NEW o, WellFormed(o), NEW d \in Int
  PROVE  /\ WellFormed(Concat(s, o, d))
         /\ Len(Concat(s, o, d)) = Len(s) + Len(o)
         /\ \A i \in 1 .. Len(s) : Concat(s, o, d)[i] = s[i]
<1>1. s \in Seq(Span) /\ o \in Seq(Span) /\ Len(s) \in Nat /\ Len(o) \in Nat
  BY DEF WellFormed
<1> DEFINE r(i) == [o[i] EXCEPT !.parent = @ + Len(s),
                                !.start_time = @ + d, !.end_time = @ + d]
           f == [i \in 1 .. Len(o) |-> r(i)]
<1>2. \A i \in 1 .. Len(o) :
        /\ r(i) \in Span /\ r(i).parent = o[i].parent + Len(s)
        /\ r(i).id = o[i].id /\ r(i).want = o[i].want
  <2> SUFFICES ASSUME NEW i \in 1 .. Len(o)
               PROVE  /\ r(i) \in Span /\ r(i).parent = o[i].parent + Len(s)
                      /\ r(i).id = o[i].id /\ r(i).want = o[i].want
    OBVIOUS
  <2>1. o[i] \in Span
    BY <1>1
  <2>2. o[i].parent \in Nat /\ o[i].start_time \in Int /\ o[i].end_time \in Int
    BY <2>1 DEF Span
  <2>3. /\ o[i].parent + Len(s) \in Nat
        /\ o[i].start_time + d \in Int
        /\ o[i].end_time + d \in Int
    BY <1>1, <2>2
  <2> QED BY <2>1, <2>3 DEF Span
<1>3. Concat(s, o, d) = s \o f
  <2>1. DOMAIN o = 1 .. Len(o)
    BY <1>1
  <2> QED BY <2>1, Zenon DEF Concat
<1> HIDE DEF r
<1>4. f \in Seq(Span) /\ Len(f) = Len(o)
  BY <1>1, <1>2
<1>5. \A i \in 1 .. Len(o) :
        /\ f[i].parent = o[i].parent + Len(s)
        /\ f[i].id = o[i].id /\ f[i].want = o[i].want
  BY <1>1, <1>2
<1> HIDE DEF f
<1>6. /\ s \o f \in Seq(Span)
      /\ Len(s \o f) = Len(s) + Len(o)
  BY <1>1, <1>4
<1> DEFINE c == s \o f
<1>7. /\ \A i \in 1 .. Len(s) : c[i] = s[i]
      /\ \A j \in 1 .. Len(o) : c[j + Len(s)] = f[j]
  BY <1>1, <1>4
<1> HIDE DEF c
<1>8. ASSUME NEW i \in 1 .. Len(s) + Len(o)
      PROVE  c[i].parent \in 1 .. i /\ c[c[i].parent].id = c[i].want
  <2>1. CASE i <= Len(s)
    <3>1. i \in 1 .. Len(s)
      BY <1>1, <2>1
    <3>2. s[i].parent \in 1 .. i /\ s[s[i].parent].id = s[i].want
      BY <3>1 DEF WellFormed
    <3>3. s[i].parent \in 1 .. Len(s)
      BY <1>1, <3>1, <3>2
    <3> QED BY <1>7, <3>1, <3>2, <3>3
  <2>2. CASE i > Len(s)
    <3>1. PICK j \in 1 .. Len(o) : i = j + Len(s)
      <4>1. i - Len(s) \in 1 .. Len(o) /\ i = (i - Len(s)) + Len(s)
        BY <1>1, <2>2
      <4> QED BY <4>1
    <3>2. o[j].parent \in 1 .. j /\ o[o[j].parent].id = o[j].want
      BY DEF WellFormed
    <3>3. o[j].parent \in 1 .. Len(o)
      BY <1>1, <3>2
    <3>4. c[i] = f[j] /\ c[o[j].parent + Len(s)] = f[o[j].parent]
      BY <1>7, <3>1, <3>3
    <3>5. c[i].parent = o[j].parent + Len(s) /\ c[i].want = o[j].want
      BY <1>5, <3>4
    <3>6. c[c[i].parent].id = o[o[j].parent].id
      BY <1>5, <3>3, <3>4, <3>5
    <3>7. o[j].parent + Len(s) \in 1 .. i
      BY <1>1, <3>1, <3>2
    <3> QED BY <3>2, <3>5, <3>6, <3>7
  <2>3. i <= Len(s) \/ i > Len(s)
    BY <1>1
  <2> QED BY <2>1, <2>2, <2>3
<1> QED BY <1>3, <1>6, <1>7, <1>8 DEF WellFormed, c

\* insert hangs the root, which has come behind all spans of s, below one of s.
LEMMA InsertWellFormed ==
  ASSUME NEW s, WellFormed(s), NEW at \in 1 .. Len(s),
         NEW o, WellFormed(o), Len(o) >= 1, NEW d \in Int
  PROVE  /\ WellFormed(Insert(s, at, o, 1, d))
         /\ Len(Insert(s, at, o, 1, d)) = Len(s) + Len(o)
<1> DEFINE c == Concat(s, o, d)
           k == 1 + Len(s)
           r == [c[k] EXCEPT !.want = s[at].id, !.parent = at]
<1>1. /\ WellFormed(c) /\ Len(c) = Len(s) + Len(o)
      /\ \A i \in 1 .. Len(s) : c[i] = s[i]
  BY ConcatWellFormed
<1>2. s \in Seq(Span) /\ Len(s) \in Nat /\ Len(o) \in Nat /\ s[at] \in Span
  BY DEF WellFormed
<1>3. k \in 1 .. Len(c) /\ c \in Seq(Span) /\ c[k] \in Span
  <2> HIDE DEF c
  <2> QED BY <1>1, <1>2 DEF WellFormed
<1>4. r \in Span /\ r.parent = at /\ r.want = s[at].id /\ r.id = c[k].id
  <2> HIDE DEF c, k
  <2>1. at \in Nat /\ s[at].id \in Id
    BY <1>2 DEF Span
  <2> QED BY <1>3, <2>1 DEF Span
<1>5. Insert(s, at, o, 1, d) = [c EXCEPT ![k] = r]
  <2>1. c \in [1 .. Len(c) -> Span]
    <3> HIDE DEF c
    <3> QED BY <1>3
  <2>2. Insert(s, at, o, 1, d) = [[c EXCEPT ![k].want = s[at].id] EXCEPT ![k].parent = at]
    BY DEF Insert
  <2> HIDE DEF c, k
  <2> QED BY <1>3, <2>1, <2>2
<1>6. at \in 1 .. k /\ at # k
  BY <1>2
<1> HIDE DEF c, k, r
<1> DEFINE new == [c EXCEPT ![k] = r]
<1>7. new \in Seq(Span) /\ Len(new) = Len(c) /\ Len(c) \in Nat
  BY <1>3, <1>4
<1>8. new[k] = r /\ \A i \in 1 .. Len(c) : i # k => new[i] = c[i]
  BY <1>3
<1> HIDE DEF new
<1>9. \A i \in 1 .. Len(c) : new[i].id = c[i].id
  BY <1>4, <1>8
<1>10. ASSUME NEW i \in 1 .. Len(c)
       PROVE  new[i].parent \in 1 .. i /\ new[new[i].parent].id = new[i].want
  <2>1. CASE i = k
    <3>1. at \in 1 .. Len(c)
      BY <1>3, <1>6, <1>7
    <3>2. new[at].id = s[at].id
      BY <1>1, <1>9, <3>1
    <3> QED BY <1>4, <1>6, <1>8, <2>1, <3>2
  <2>2. CASE i # k
    <3>1. new[i] = c[i]
      BY <1>8, <2>2
    <3>2. c[i].parent \in 1 .. i /\ c[c[i].parent].id = c[i].want
      BY <1>1 DEF WellFormed
    <3>3. c[i].parent \in 1 .. Len(c)
      BY <1>7, <3>2
    <3> QED BY <1>9, <3>1, <3>2, <3>3
  <2> QED BY <2>1, <2>2
<1>11. Insert(s, at, o, 1, d) = new
  BY <1>5 DEF new
<1> QED BY <1>1, <1>7, <1>10, <1>11 DEF WellFormed

-----------------------------------------------------------------------------
(* The invariant is inductive. *)

USE DEF procVars

LEMMA InitInvariant == Init => IInv
<1> SUFFICES ASSUME Init PROVE IInv
  OBVIOUS
<1>1. Host \in Proc /\ now = 1
  BY ProcAssumption DEF Init
<1>2. WellFormed(CreateRoot(Host, FALSE)) /\ Len(CreateRoot(Host, FALSE)) = 1
  <2>1. Clock(Host) \in Int
    BY <1>1, ProcAssumption DEF Clock
  <2>2. <<Host, 1>> \in Id
    BY <1>1 DEF Id
  <2> DEFINE r == [id |-> <<Host, 1>>, want |-> <<Host, 1>>, parent |-> 1,
                   timed |-> FALSE, start_time |-> 0, end_time |-> 0]
  <2>3. r \in Span /\ r.parent = 1 /\ r.id = r.want
    BY <2>2 DEF Span
  <2>4. CreateRoot(Host, FALSE) = <<r>>
    BY DEF CreateRoot
  <2> HIDE DEF r
  <2>5. <<r>> \in Seq(Span) /\ Len(<<r>>) = 1 /\ <<r>>[1] = r
    BY <2>3
  <2>6. \A i \in 1 .. Len(<<r>>) : i = 1
    BY <2>5
  <2>7. WellFormed(<<r>>)
    BY <2>3, <2>5, <2>6 DEF WellFormed
  <2> QED BY <2>4, <2>5, <2>7
<1>3. WellFormed(<< >>)
  BY DEF WellFormed
<1>4. /\ m_spans \in [Proc -> Seq(Span)]
      /\ Containers /\ RootsExist
  <2>1. /\ DOMAIN m_spans = Proc
        /\ \A p \in Proc : m_spans[p] = IF p = Host THEN CreateRoot(Host, FALSE)
                                         ELSE << >>
    BY DEF Init
  <2>2. m_spans = [p \in Proc |-> m_spans[p]]
    BY DEF Init
  <2>3. \A p \in Proc : WellFormed(m_spans[p])
    BY <1>2, <1>3, <2>1
  <2>4. \A p \in Proc : m_spans[p] \in Seq(Span)
    BY <2>3 DEF WellFormed
  <2>5. RootsExist
    <3>1. \A p \in Proc : pc[p] \in Started => p = Host
      BY DEF Init, Started
    <3>2. Len(m_spans[Host]) = 1
      BY <1>1, <1>2, <2>1
    <3> QED BY <3>1, <3>2 DEF RootsExist
  <2> QED BY <2>2, <2>3, <2>4, <2>5 DEF Containers
<1>5. CallsExist /\ ReceivedAreDone /\ DispatchedAreCalls
  BY CalleesAssumption
     DEF Init, CallsExist, ReceivedAreDone, DispatchedAreCalls
<1>6. Types
  <2>1. pc \in [Proc -> States]
    BY DEF Init, States
  <2>2. /\ call \in [Proc -> Nat]
        /\ end \in [Proc -> Int] /\ received \in [Proc -> Int]
    BY DEF Init
  <2> QED BY <1>1, <1>4, <2>1, <2>2 DEF Types
<1> QED BY <1>4, <1>5, <1>6 DEF IInv

\* What all steps share: containers of other processes are left alone and those
\* of p keep their spans' places; then the indices stay in bounds.
LEMMA Growth ==
  ASSUME Types, Containers, NEW p \in Proc, NEW s, WellFormed(s),
         Len(s) >= Len(m_spans[p]),
         m_spans' = [m_spans EXCEPT ![p] = s]
  PROVE  /\ m_spans' \in [Proc -> Seq(Span)]
         /\ Containers'
         /\ \A r \in Proc : /\ Len(m_spans'[r]) \in Nat
                            /\ Len(m_spans'[r]) >= Len(m_spans[r])
<1>1. m_spans \in [Proc -> Seq(Span)] /\ s \in Seq(Span)
  BY DEF Types, WellFormed
<1>2. \A r \in Proc : m_spans'[r] = IF r = p THEN s ELSE m_spans[r]
  BY <1>1
<1>3. m_spans' \in [Proc -> Seq(Span)]
  BY <1>1
<1>4. \A r \in Proc : WellFormed(m_spans'[r])
  BY <1>2 DEF Containers
<1> QED BY <1>1, <1>2, <1>3, <1>4 DEF Containers

\* One step for each action.
LEMMA NextInvariant == IInv /\ [Next]_vars => IInv'
<1> SUFFICES ASSUME IInv, [Next]_vars PROVE IInv'
  OBVIOUS
<1> USE DEF IInv
<1>1. ASSUME NEW p \in Proc, Start(p) PROVE IInv'
  <2> DEFINE s == CreateRoot(p, TRUE)
  <2>1. WellFormed(s) /\ Len(s) = 1
    BY RootWellFormed
  <2>2. /\ m_spans' = [m_spans EXCEPT ![p] = s]
        /\ pc' = [pc EXCEPT ![p] = "running"] /\ pc[p] = "called"
        /\ now' = now + 1
        /\ UNCHANGED <<call, end, received, inserted>>
    BY <1>1 DEF Start
  <2> HIDE DEF s
  <2>3. \A r \in Proc : m_spans'[r] = IF r = p THEN s ELSE m_spans[r]
    BY <2>2 DEF Types
  <2>4. \A r \in Proc : pc'[r] = IF r = p THEN "running" ELSE pc[r]
    BY <2>2 DEF Types
  <2>5. Types'
    <3>1. pc' \in [Proc -> States]
      BY <2>2 DEF Types, States
    <3>2. m_spans' \in [Proc -> Seq(Span)]
      BY <2>1, <2>2 DEF Types, WellFormed
    <3> QED BY <2>2, <3>1, <3>2 DEF Types
  <2>6. Containers'
    BY <2>1, <2>3 DEF Containers
  <2>7. RootsExist'
    BY <2>1, <2>3, <2>4 DEF RootsExist
  <2>8. CallsExist'
    <3> SUFFICES ASSUME NEW a \in Proc, NEW q \in Calls(a), call'[q] # 0
                 PROVE  pc'[a] \in Started /\ call'[q] \in 1 .. Len(m_spans'[a])
      BY DEF CallsExist
    <3>1. pc[a] \in Started /\ call[q] \in 1 .. Len(m_spans[a])
      BY <2>2 DEF CallsExist
    <3>2. a # p
      BY <2>2, <3>1 DEF Started
    <3> QED BY <2>2, <2>3, <2>4, <3>1, <3>2
  <2>9. ReceivedAreDone'
    BY <2>2, <2>4 DEF ReceivedAreDone
  <2>10. DispatchedAreCalls'
    BY <2>2, <2>4, CalleesAssumption DEF DispatchedAreCalls
  <2> QED BY <2>5, <2>6, <2>7, <2>8, <2>9, <2>10
<1>2. ASSUME NEW p \in Proc, NEW q \in Calls(p), OpenCall(p, q) PROVE IInv'
  <2> DEFINE s == CreateChild(p, m_spans[p], 1, TRUE)
  <2>0. q \in Proc
    BY CalleesAssumption
  <2>1. WellFormed(m_spans[p]) /\ Len(m_spans[p]) >= 1 /\ Len(m_spans[p]) \in Nat
    BY <1>2 DEF Types, Containers, RootsExist, OpenCall, Started
  <2>2. WellFormed(s) /\ Len(s) = Len(m_spans[p]) + 1
    <3>1. 1 \in 1 .. Len(m_spans[p])
      BY <2>1
    <3> QED BY <2>1, <3>1, ChildWellFormed
  <2>3. /\ m_spans' = [m_spans EXCEPT ![p] = s]
        /\ m_spans'[p] = s
        /\ call' = [call EXCEPT ![q] = Len(m_spans'[p])] /\ pc[p] = "running"
        /\ now' = now + 1
        /\ UNCHANGED <<pc, end, received, inserted>>
    BY <1>2 DEF OpenCall, Types
  <2> HIDE DEF s
  <2>4. /\ m_spans' \in [Proc -> Seq(Span)] /\ Containers'
        /\ \A r \in Proc : /\ Len(m_spans'[r]) \in Nat
                            /\ Len(m_spans'[r]) >= Len(m_spans[r])
    <3>1. Len(s) >= Len(m_spans[p])
      BY <2>1, <2>2
    <3> QED BY <2>2, <2>3, <3>1, Growth
  <2>5. Types'
    BY <2>0, <2>3, <2>4 DEF Types
  <2>6. RootsExist'
    BY <2>3, <2>4 DEF RootsExist, Types
  <2>7. CallsExist'
    <3> SUFFICES ASSUME NEW a \in Proc, NEW r \in Calls(a), call'[r] # 0
                 PROVE  pc'[a] \in Started /\ call'[r] \in 1 .. Len(m_spans'[a])
      BY DEF CallsExist
    <3>0. r \in Proc
      BY CalleesAssumption
    <3>1. CASE r = q
      <4>1. a = p
        BY <3>1, CalleesAssumption
      <4>2. call'[q] = Len(s)
        BY <2>0, <2>3 DEF Types
      <4> QED BY <2>1, <2>2, <2>3, <3>1, <4>1, <4>2 DEF Started
    <3>2. CASE r # q
      <4>1. call'[r] = call[r]
        BY <2>3, <3>0, <3>2 DEF Types
      <4>2. pc[a] \in Started /\ call[r] \in 1 .. Len(m_spans[a])
        BY <4>1 DEF CallsExist
      <4>3. Len(m_spans[a]) \in Nat
        BY DEF Types
      <4> QED BY <2>3, <2>4, <4>1, <4>2, <4>3
    <3> QED BY <3>1, <3>2
  <2>8. ReceivedAreDone'
    BY <2>3 DEF ReceivedAreDone
  <2>9. DispatchedAreCalls'
    <3> SUFFICES ASSUME NEW a \in Proc, NEW r \in Calls(a), pc'[r] # "none"
                 PROVE  call'[r] # 0
      BY DEF DispatchedAreCalls
    <3>1. r \in Proc /\ call[r] # 0
      BY <2>3, CalleesAssumption DEF DispatchedAreCalls
    <3>2. call' = [call EXCEPT ![q] = Len(s)] /\ Len(s) # 0
      BY <2>1, <2>2, <2>3
    <3> QED BY <3>1, <3>2 DEF Types
  <2> QED BY <2>4, <2>5, <2>6, <2>7, <2>8, <2>9
<1>3. ASSUME NEW p \in Proc, NEW q \in Calls(p), Dispatch(p, q) PROVE IInv'
  <2> DEFINE s == CreateChild(p, m_spans[p], call[q], FALSE)
  <2>0. q \in Proc
    BY CalleesAssumption
  <2>1. WellFormed(m_spans[p]) /\ call[q] \in 1 .. Len(m_spans[p])
    BY <1>3 DEF Containers, CallsExist, Dispatch
  <2>2. WellFormed(s) /\ Len(s) = Len(m_spans[p]) + 1
    BY <2>1, ChildWellFormed
  <2>3. /\ m_spans' = [m_spans EXCEPT ![p] = s]
        /\ pc' = [pc EXCEPT ![q] = "called"] /\ pc[p] = "running" /\ pc[q] = "none"
        /\ now' = now + 1
        /\ UNCHANGED <<call, end, received, inserted>>
    BY <1>3 DEF Dispatch
  <2> HIDE DEF s
  <2>4. /\ m_spans' \in [Proc -> Seq(Span)] /\ Containers'
        /\ \A r \in Proc : /\ Len(m_spans'[r]) \in Nat
                            /\ Len(m_spans'[r]) >= Len(m_spans[r])
    <3>1. Len(s) >= Len(m_spans[p])
      BY <2>2 DEF Types
    <3> QED BY <2>2, <2>3, <3>1, Growth
  <2>5. Types'
    <3>1. pc' \in [Proc -> States]
      BY <2>3 DEF Types, States
    <3> QED BY <2>3, <2>4, <3>1 DEF Types
  <2>6. \A r \in Proc : /\ pc'[r] \in Started <=> pc[r] \in Started
                        /\ pc[r] = "done" => pc'[r] = "done"
    BY <2>0, <2>3 DEF Types, Started
  <2>7. \A r \in Proc : Len(m_spans[r]) \in Nat
    BY DEF Types
  <2>8. RootsExist'
    BY <2>4, <2>6, <2>7 DEF RootsExist
  <2>9. CallsExist'
    BY <2>3, <2>4, <2>6, <2>7 DEF CallsExist
  <2>10. ReceivedAreDone'
    BY <2>3, <2>6 DEF ReceivedAreDone
  <2>11. DispatchedAreCalls'
    <3>1. call[q] # 0
      BY <1>3 DEF Dispatch
    <3> QED BY <2>0, <2>3, <3>1, CalleesAssumption DEF DispatchedAreCalls, Types
  <2> QED BY <2>4, <2>5, <2>8, <2>9, <2>10, <2>11
<1>4. ASSUME NEW p \in Proc, NEW q \in Calls(p), Receive(p, q) PROVE IInv'
  <2> DEFINE first == \A r \in Calls(p) : received[r] = 0
             at == Clock(p) + (IF first THEN 0 ELSE 1)
             t == Clock(p) + (IF first THEN 1 ELSE 0)
             s == EndSpan(m_spans[p], call[q], t)
  <2>0. q \in Proc
    BY CalleesAssumption
  <2>1. Clock(p) \in Int /\ at \in Int /\ t \in Int
    BY ProcAssumption DEF Clock, Types
  <2>2. /\ m_spans' = [m_spans EXCEPT ![p] = s]
        /\ received' = [received EXCEPT ![q] = at]
        /\ now' = now + 2 /\ pc[q] = "done"
        /\ UNCHANGED <<pc, call, end, inserted>>
    BY <1>4 DEF Receive
  <2>3. WellFormed(m_spans[p]) /\ call[q] \in 1 .. Len(m_spans[p])
    BY <2>2 DEF Containers, CallsExist, DispatchedAreCalls
  <2> HIDE DEF first, at, t
  <2>4. WellFormed(s) /\ Len(s) = Len(m_spans[p])
    BY <2>1, <2>3, EndWellFormed
  <2> HIDE DEF s
  <2>5. \A r \in Proc : Len(m_spans[r]) \in Nat
    BY DEF Types
  <2>6. /\ m_spans' \in [Proc -> Seq(Span)] /\ Containers'
        /\ \A r \in Proc : /\ Len(m_spans'[r]) \in Nat
                            /\ Len(m_spans'[r]) >= Len(m_spans[r])
    <3>1. Len(s) >= Len(m_spans[p])
      BY <2>4, <2>5
    <3> QED BY <2>2, <2>4, <3>1, Growth
  <2>7. Types'
    <3>1. received' \in [Proc -> Int]
      BY <2>1, <2>2 DEF Types
    <3> QED BY <2>2, <2>6, <3>1 DEF Types
  <2>8. RootsExist'
    BY <2>2, <2>5, <2>6 DEF RootsExist
  <2>9. CallsExist'
    BY <2>2, <2>5, <2>6 DEF CallsExist
  <2>10. ReceivedAreDone'
    BY <2>0, <2>2 DEF ReceivedAreDone, Types
  <2>11. DispatchedAreCalls'
    BY <2>2 DEF DispatchedAreCalls
  <2> QED BY <2>6, <2>7, <2>8, <2>9, <2>10, <2>11
<1>5. ASSUME NEW p \in Proc, NEW q \in Calls(p), InsertRemote(p, q) PROVE IInv'
  <2> DEFINE c == CreateChild(p, m_spans[p], call[q], FALSE)
             d == received[q] - end[q]
             s == Insert(c, Len(c), m_spans[q], 1, d)
  <2>0. q \in Proc
    BY CalleesAssumption
  <2>1. /\ m_spans' = [m_spans EXCEPT ![p] = s]
        /\ now' = now + 1 /\ received[q] # 0
        /\ UNCHANGED <<pc, call, end, received>>
    BY <1>5 DEF InsertRemote
  <2>2. /\ WellFormed(m_spans[p]) /\ call[q] \in 1 .. Len(m_spans[p])
        /\ WellFormed(m_spans[q]) /\ Len(m_spans[q]) >= 1
    <3>1. pc[q] = "done"
      BY <2>0, <2>1 DEF ReceivedAreDone
    <3>2. call[q] # 0
      BY <3>1 DEF DispatchedAreCalls
    <3>3. pc[q] \in Started
      BY <3>1 DEF Started
    <3> QED BY <2>0, <3>2, <3>3 DEF Containers, CallsExist, RootsExist
  <2>3. WellFormed(c) /\ Len(c) = Len(m_spans[p]) + 1
    BY <2>2, ChildWellFormed
  <2>4. d \in Int /\ \A r \in Proc : Len(m_spans[r]) \in Nat
    BY <2>0 DEF Types
  <2> HIDE DEF c, d
  <2>5. Len(c) \in 1 .. Len(c)
    BY <2>3, <2>4
  <2>6. WellFormed(s) /\ Len(s) = Len(c) + Len(m_spans[q])
    BY <2>2, <2>3, <2>4, <2>5, InsertWellFormed
  <2> HIDE DEF s
  <2>7. Len(s) >= Len(m_spans[p])
    <3>1. Len(m_spans[p]) \in Nat /\ Len(m_spans[q]) \in Nat
      BY <2>0, <2>4
    <3>2. Len(c) = Len(m_spans[p]) + 1
      BY <2>3
    <3>3. Len(s) = Len(c) + Len(m_spans[q])
      BY <2>6
    <3>4. Len(s) = (Len(m_spans[p]) + 1) + Len(m_spans[q])
      BY <3>2, <3>3, Zenon
    <3>5. \A x, y \in Nat : (x + 1) + y >= x
      OBVIOUS
    <3> QED BY <3>1, <3>4, <3>5, Zenon
  <2>8. /\ m_spans' \in [Proc -> Seq(Span)] /\ Containers'
        /\ \A r \in Proc : /\ Len(m_spans'[r]) \in Nat
                            /\ Len(m_spans'[r]) >= Len(m_spans[r])
    BY <2>1, <2>6, <2>7, Growth
  <2>9. Types'
    BY <2>1, <2>8 DEF Types
  <2>10. RootsExist' /\ CallsExist'
    BY <2>1, <2>4, <2>8 DEF RootsExist, CallsExist
  <2>11. ReceivedAreDone' /\ DispatchedAreCalls'
    BY <2>1 DEF ReceivedAreDone, DispatchedAreCalls
  <2> QED BY <2>8, <2>9, <2>10, <2>11
<1>6. ASSUME NEW p \in Proc, Finish(p) PROVE IInv'
  <2> DEFINE s == EndSpan(m_spans[p], 1, Clock(p))
  <2>1. /\ m_spans' = [m_spans EXCEPT ![p] = s]
        /\ end' = [end EXCEPT ![p] = Clock(p) + 1]
        /\ pc' = [pc EXCEPT ![p] = "done"] /\ pc[p] = "running"
        /\ now' = now + 2
        /\ UNCHANGED <<call, received, inserted>>
    BY <1>6 DEF Finish
  <2>2. Clock(p) \in Int /\ \A r \in Proc : Len(m_spans[r]) \in Nat
    BY ProcAssumption DEF Clock, Types
  <2>3. WellFormed(m_spans[p]) /\ 1 \in 1 .. Len(m_spans[p])
    BY <2>1, <2>2 DEF Containers, RootsExist, Started
  <2>4. WellFormed(s) /\ Len(s) = Len(m_spans[p])
    BY <2>2, <2>3, EndWellFormed
  <2> HIDE DEF s
  <2>5. /\ m_spans' \in [Proc -> Seq(Span)] /\ Containers'
        /\ \A r \in Proc : /\ Len(m_spans'[r]) \in Nat
                            /\ Len(m_spans'[r]) >= Len(m_spans[r])
    <3>1. Len(s) >= Len(m_spans[p])
      BY <2>2, <2>4
    <3> QED BY <2>1, <2>4, <3>1, Growth
  <2>6. Types'
    <3>1. pc' \in [Proc -> States]
      BY <2>1 DEF Types, States
    <3>2. end' \in [Proc -> Int]
      BY <2>1, <2>2 DEF Types
    <3> QED BY <2>1, <2>5, <3>1, <3>2 DEF Types
  <2>7. \A r \in Proc : /\ pc'[r] \in Started <=> pc[r] \in Started
                        /\ pc[r] = "done" => pc'[r] = "done"
                        /\ pc'[r] # "none" => pc[r] # "none"
    BY <2>1 DEF Types, Started
  <2>8. RootsExist' /\ CallsExist'
    BY <2>1, <2>2, <2>5, <2>7 DEF RootsExist, CallsExist
  <2>9. ReceivedAreDone' /\ DispatchedAreCalls'
    BY <2>1, <2>7, CalleesAssumption DEF ReceivedAreDone, DispatchedAreCalls
  <2> QED BY <2>5, <2>6, <2>8, <2>9
<1>7. CASE UNCHANGED vars
  BY <1>7 DEF vars, Types, Containers, RootsExist, CallsExist,
              ReceivedAreDone, DispatchedAreCalls
<1>8. ASSUME NEW p \in Proc, NEW q \in Proc,
             OpenCall(p, q) \/ Dispatch(p, q) \/ Receive(p, q) \/ InsertRemote(p, q)
      PROVE  IInv'
  <2>1. q \in Calls(p)
    BY <1>8 DEF OpenCall, Dispatch, Receive, InsertRemote
  <2> QED BY <1>2, <1>3, <1>4, <1>5, <1>8, <2>1
<1> QED BY <1>1, <1>6, <1>7, <1>8 DEF Next

\* The invariant holds in every reachable state.
THEOREM Invariance == Spec => []IInv
<1>1. Init => IInv
  BY InitInvariant
<1>2. IInv /\ [Next]_vars => IInv'
  BY NextInvariant
<1> QED BY <1>1, <1>2, PTL DEF Spec

\* The parents of the spans of every container come before them, whatever the
\* tree of calls, the clocks and the order in which insert (tracing.hpp:153)
\* puts the containers of finished calls together.
THEOREM SpansAreForests == Spec => []Forest
<1>1. IInv => Forest
  <2> SUFFICES ASSUME IInv, NEW p \in Proc, NEW i \in DOMAIN m_spans[p]
               PROVE  m_spans[p][i].parent \in 1 .. i
    BY DEF Forest
  <2>1. m_spans[p] \in Seq(Span)
    BY DEF IInv, Types
  <2>2. i \in 1 .. Len(m_spans[p])
    BY <2>1
  <2> QED BY <2>2 DEF IInv, Containers, WellFormed
<1> QED BY <1>1, Invariance, PTL

\* Wherever insert (tracing.hpp:153) copies a span to, its parent is the span
\* it was created under; the root of an inserted container is below the remote
\* span of its call.
THEOREM ParentsAreKept == Spec => []ParentsAreRight
<1>1. IInv => ParentsAreRight
  <2> SUFFICES ASSUME IInv, NEW p \in Proc, NEW i \in DOMAIN m_spans[p]
               PROVE  m_spans[p][m_spans[p][i].parent].id = m_spans[p][i].want
    BY DEF ParentsAreRight
  <2>1. m_spans[p] \in Seq(Span)
    BY DEF IInv, Types
  <2>2. i \in 1 .. Len(m_spans[p])
    BY <2>1
  <2> QED BY <2>2 DEF IInv, Containers, WellFormed
<1> QED BY <1>1, Invariance, PTL

-----------------------------------------------------------------------------
(* The times of the spans.  On the true time, which no process reads, the   *)
(* spans of a process begin after its call and end before it takes the time *)
(* that it sends along, and that is before its caller has received it.      *)

Timed(p) == {i \in 1 .. Len(m_spans[p]) : m_spans[p][i].timed}

\* Only main and what it calls, directly or not, ever runs.
Reached == \A p \in Proc : pc[p] # "none" => p \in Below[Host]

Waiting == \A p \in Proc : pc[p] \notin Started => m_spans[p] = << >>

\* A span is one of the container's own process or has come with the
\* container of a call.
Origins ==
  \A p \in Proc : \A i \in 1 .. Len(m_spans[p]) :
    \/ m_spans[p][i].id[1] = p
    \/ \E q \in Calls(p) \intersect inserted : m_spans[p][i].id[1] \in Below[q]

RootsAreOwn == \A p \in Proc : Len(m_spans[p]) >= 1 => m_spans[p][1].id[1] = p

CallsAreOwn == \A p \in Proc : \A q \in Calls(p) :
                 call[q] # 0 => /\ m_spans[p][call[q]].timed
                                /\ m_spans[p][call[q]].id[1] = p

InsertedAreReceived == \A q \in inserted : received[q] # 0

StartsArePast == \A p \in Proc : \A i \in Timed(p) :
                   m_spans[p][i].start_time <= Clock(p)

\* All spans have ended but the root and those of calls without a result.
EndPast(p, i) ==
  \/ i = 1 /\ pc[p] = "running"
  \/ \E q \in Calls(p) : i = call[q] /\ received[q] = 0
  \/ /\ m_spans[p][i].start_time <= m_spans[p][i].end_time
     /\ m_spans[p][i].end_time <= Clock(p)

EndsArePast == \A p \in Proc : \A i \in Timed(p) : EndPast(p, i)

AfterTheCall ==
  \A p \in Proc : \A q \in Calls(p) : call[q] # 0 =>
    \A i \in Timed(q) : m_spans[p][call[q]].start_time - Skew[p]
                           <= m_spans[q][i].start_time - Skew[q]

\* What a process that is done has sent.
BeforeEnd(p) ==
  pc[p] = "done" =>
    /\ end[p] <= Clock(p)
    /\ \A i \in Timed(p) : /\ m_spans[p][i].start_time <= m_spans[p][i].end_time
                            /\ m_spans[p][i].end_time <= end[p]

SentBeforeReceived(p) ==
  \A q \in Calls(p) : received[q] # 0 =>
    /\ end[q] - Skew[q] <= received[q] - Skew[p]
    /\ received[q] <= Clock(p)

\* What RemoteInsideCall says of one container.
InsideCalls(p) ==
  \A q \in Calls(p) : \A i \in Timed(p) : m_spans[p][i].id[1] \in Below[q] =>
    /\ m_spans[p][call[q]].start_time <= m_spans[p][i].start_time
    /\ m_spans[p][i].start_time <= m_spans[p][i].end_time
    /\ m_spans[p][i].end_time <= received[q]

TimesInv == /\ Reached /\ Waiting /\ Origins /\ RootsAreOwn /\ CallsAreOwn
            /\ InsertedAreReceived /\ StartsArePast /\ EndsArePast
            /\ AfterTheCall
            /\ \A p \in Proc : BeforeEnd(p) /\ SentBeforeReceived(p) /\ InsideCalls(p)

\* Below[q] is closed, has q, and is a part of every other set of that kind.
LEMMA BelowLeast ==
  ASSUME NEW q \in Proc
  PROVE  /\ q \in Below[q] /\ Below[q] \subseteq Proc /\ Closed(Below[q])
         /\ \A S \in SUBSET Proc : q \in S /\ Closed(S) => Below[q] \subseteq S
<1>1. Below[q] = {r \in Proc : \A S \in SUBSET Proc :
                                 q \in S /\ Closed(S) => r \in S}
  BY DEF Below
<1>2. \A S \in SUBSET Proc : q \in S /\ Closed(S) => Below[q] \subseteq S
  BY <1>1
<1>3. ASSUME NEW p \in Below[q], NEW r \in Calls(p) PROVE r \in Below[q]
  <2>1. p \in Proc
    BY <1>1
  <2>2. r \in Proc
    BY <2>1, CalleesAssumption
  <2>3. \A S \in SUBSET Proc : q \in S /\ Closed(S) => r \in S
    BY <1>2 DEF Closed
  <2> QED BY <1>1, <2>2, <2>3
<1>4. Closed(Below[q])
  BY <1>3 DEF Closed
<1> QED BY <1>1, <1>2, <1>4

\* What runs below a callee runs below the caller.
LEMMA BelowCallee ==
  ASSUME NEW p \in Proc, NEW q \in Calls(p) PROVE Below[q] \subseteq Below[p]
<1>1. q \in Proc
  BY CalleesAssumption
<1>2. q \in Below[p] /\ Below[p] \in SUBSET Proc /\ Closed(Below[p])
  BY BelowLeast DEF Closed
<1> QED BY <1>1, <1>2, BelowLeast

\* A process below q is q or is called by one below q.
LEMMA BelowCaller ==
  ASSUME NEW q \in Proc, NEW r \in Below[q], r # q
  PROVE  \E p \in Below[q] : r \in Calls(p)
<1> SUFFICES ASSUME \A p \in Below[q] : r \notin Calls(p) PROVE FALSE
  OBVIOUS
<1> DEFINE S == Below[q] \ {r}
<1>1. q \in S /\ S \in SUBSET Proc
  BY BelowLeast
<1>2. \A p \in S : Calls(p) \subseteq S
  BY BelowLeast DEF Closed
<1>3. Below[q] \subseteq S
  <2>1. Closed(S)
    BY <1>2 DEF Closed
  <2> HIDE DEF S
  <2> QED BY <1>1, <2>1, BelowLeast
<1> QED BY <1>3

\* What main calls, directly or not, does not call itself: the callers of a
\* circle, which are one each, would all be in it, and main has none.
LEMMA NoCircle ==
  ASSUME NEW p \in Below[Host], NEW q \in Calls(p) PROVE p \notin Below[q]
<1> SUFFICES ASSUME p \in Below[q] PROVE FALSE
  OBVIOUS
<1>1. Host \in Proc /\ p \in Proc /\ q \in Proc /\ q \in Below[Host] /\ q # Host
  BY BelowLeast, ProcAssumption, CalleesAssumption DEF Closed
<1> DEFINE C == {x \in Below[q] : q \in Below[x]}
           S == Proc \ C
<1>2. Host \notin Below[q]
  BY <1>1, BelowCaller, BelowLeast, CalleesAssumption
<1>3. Host \in S
  BY <1>1, <1>2
<1>4. ASSUME NEW x \in S, NEW y \in Calls(x) PROVE y \in S
  <2>1. x \in Proc /\ y \in Proc
    BY CalleesAssumption
  <2> SUFFICES ASSUME y \in Below[q], q \in Below[y] PROVE FALSE
    BY <2>1
  <2>2. x \in Below[q]
    <3>1. CASE y = q
      BY <1>1, <2>1, <3>1, CalleesAssumption
    <3>2. CASE y # q
      <4>1. PICK z \in Below[q] : y \in Calls(z)
        BY <1>1, <3>2, BelowCaller
      <4>2. z \in Proc
        BY <1>1, BelowLeast
      <4> QED BY <2>1, <4>1, <4>2, CalleesAssumption
    <3> QED BY <3>1, <3>2
  <2>3. q \in Below[x]
    BY <2>1, BelowCallee
  <2> QED BY <2>2, <2>3
<1>5. Below[Host] \subseteq S
  <2>1. Closed(S)
    BY <1>4 DEF Closed
  <2>2. S \in SUBSET Proc
    OBVIOUS
  <2> HIDE DEF S
  <2> QED BY <1>1, <1>3, <2>1, <2>2, BelowLeast
<1>6. p \in C
  <2>1. q \in Below[p]
    BY <1>1, BelowLeast, BelowCallee
  <2> QED BY <2>1
<1> QED BY <1>5, <1>6

\* Nothing runs below two calls of a process.
LEMMA BelowDisjoint ==
  ASSUME NEW p \in Below[Host], NEW q \in Calls(p), NEW r \in Calls(p), q # r
  PROVE  Below[q] \intersect Below[r] = {}
<1>1. p \in Proc /\ q \in Proc /\ r \in Proc
  BY BelowLeast, ProcAssumption, CalleesAssumption
<1>2. p \notin Below[q] /\ p \notin Below[r]
  BY NoCircle
<1> DEFINE S == Below[q] \ Below[r]
\* The only caller of a process below r other than r is below r.
<1>3. ASSUME NEW x \in Proc, NEW y \in Calls(x), y \in Below[r], y # r
      PROVE  x \in Below[r]
  <2>1. PICK z \in Below[r] : y \in Calls(z)
    BY <1>1, <1>3, BelowCaller
  <2>2. z \in Proc
    BY <1>1, BelowLeast
  <2> QED BY <2>1, <2>2, CalleesAssumption
<1>4. q \in S
  BY <1>1, <1>2, <1>3, BelowLeast
<1>5. ASSUME NEW x \in S, NEW y \in Calls(x) PROVE y \in S
  <2>1. x \in Proc /\ y \in Below[q]
    BY <1>1, BelowLeast DEF Closed
  <2>2. y # r
    BY <1>1, <1>2, <2>1, CalleesAssumption
  <2> QED BY <1>3, <2>1, <2>2
<1>6. Below[q] \subseteq S
  <2>1. Closed(S)
    BY <1>5 DEF Closed
  <2>2. S \in SUBSET Proc
    BY <1>1, BelowLeast
  <2> HIDE DEF S
  <2> QED BY <1>1, <1>4, <2>1, <2>2, BelowLeast
<1> QED BY <1>6

-----------------------------------------------------------------------------
(* What the operations of the container do to the times of its spans. *)

\* A container keeps its spans at their places, and when they started.
Kept(s, t) ==
  /\ Len(t) >= Len(s)
  /\ \A i \in 1 .. Len(s) : /\ t[i].id = s[i].id /\ t[i].timed = s[i].timed
                            /\ t[i].start_time = s[i].start_time

LEMMA RootTimes ==
  ASSUME NEW p \in Proc
  PROVE  LET r == CreateRoot(p, TRUE)[1] IN
         r.id[1] = p /\ r.timed /\ r.start_time = Clock(p)
BY DEF CreateRoot

\* c is s with one more span, which p has made.
TimedChild(p, s, c) ==
  /\ \A i \in 1 .. Len(s) : c[i] = s[i]
  /\ c[Len(s) + 1].id[1] = p
  /\ c[Len(s) + 1].timed /\ c[Len(s) + 1].start_time = Clock(p)

UntimedChild(p, s, c) ==
  /\ \A i \in 1 .. Len(s) : c[i] = s[i]
  /\ c[Len(s) + 1].id[1] = p /\ ~c[Len(s) + 1].timed

LEMMA ChildTimes ==
  ASSUME NEW p \in Proc, NEW s \in Seq(Span), NEW a \in 1 .. Len(s)
  PROVE  /\ TimedChild(p, s, CreateChild(p, s, a, TRUE))
         /\ UntimedChild(p, s, CreateChild(p, s, a, FALSE))
<1>1. ASSUME NEW r
      PROVE  /\ \A i \in 1 .. Len(s) : Append(s, r)[i] = s[i]
             /\ Append(s, r)[Len(s) + 1] = r
  OBVIOUS
<1>2. TimedChild(p, s, CreateChild(p, s, a, TRUE))
  <2> DEFINE r == [id |-> <<p, Len(s) + 1>>, want |-> s[a].id, parent |-> a,
                   timed |-> TRUE, start_time |-> Clock(p), end_time |-> 0]
  <2>1. CreateChild(p, s, a, TRUE) = Append(s, r)
    BY DEF CreateChild
  <2>2. r.id[1] = p /\ r.timed /\ r.start_time = Clock(p)
    OBVIOUS
  <2> HIDE DEF r
  <2>3. TimedChild(p, s, Append(s, r))
    BY <1>1, <2>2 DEF TimedChild
  <2> QED BY <2>1, <2>3, Zenon
<1>3. UntimedChild(p, s, CreateChild(p, s, a, FALSE))
  <2> DEFINE r == [id |-> <<p, Len(s) + 1>>, want |-> s[a].id, parent |-> a,
                   timed |-> FALSE, start_time |-> 0, end_time |-> 0]
  <2>1. CreateChild(p, s, a, FALSE) = Append(s, r)
    BY DEF CreateChild
  <2>2. r.id[1] = p /\ ~r.timed
    OBVIOUS
  <2> HIDE DEF r
  <2>3. UntimedChild(p, s, Append(s, r))
    BY <1>1, <2>2 DEF UntimedChild
  <2> QED BY <2>1, <2>3, Zenon
<1> QED BY <1>2, <1>3

LEMMA EndTimes ==
  ASSUME NEW s \in Seq(Span), NEW i \in 1 .. Len(s), NEW t
  PROVE  LET e == EndSpan(s, i, t) IN
         \A j \in 1 .. Len(s) :
           /\ e[j].id = s[j].id /\ e[j].timed = s[j].timed
           /\ e[j].start_time = s[j].start_time
           /\ e[j].end_time = IF j = i THEN t ELSE s[j].end_time
<1>1. \A j \in 1 .. Len(s) : s[j] \in Span
  OBVIOUS
<1>2. s \in [1 .. Len(s) -> Span]
  OBVIOUS
<1> QED BY <1>1, <1>2 DEF EndSpan, Span

LEMMA InsertTimes ==
  ASSUME NEW s \in Seq(Span), NEW at \in 1 .. Len(s), NEW o \in Seq(Span),
         Len(o) >= 1, NEW d \in Int
  PROVE  LET n == Insert(s, at, o, 1, d) IN
         /\ \A i \in 1 .. Len(s) : n[i] = s[i]
         /\ \A j \in 1 .. Len(o) :
              LET r == n[Len(s) + j] IN
              /\ r.id = o[j].id /\ r.timed = o[j].timed
              /\ r.start_time = o[j].start_time + d
              /\ r.end_time = o[j].end_time + d
<1> DEFINE f == [i \in DOMAIN o |->
                   [o[i] EXCEPT !.parent = @ + Len(s),
                                !.start_time = @ + d, !.end_time = @ + d]]
           c == s \o f
           k == 1 + Len(s)
           n == [c EXCEPT ![k].want = s[at].id, ![k].parent = at]
<1>1. Insert(s, at, o, 1, d) = n
  BY DEF Insert, Concat
<1>2. DOMAIN o = 1 .. Len(o) /\ Len(o) \in Nat /\ Len(s) \in Nat
  OBVIOUS
<1>3. \A j \in 1 .. Len(o) :
        /\ f[j].id = o[j].id /\ f[j].timed = o[j].timed
        /\ f[j].start_time = o[j].start_time + d
        /\ f[j].end_time = o[j].end_time + d
        /\ f[j] \in Span
  <2> SUFFICES ASSUME NEW j \in 1 .. Len(o)
               PROVE  /\ f[j].id = o[j].id /\ f[j].timed = o[j].timed
                      /\ f[j].start_time = o[j].start_time + d
                      /\ f[j].end_time = o[j].end_time + d
                      /\ f[j] \in Span
    OBVIOUS
  <2>1. o[j] \in Span
    OBVIOUS
  <2>2. f[j] = [o[j] EXCEPT !.parent = @ + Len(s),
                            !.start_time = @ + d, !.end_time = @ + d]
    BY <1>2
  <2>3. /\ o[j].parent + Len(s) \in Nat
        /\ o[j].start_time + d \in Int
        /\ o[j].end_time + d \in Int
    <3>1. /\ o[j].parent \in Nat
          /\ o[j].start_time \in Int /\ o[j].end_time \in Int
      BY <2>1 DEF Span
    <3> QED BY <1>2, <3>1
  <2> HIDE DEF f
  <2> QED BY <2>1, <2>2, <2>3 DEF Span
<1>4. f \in Seq(Span) /\ Len(f) = Len(o)
  <2>1. f \in [1 .. Len(o) -> Span]
    <3>1. f = [j \in 1 .. Len(o) |-> f[j]]
      BY <1>2
    <3> HIDE DEF f
    <3> QED BY <1>3, <3>1
  <2> HIDE DEF f
  <2> QED BY <1>2, <2>1
<1> HIDE DEF f
<1>5. /\ \A i \in 1 .. Len(s) : c[i] = s[i]
      /\ \A j \in 1 .. Len(o) : c[Len(s) + j] = f[j]
      /\ DOMAIN c = 1 .. Len(s) + Len(o)
  BY <1>2, <1>4
<1> HIDE DEF c
<1>6. k \in 1 .. Len(s) + Len(o)
  BY <1>2
<1>7. c[k] = f[1] /\ f[1] \in Span
  BY <1>2, <1>3, <1>5
<1>8. \A x \in DOMAIN c : x # k => n[x] = c[x]
  OBVIOUS
<1>9. /\ n[k].id = c[k].id /\ n[k].timed = c[k].timed
      /\ n[k].start_time = c[k].start_time /\ n[k].end_time = c[k].end_time
  BY <1>5, <1>6, <1>7 DEF Span
<1> HIDE DEF n
<1>10. ASSUME NEW i \in 1 .. Len(s) PROVE n[i] = s[i]
  <2>1. i \in DOMAIN c /\ i # k
    BY <1>2, <1>5
  <2> QED BY <1>5, <1>8, <2>1
<1>11. ASSUME NEW j \in 1 .. Len(o)
       PROVE  /\ n[Len(s) + j].id = o[j].id /\ n[Len(s) + j].timed = o[j].timed
              /\ n[Len(s) + j].start_time = o[j].start_time + d
              /\ n[Len(s) + j].end_time = o[j].end_time + d
  <2>1. Len(s) + j \in DOMAIN c /\ c[Len(s) + j] = f[j]
    BY <1>2, <1>5
  <2>2. CASE Len(s) + j = k
    BY <1>3, <1>9, <2>1, <2>2
  <2>3. CASE Len(s) + j # k
    BY <1>3, <1>8, <2>1, <2>3
  <2> QED BY <2>2, <2>3
<1> QED BY <1>1, <1>10, <1>11

-----------------------------------------------------------------------------
(* The times are inductive. *)

\* The types that the arithmetic on times needs.
TimeTypes ==
  /\ now \in Int
  /\ \A p \in Proc : /\ Skew[p] \in Int /\ Clock(p) \in Int
                     /\ end[p] \in Int /\ received[p] \in Int
                     /\ Len(m_spans[p]) \in Nat /\ m_spans[p] \in Seq(Span)
  /\ \A p \in Proc : \A i \in 1 .. Len(m_spans[p]) :
       /\ m_spans[p][i].start_time \in Int /\ m_spans[p][i].end_time \in Int
       /\ m_spans[p][i].timed \in BOOLEAN

LEMMA TimesAreTyped == IInv => TimeTypes
<1> SUFFICES ASSUME IInv PROVE TimeTypes
  OBVIOUS
<1>1. ASSUME NEW p \in Proc
      PROVE  /\ Skew[p] \in Int /\ Clock(p) \in Int
             /\ end[p] \in Int /\ received[p] \in Int
             /\ Len(m_spans[p]) \in Nat /\ m_spans[p] \in Seq(Span)
  BY ProcAssumption DEF IInv, Types, Clock
<1>2. ASSUME NEW p \in Proc, NEW i \in 1 .. Len(m_spans[p])
      PROVE  /\ m_spans[p][i].start_time \in Int /\ m_spans[p][i].end_time \in Int
             /\ m_spans[p][i].timed \in BOOLEAN
  <2>1. m_spans[p][i] \in Span
    BY <1>1
  <2> QED BY <2>1 DEF Span
<1>3. now \in Int
  BY DEF IInv, Types
<1> QED BY <1>1, <1>2, <1>3 DEF TimeTypes

\* A call that has been opened has its span; one that has not runs nowhere, and
\* no span in the caller's container is from it.
LEMMA CallSpans ==
  ASSUME IInv, TimesInv, NEW p \in Proc, NEW q \in Calls(p)
  PROVE  /\ q \in Proc
         /\ call[q] # 0 => /\ call[q] \in Timed(p) /\ call[q] \in 1 .. Len(m_spans[p])
                           /\ m_spans[p][call[q]].id[1] = p
         /\ call[q] = 0 => pc[q] = "none" /\ m_spans[q] = << >> /\ q \notin inserted
<1>1. q \in Proc
  BY CalleesAssumption
<1>2. call[q] # 0 => /\ call[q] \in Timed(p) /\ call[q] \in 1 .. Len(m_spans[p])
                     /\ m_spans[p][call[q]].id[1] = p
  BY DEF IInv, CallsExist, TimesInv, CallsAreOwn, Timed
<1>3. call[q] = 0 => pc[q] = "none"
  BY DEF IInv, DispatchedAreCalls
<1>4. pc[q] = "none" => m_spans[q] = << >>
  BY <1>1 DEF TimesInv, Waiting, Started
<1>5. pc[q] = "none" => q \notin inserted
  BY <1>1 DEF TimesInv, InsertedAreReceived, IInv, ReceivedAreDone
<1> QED BY <1>1, <1>2, <1>3, <1>4, <1>5

\* A process that runs has no span that is its own and below a call as well; a
\* span below a call has come with the container of that call.
LEMMA BelowCall ==
  ASSUME IInv, TimesInv, NEW p \in Proc, pc[p] # "none", NEW q \in Calls(p),
         NEW i \in 1 .. Len(m_spans[p]), m_spans[p][i].id[1] \in Below[q]
  PROVE  /\ m_spans[p][i].id[1] # p
         /\ q \in inserted /\ received[q] # 0
<1>1. p \in Below[Host]
  BY DEF TimesInv, Reached
<1>2. m_spans[p][i].id[1] # p
  BY <1>1, NoCircle
<1>3. PICK r \in Calls(p) \intersect inserted : m_spans[p][i].id[1] \in Below[r]
  BY <1>2 DEF TimesInv, Origins
<1>4. r = q
  BY <1>1, <1>3, BelowDisjoint
<1> QED BY <1>2, <1>3, <1>4 DEF TimesInv, InsertedAreReceived

\* What a step changes of a container: it keeps the spans, and those it adds
\* that have a start have the present one or one not before an older span's.
Added(p, t, i) ==
  /\ t[i].id[1] = p \/ \E q \in Calls(p) \intersect inserted' : t[i].id[1] \in Below[q]
  /\ t[i].timed =>
       \/ t[i].start_time = Clock(p)
       \/ \E j \in Timed(p) : /\ m_spans[p][j].start_time <= t[i].start_time
                              /\ t[i].start_time <= Clock(p)

Grows(p, t) ==
  /\ m_spans' = [m_spans EXCEPT ![p] = t]
  /\ Kept(m_spans[p], t)
  /\ \A i \in 1 .. Len(t) : i \in 1 .. Len(m_spans[p]) \/ Added(p, t, i)
  /\ Len(t) >= 1 => t[1].id[1] = p
  /\ now' >= now /\ inserted \subseteq inserted'
  /\ \A q \in Proc : call[q] # 0 => call'[q] = call[q]
  /\ \A q \in Proc : call'[q] # 0 /\ call[q] = 0 =>
       q \in Calls(p) /\ t[call'[q]].timed /\ t[call'[q]].id[1] = p

\* Every index of a container is that of an older span or, in the container of
\* p, of one that is added.
LEMMA GrowthOfTimes ==
  ASSUME IInv, IInv', TimesInv, NEW p \in Proc, pc[p] # "none", NEW t, Grows(p, t)
  PROVE  /\ \A r \in Proc : m_spans'[r] = IF r = p THEN t ELSE m_spans[r]
         /\ \A r \in Proc : Kept(m_spans[r], m_spans'[r])
         /\ \A r \in Proc : Clock(r)' >= Clock(r)
         /\ Origins' /\ RootsAreOwn' /\ CallsAreOwn' /\ StartsArePast' /\ AfterTheCall'
<1>1. TimeTypes /\ TimeTypes'
  <2>1. (IInv => TimeTypes)'
    BY TimesAreTyped, PTL
  <2> QED BY <2>1, TimesAreTyped
<1>2. \A r \in Proc : m_spans'[r] = IF r = p THEN t ELSE m_spans[r]
  BY DEF Grows, IInv, Types
<1>3. \A r \in Proc : Kept(m_spans[r], m_spans'[r])
  <2>1. Kept(m_spans[p], t)
    BY DEF Grows
  <2>2. \A r \in Proc : Kept(m_spans[r], m_spans[r])
    BY <1>1 DEF Kept, TimeTypes
  <2> QED BY <1>2, <2>1, <2>2
<1>4. \A r \in Proc : Clock(r)' >= Clock(r)
  BY <1>1 DEF Grows, Clock, TimeTypes
<1>5. ASSUME NEW r \in Proc, NEW i \in 1 .. Len(m_spans'[r])
      PROVE  i \in 1 .. Len(m_spans[r]) \/ (r = p /\ Added(p, t, i))
  BY <1>2 DEF Grows
<1>6. Origins'
  <2> SUFFICES ASSUME NEW r \in Proc, NEW i \in 1 .. Len(m_spans'[r])
               PROVE  \/ m_spans'[r][i].id[1] = r
                      \/ \E q \in Calls(r) \intersect inserted' :
                           m_spans'[r][i].id[1] \in Below[q]
    BY DEF Origins
  <2>1. CASE i \in 1 .. Len(m_spans[r])
    <3>1. m_spans'[r][i].id = m_spans[r][i].id
      BY <1>3, <2>1 DEF Kept
    <3> QED BY <2>1, <3>1 DEF TimesInv, Origins, Grows
  <2>2. CASE r = p /\ Added(p, t, i)
    BY <1>2, <2>2 DEF Added
  <2> QED BY <1>5, <2>1, <2>2
<1>7. RootsAreOwn'
  BY <1>2 DEF RootsAreOwn, Grows, TimesInv
<1>8. CallsAreOwn'
  <2> SUFFICES ASSUME NEW r \in Proc, NEW q \in Calls(r), call'[q] # 0
               PROVE  m_spans'[r][call'[q]].timed /\ m_spans'[r][call'[q]].id[1] = r
    BY DEF CallsAreOwn
  <2>1. q \in Proc
    BY CallSpans
  <2>2. CASE call[q] # 0
    <3>1. call'[q] = call[q]
      BY <2>1, <2>2 DEF Grows
    <3>2. /\ call[q] \in 1 .. Len(m_spans[r])
          /\ m_spans[r][call[q]].timed /\ m_spans[r][call[q]].id[1] = r
      BY <2>2, CallSpans DEF Timed
    <3> QED BY <1>3, <3>1, <3>2 DEF Kept
  <2>3. CASE call[q] = 0
    <3>1. q \in Calls(p) /\ t[call'[q]].timed /\ t[call'[q]].id[1] = p
      BY <2>1, <2>3 DEF Grows
    <3>2. r = p
      BY <3>1, CalleesAssumption
    <3> QED BY <1>2, <3>1, <3>2
  <2> QED BY <2>2, <2>3
<1>9. StartsArePast'
  <2> SUFFICES ASSUME NEW r \in Proc, NEW i \in 1 .. Len(m_spans'[r]),
                      m_spans'[r][i].timed
               PROVE  m_spans'[r][i].start_time <= Clock(r)'
    BY DEF StartsArePast, Timed
  <2>1. /\ Clock(r) \in Int /\ Clock(r)' \in Int /\ Clock(r)' >= Clock(r)
        /\ m_spans'[r][i].start_time \in Int
    BY <1>1, <1>4 DEF TimeTypes
  <2>2. CASE i \in 1 .. Len(m_spans[r])
    <3>1. /\ m_spans'[r][i].start_time = m_spans[r][i].start_time
          /\ m_spans[r][i].timed
      BY <1>3, <2>2 DEF Kept
    <3>2. m_spans[r][i].start_time <= Clock(r)
      BY <2>2, <3>1 DEF TimesInv, StartsArePast, Timed
    <3> QED BY <2>1, <3>1, <3>2
  <2>3. CASE r = p /\ Added(p, t, i)
    <3>1. t[i].start_time = Clock(p) \/ t[i].start_time <= Clock(p)
      BY <1>2, <2>3 DEF Added
    <3> QED BY <1>2, <2>1, <2>3, <3>1
  <2> QED BY <1>5, <2>2, <2>3
<1>10. AfterTheCall'
  <2> SUFFICES ASSUME NEW r \in Proc, NEW q \in Calls(r), call'[q] # 0,
                      NEW i \in 1 .. Len(m_spans'[q]), m_spans'[q][i].timed
               PROVE  m_spans'[r][call'[q]].start_time - Skew[r]
                        <= m_spans'[q][i].start_time - Skew[q]
    BY DEF AfterTheCall, Timed
  <2>1. q \in Proc
    BY CallSpans
  <2>2. CASE call[q] = 0
    <3>1. m_spans[q] = << >> /\ pc[q] = "none"
      BY <2>2, CallSpans
    <3>2. m_spans'[q] = << >>
      BY <1>2, <2>1, <3>1
    <3> QED BY <3>2
  <2>3. CASE call[q] # 0
    <3> DEFINE k == call[q]
               S == m_spans[r][k].start_time
    <3>1. k \in Timed(r) /\ k \in 1 .. Len(m_spans[r]) /\ call'[q] = k
      BY <2>1, <2>3, CallSpans DEF Grows
    <3>2. m_spans'[r][k].start_time = S /\ S \in Int
      <4> HIDE DEF k
      <4>1. S \in Int
        BY <1>1, <3>1 DEF TimeTypes
      <4>2. m_spans'[r][k].start_time = S
        BY <1>3, <3>1 DEF Kept
      <4> QED BY <4>1, <4>2
    <3>3. S <= Clock(r) /\ Skew[r] \in Int /\ Skew[q] \in Int /\ now \in Int
      BY <1>1, <2>1, <3>1 DEF TimesInv, StartsArePast, TimeTypes
    <3>4. \A j \in Timed(q) : S - Skew[r] <= m_spans[q][j].start_time - Skew[q]
      BY <2>3 DEF TimesInv, AfterTheCall
    <3>5. S - Skew[r] <= m_spans'[q][i].start_time - Skew[q]
      <4> HIDE DEF S
      <4>1. CASE i \in 1 .. Len(m_spans[q])
        <5>1. /\ m_spans'[q][i].start_time = m_spans[q][i].start_time
              /\ i \in Timed(q)
          BY <1>3, <2>1, <4>1 DEF Kept, Timed
        <5> QED BY <3>4, <5>1
      <4>2. CASE q = p /\ t[i].start_time = Clock(p)
        <5>1. m_spans'[q][i].start_time = now + Skew[q]
          BY <1>2, <4>2 DEF Clock
        <5>2. S <= now + Skew[r]
          BY <3>3 DEF Clock
        <5> QED BY <3>2, <3>3, <5>1, <5>2
      <4>3. ASSUME q = p, NEW j \in Timed(p),
                   m_spans[p][j].start_time <= t[i].start_time
            PROVE  S - Skew[r] <= m_spans'[q][i].start_time - Skew[q]
        <5>1. m_spans[q][j].start_time <= m_spans'[q][i].start_time
          BY <1>2, <4>3
        <5>2. /\ m_spans[q][j].start_time \in Int
              /\ m_spans'[q][i].start_time \in Int
          BY <1>1, <2>1, <4>3 DEF TimeTypes, Timed
        <5>3. S - Skew[r] <= m_spans[q][j].start_time - Skew[q]
          BY <3>4, <4>3
        <5> QED BY <3>2, <3>3, <5>1, <5>2, <5>3
      <4>4. \/ i \in 1 .. Len(m_spans[q])
            \/ q = p /\ Added(p, t, i) /\ t[i].timed
        BY <1>2, <1>5, <2>1
      <4> QED BY <4>1, <4>2, <4>3, <4>4 DEF Added
    <3> QED BY <3>1, <3>2, <3>5
  <2> QED BY <2>2, <2>3
<1> QED BY <1>2, <1>3, <1>4, <1>6, <1>7, <1>8, <1>9, <1>10

\* A span that stays as it is has still ended, or may still be open.
LEMMA EndStays ==
  ASSUME IInv, IInv', TimesInv, NEW p \in Proc, pc[p] # "none", NEW t, Grows(p, t),
         NEW r \in Proc, NEW i \in Timed(r),
         m_spans'[r][i].end_time = m_spans[r][i].end_time,
         i # 1 \/ (pc[r] = "running" => pc'[r] = "running"),
         \A q \in Calls(r) : received'[q] = received[q] \/ i # call[q]
  PROVE  EndPast(r, i)'
<1>1. i \in 1 .. Len(m_spans[r]) /\ EndPast(r, i)
  BY DEF Timed, TimesInv, EndsArePast
<1>2. m_spans'[r][i].start_time = m_spans[r][i].start_time /\ Clock(r)' >= Clock(r)
  BY <1>1, GrowthOfTimes DEF Kept
<1>3. /\ m_spans[r][i].end_time \in Int /\ Clock(r) \in Int /\ Clock(r)' \in Int
  <2>1. (IInv => TimeTypes)'
    BY TimesAreTyped, PTL
  <2> QED BY <1>1, <2>1, TimesAreTyped DEF TimeTypes
<1>4. CASE i = 1 /\ pc[r] = "running"
  BY <1>4 DEF EndPast
<1>5. ASSUME NEW q \in Calls(r), i = call[q], received[q] = 0
      PROVE  EndPast(r, i)'
  <2>1. q \in Proc /\ call[q] # 0
    BY <1>1, <1>5, CallSpans
  <2>2. call'[q] = i
    BY <1>5, <2>1 DEF Grows
  <2> QED BY <1>5, <2>2 DEF EndPast
<1>6. ASSUME m_spans[r][i].start_time <= m_spans[r][i].end_time,
             m_spans[r][i].end_time <= Clock(r)
      PROVE  EndPast(r, i)'
  <2>1. m_spans'[r][i].end_time <= Clock(r)'
    BY <1>2, <1>3, <1>6
  <2>2. m_spans'[r][i].start_time <= m_spans'[r][i].end_time
    BY <1>2, <1>6
  <2> QED BY <2>1, <2>2 DEF EndPast
<1> QED BY <1>1, <1>4, <1>5, <1>6 DEF EndPast

\* What has been received has been sent before.
LEMMA ReceivedStays ==
  ASSUME IInv, IInv', TimesInv, NEW p \in Proc, pc[p] # "none", NEW t, Grows(p, t),
         NEW r \in Proc, \A q \in Calls(r) : received'[q] = received[q],
         \A q \in Calls(r) : end'[q] = end[q] \/ received[q] = 0
  PROVE  SentBeforeReceived(r)'
<1> SUFFICES ASSUME NEW q \in Calls(r), received[q] # 0
             PROVE  /\ end'[q] - Skew[q] <= received[q] - Skew[r]
                    /\ received[q] <= Clock(r)'
  BY DEF SentBeforeReceived
<1>1. /\ end[q] - Skew[q] <= received[q] - Skew[r] /\ received[q] <= Clock(r)
      /\ end'[q] = end[q]
  BY DEF TimesInv, SentBeforeReceived
<1>2. Clock(r)' >= Clock(r)
  BY GrowthOfTimes
<1>3. Clock(r) \in Int /\ Clock(r)' \in Int /\ received[q] \in Int
  <2>1. (IInv => TimeTypes)'
    BY TimesAreTyped, PTL
  <2>2. q \in Proc
    BY CalleesAssumption
  <2> QED BY <2>1, <2>2, TimesAreTyped DEF TimeTypes
<1> QED BY <1>1, <1>2, <1>3

\* The spans that are below calls stay as they are where only spans of the
\* process itself are added or ended.
LEMMA InsideStays ==
  ASSUME IInv, IInv', TimesInv, NEW p \in Proc, pc[p] # "none", NEW t, Grows(p, t),
         NEW r \in Proc,
         \A i \in 1 .. Len(m_spans[r]) :
           \/ m_spans'[r][i].end_time = m_spans[r][i].end_time
           \/ m_spans[r][i].id[1] = r,
         \A i \in 1 .. Len(m_spans'[r]) :
           \/ i \in 1 .. Len(m_spans[r])
           \/ m_spans'[r][i].timed => m_spans'[r][i].id[1] = r,
         \A q \in Calls(r) : received'[q] = received[q] \/ received[q] = 0
  PROVE  InsideCalls(r)'
<1> SUFFICES ASSUME NEW q \in Calls(r), NEW i \in 1 .. Len(m_spans'[r]),
                    m_spans'[r][i].timed, m_spans'[r][i].id[1] \in Below[q]
             PROVE  /\ m_spans'[r][call'[q]].start_time <= m_spans'[r][i].start_time
                    /\ m_spans'[r][i].start_time <= m_spans'[r][i].end_time
                    /\ m_spans'[r][i].end_time <= received'[q]
  BY DEF InsideCalls, Timed
<1>1. pc[r] # "none"
  <2> SUFFICES ASSUME pc[r] = "none" PROVE FALSE
    OBVIOUS
  <2>1. m_spans[r] = << >> /\ r # p
    BY DEF TimesInv, Waiting, Started
  <2>2. m_spans'[r] = << >>
    BY <2>1, GrowthOfTimes
  <2> QED BY <2>2
<1>2. m_spans'[r][i].id[1] # r
  BY <1>1, NoCircle DEF TimesInv, Reached
<1>3. i \in 1 .. Len(m_spans[r])
  BY <1>2
<1>4. /\ m_spans'[r][i].id = m_spans[r][i].id
      /\ m_spans'[r][i].timed = m_spans[r][i].timed
      /\ m_spans'[r][i].start_time = m_spans[r][i].start_time
  <2>1. Kept(m_spans[r], m_spans'[r])
    BY GrowthOfTimes
  <2> QED BY <1>3, <2>1 DEF Kept
<1>5. m_spans'[r][i].end_time = m_spans[r][i].end_time
  BY <1>2, <1>3, <1>4
<1>6. q \in inserted /\ received'[q] = received[q]
  BY <1>1, <1>3, <1>4, BelowCall
<1>7. /\ call[q] # 0 /\ call'[q] = call[q] /\ call[q] \in 1 .. Len(m_spans[r])
  BY <1>6, CallSpans DEF Grows
<1>8. m_spans'[r][call'[q]].start_time = m_spans[r][call[q]].start_time
  BY <1>7, GrowthOfTimes DEF Kept
<1>9. /\ m_spans[r][call[q]].start_time <= m_spans[r][i].start_time
      /\ m_spans[r][i].start_time <= m_spans[r][i].end_time
      /\ m_spans[r][i].end_time <= received[q]
  BY <1>3, <1>4 DEF TimesInv, InsideCalls, Timed
<1> QED BY <1>4, <1>5, <1>6, <1>8, <1>9

\* The containers of the other processes are what they were.
LEMMA Elsewhere ==
  ASSUME IInv, IInv', TimesInv, NEW p \in Proc, pc[p] # "none", NEW t, Grows(p, t),
         NEW r \in Proc, r # p, end'[r] = end[r],
         pc'[r] = pc[r] \/ pc'[r] = "called",
         pc[r] = "running" => pc'[r] = "running",
         \A q \in Calls(r) : received'[q] = received[q]
  PROVE  (\A i \in Timed(r) : EndPast(r, i))' /\ BeforeEnd(r)'
<1>1. m_spans'[r] = m_spans[r] /\ Clock(r)' >= Clock(r)
  BY GrowthOfTimes
<1>2. Timed(r)' = Timed(r)
  BY <1>1 DEF Timed
<1>3. \A i \in Timed(r) : EndPast(r, i)'
  BY <1>1, EndStays
<1>4. BeforeEnd(r)'
  <2> SUFFICES ASSUME pc'[r] = "done"
               PROVE  /\ end[r] <= Clock(r)'
                      /\ \A i \in Timed(r) :
                           /\ m_spans[r][i].start_time <= m_spans[r][i].end_time
                           /\ m_spans[r][i].end_time <= end[r]
    BY <1>1, <1>2 DEF BeforeEnd
  <2>1. pc[r] = "done"
    OBVIOUS
  <2>2. /\ end[r] <= Clock(r)
        /\ \A i \in Timed(r) : /\ m_spans[r][i].start_time <= m_spans[r][i].end_time
                               /\ m_spans[r][i].end_time <= end[r]
    BY <2>1 DEF TimesInv, BeforeEnd
  <2>3. end[r] \in Int /\ Clock(r) \in Int /\ Clock(r)' \in Int
    <3>1. (IInv => TimeTypes)'
      BY TimesAreTyped, PTL
    <3> QED BY <3>1, TimesAreTyped DEF TimeTypes
  <2> QED BY <1>1, <2>2, <2>3
<1> QED BY <1>2, <1>3, <1>4

\* The root starts now.
LEMMA StartKeepsTimes ==
  ASSUME IInv, IInv', TimesInv, NEW p \in Proc, Start(p) PROVE TimesInv'
<1> DEFINE t == CreateRoot(p, TRUE)
<1>1. /\ m_spans' = [m_spans EXCEPT ![p] = t]
      /\ pc' = [pc EXCEPT ![p] = "running"] /\ pc[p] = "called"
      /\ now' = now + 1
      /\ UNCHANGED <<call, end, received, inserted>>
  BY DEF Start
<1>2. Len(t) = 1 /\ t[1].id[1] = p /\ t[1].timed /\ t[1].start_time = Clock(p)
  BY RootWellFormed, RootTimes DEF IInv
<1>3. m_spans[p] = << >>
  BY <1>1 DEF TimesInv, Waiting, Started
<1> HIDE DEF t
<1>4. Grows(p, t)
  <2>1. Kept(m_spans[p], t)
    BY <1>2, <1>3 DEF Kept
  <2>2. \A i \in 1 .. Len(t) : Added(p, t, i)
    BY <1>2 DEF Added
  <2>3. now' >= now
    BY <1>1 DEF IInv, Types
  <2> QED BY <1>1, <1>2, <2>1, <2>2, <2>3 DEF Grows
<1>5. /\ \A r \in Proc : m_spans'[r] = IF r = p THEN t ELSE m_spans[r]
      /\ Origins' /\ RootsAreOwn' /\ CallsAreOwn' /\ StartsArePast' /\ AfterTheCall'
  BY <1>1, <1>4, GrowthOfTimes
<1>6. \A r \in Proc : pc'[r] = IF r = p THEN "running" ELSE pc[r]
  BY <1>1 DEF IInv, Types
<1>7. Reached' /\ Waiting' /\ InsertedAreReceived'
  BY <1>1, <1>5, <1>6
     DEF TimesInv, Reached, Waiting, Started, InsertedAreReceived
<1>8. /\ (\A i \in Timed(p) : EndPast(p, i))'
      /\ BeforeEnd(p)'
  BY <1>2, <1>5, <1>6 DEF Timed, EndPast, BeforeEnd
<1>9. \A r \in Proc \ {p} : (\A i \in Timed(r) : EndPast(r, i))' /\ BeforeEnd(r)'
  BY <1>1, <1>4, <1>6, Elsewhere
<1>10. \A r \in Proc : SentBeforeReceived(r)'
  BY <1>1, <1>4, ReceivedStays
<1>11. \A r \in Proc : InsideCalls(r)'
  <2>1. \A r \in Proc : \A i \in 1 .. Len(m_spans[r]) : m_spans'[r][i] = m_spans[r][i]
    BY <1>3, <1>5
  <2>2. \A r \in Proc : \A i \in 1 .. Len(m_spans'[r]) :
          i \in 1 .. Len(m_spans[r]) \/ m_spans'[r][i].id[1] = r
    BY <1>2, <1>5
  <2> QED BY <1>1, <1>4, <2>1, <2>2, InsideStays
<1> QED BY <1>5, <1>7, <1>8, <1>9, <1>10, <1>11 DEF TimesInv, EndsArePast

\* The span of a call starts now; nothing has come from the callee before.
LEMMA OpenKeepsTimes ==
  ASSUME IInv, IInv', TimesInv, NEW p \in Proc, NEW q \in Calls(p), OpenCall(p, q)
  PROVE  TimesInv'
<1> DEFINE s == m_spans[p]
           t == CreateChild(p, s, 1, TRUE)
           k == Len(s) + 1
<1>1. /\ m_spans' = [m_spans EXCEPT ![p] = t]
      /\ call' = [call EXCEPT ![q] = Len(m_spans'[p])]
      /\ pc[p] = "running" /\ call[q] = 0 /\ now' = now + 1
      /\ UNCHANGED <<pc, end, received, inserted>>
  BY DEF OpenCall
<1>2. WellFormed(s) /\ s \in Seq(Span) /\ Len(s) \in Nat /\ 1 \in 1 .. Len(s)
  <2>1. Len(s) >= 1
    BY <1>1 DEF IInv, RootsExist, Started
  <2> QED BY <2>1 DEF IInv, Containers, WellFormed
<1>3. /\ Len(t) = k /\ \A i \in 1 .. Len(s) : t[i] = s[i]
      /\ t[k].id[1] = p /\ t[k].timed /\ t[k].start_time = Clock(p)
  <2> HIDE DEF s
  <2>1. Len(t) = k
    BY <1>2, ChildWellFormed DEF IInv
  <2>2. TimedChild(p, s, t)
    BY <1>2, ChildTimes, Zenon
  <2> HIDE DEF t
  <2> QED BY <2>1, <2>2 DEF TimedChild
<1>4. m_spans'[p] = t
  BY <1>1 DEF IInv, Types
<1>5. \A r \in Proc : call'[r] = IF r = q THEN k ELSE call[r]
  BY <1>1, <1>3, <1>4 DEF IInv, Types
<1> HIDE DEF t
<1>6. Grows(p, t)
  <2>1. Kept(s, t)
    BY <1>2, <1>3 DEF Kept
  <2>2. \A i \in 1 .. Len(t) : i \in 1 .. Len(s) \/ Added(p, t, i)
    BY <1>2, <1>3 DEF Added
  <2>3. now' >= now
    BY <1>1 DEF IInv, Types
  <2>4. t[1].id[1] = p
    BY <1>2, <1>3 DEF TimesInv, RootsAreOwn
  <2>5. \A r \in Proc : call[r] # 0 => call'[r] = call[r]
    BY <1>1, <1>5
  <2>6. \A r \in Proc : call'[r] # 0 /\ call[r] = 0 =>
          r \in Calls(p) /\ t[call'[r]].timed /\ t[call'[r]].id[1] = p
    BY <1>3, <1>5
  <2> QED BY <1>1, <2>1, <2>2, <2>3, <2>4, <2>5, <2>6 DEF Grows
<1>7. /\ \A r \in Proc : m_spans'[r] = IF r = p THEN t ELSE m_spans[r]
      /\ Origins' /\ RootsAreOwn' /\ CallsAreOwn' /\ StartsArePast' /\ AfterTheCall'
  BY <1>1, <1>6, GrowthOfTimes
<1>8. Reached' /\ Waiting' /\ InsertedAreReceived'
  BY <1>1, <1>7 DEF TimesInv, Reached, Waiting, Started, InsertedAreReceived
<1>9. \A i \in Timed(p)' : EndPast(p, i)'
  <2> SUFFICES ASSUME NEW i \in 1 .. k, t[i].timed PROVE EndPast(p, i)'
    BY <1>3, <1>7 DEF Timed
  <2>1. CASE i \in 1 .. Len(s)
    <3>1. i \in Timed(p) /\ m_spans'[p][i] = m_spans[p][i]
      BY <1>3, <1>4, <2>1 DEF Timed
    <3> QED BY <1>1, <1>6, <3>1, EndStays
  <2>2. CASE i = k
    <3>1. call'[q] = k /\ received'[q] = 0
      <4>1. q \in Proc /\ pc[q] = "none"
        BY <1>1, CallSpans
      <4> QED BY <1>1, <1>5, <4>1 DEF IInv, ReceivedAreDone
    <3> QED BY <2>2, <3>1 DEF EndPast
  <2> QED BY <1>2, <2>1, <2>2
<1>10. BeforeEnd(p)'
  BY <1>1 DEF BeforeEnd
<1>11. \A r \in Proc \ {p} : (\A i \in Timed(r) : EndPast(r, i))' /\ BeforeEnd(r)'
  BY <1>1, <1>6, Elsewhere
<1>12. \A r \in Proc : SentBeforeReceived(r)'
  BY <1>1, <1>6, ReceivedStays
<1>13. \A r \in Proc : InsideCalls(r)'
  <2>1. \A r \in Proc : \A i \in 1 .. Len(m_spans[r]) : m_spans'[r][i] = m_spans[r][i]
    BY <1>3, <1>7
  <2>2. \A r \in Proc : \A i \in 1 .. Len(m_spans'[r]) :
          i \in 1 .. Len(m_spans[r]) \/ m_spans'[r][i].id[1] = r
    BY <1>2, <1>3, <1>7
  <2> QED BY <1>1, <1>6, <2>1, <2>2, InsideStays
<1> QED BY <1>7, <1>8, <1>9, <1>10, <1>11, <1>12, <1>13 DEF TimesInv, EndsArePast

\* The span of the dispatcher has no start.
LEMMA DispatchKeepsTimes ==
  ASSUME IInv, IInv', TimesInv, NEW p \in Proc, NEW q \in Calls(p), Dispatch(p, q)
  PROVE  TimesInv'
<1> DEFINE s == m_spans[p]
           t == CreateChild(p, s, call[q], FALSE)
           k == Len(s) + 1
<1>1. /\ m_spans' = [m_spans EXCEPT ![p] = t]
      /\ pc' = [pc EXCEPT ![q] = "called"]
      /\ pc[p] = "running" /\ pc[q] = "none" /\ call[q] # 0 /\ now' = now + 1
      /\ UNCHANGED <<call, end, received, inserted>>
  BY DEF Dispatch
<1>2. /\ WellFormed(s) /\ s \in Seq(Span) /\ Len(s) \in Nat
      /\ call[q] \in 1 .. Len(s) /\ q \in Proc
  BY <1>1, CallSpans DEF IInv, Containers, WellFormed
<1>3. /\ Len(t) = k /\ \A i \in 1 .. Len(s) : t[i] = s[i]
      /\ t[k].id[1] = p /\ ~t[k].timed
  <2> HIDE DEF s
  <2>1. Len(t) = k
    BY <1>2, ChildWellFormed DEF IInv
  <2>2. UntimedChild(p, s, t)
    BY <1>2, ChildTimes, Zenon
  <2> HIDE DEF t
  <2> QED BY <2>1, <2>2 DEF UntimedChild
<1> HIDE DEF t
<1>4. Grows(p, t)
  <2>1. Kept(s, t)
    BY <1>2, <1>3 DEF Kept
  <2>2. \A i \in 1 .. Len(t) : i \in 1 .. Len(s) \/ Added(p, t, i)
    BY <1>2, <1>3 DEF Added
  <2>3. now' >= now
    BY <1>1 DEF IInv, Types
  <2>4. t[1].id[1] = p
    BY <1>2, <1>3 DEF TimesInv, RootsAreOwn
  <2> QED BY <1>1, <2>1, <2>2, <2>3, <2>4 DEF Grows
<1>5. /\ \A r \in Proc : m_spans'[r] = IF r = p THEN t ELSE m_spans[r]
      /\ Origins' /\ RootsAreOwn' /\ CallsAreOwn' /\ StartsArePast' /\ AfterTheCall'
  BY <1>1, <1>4, GrowthOfTimes
<1>6. \A r \in Proc : pc'[r] = IF r = q THEN "called" ELSE pc[r]
  BY <1>1 DEF IInv, Types
<1>7. Reached'
  <2>1. q \in Below[Host]
    BY <1>1, ProcAssumption, BelowLeast DEF TimesInv, Reached, Closed
  <2> QED BY <1>6, <2>1 DEF TimesInv, Reached
<1>8. Waiting' /\ InsertedAreReceived'
  BY <1>1, <1>5, <1>6 DEF TimesInv, Waiting, Started, InsertedAreReceived
<1>9. \A i \in Timed(p)' : EndPast(p, i)'
  <2> SUFFICES ASSUME NEW i \in 1 .. k, t[i].timed PROVE EndPast(p, i)'
    BY <1>3, <1>5 DEF Timed
  <2>1. i \in 1 .. Len(s)
    BY <1>2, <1>3
  <2>2. i \in Timed(p) /\ m_spans'[p][i] = m_spans[p][i]
    BY <1>3, <1>5, <2>1 DEF Timed
  <2> QED BY <1>1, <1>4, <1>6, <2>2, EndStays
<1>10. BeforeEnd(p)'
  BY <1>1, <1>6 DEF BeforeEnd
<1>11. \A r \in Proc \ {p} : (\A i \in Timed(r) : EndPast(r, i))' /\ BeforeEnd(r)'
  BY <1>1, <1>4, <1>6, Elsewhere
<1>12. \A r \in Proc : SentBeforeReceived(r)'
  BY <1>1, <1>4, ReceivedStays
<1>13. \A r \in Proc : InsideCalls(r)'
  <2>1. \A r \in Proc : \A i \in 1 .. Len(m_spans[r]) : m_spans'[r][i] = m_spans[r][i]
    BY <1>3, <1>5
  <2>2. \A r \in Proc : \A i \in 1 .. Len(m_spans'[r]) :
          i \in 1 .. Len(m_spans[r]) \/ m_spans'[r][i].id[1] = r
    BY <1>2, <1>3, <1>5
  <2> QED BY <1>1, <1>4, <2>1, <2>2, InsideStays
<1> QED BY <1>5, <1>7, <1>8, <1>9, <1>10, <1>11, <1>12, <1>13
        DEF TimesInv, EndsArePast

\* The end of a span of the process itself is set to a time that will be past.
LEMMA EndGrows ==
  ASSUME IInv, TimesInv, NEW p \in Proc, NEW i \in 1 .. Len(m_spans[p]), NEW T \in Int,
         m_spans' = [m_spans EXCEPT ![p] = EndSpan(@, i, T)],
         now' >= now, call' = call, inserted' = inserted
  PROVE  /\ Grows(p, EndSpan(m_spans[p], i, T))
         /\ Len(m_spans'[p]) = Len(m_spans[p])
         /\ \A j \in 1 .. Len(m_spans[p]) :
              m_spans'[p][j].end_time = IF j = i THEN T ELSE m_spans[p][j].end_time
<1> DEFINE s == m_spans[p]
           t == EndSpan(s, i, T)
<1>1. WellFormed(s) /\ s \in Seq(Span) /\ Len(s) \in Nat /\ i \in 1 .. Len(s)
  BY DEF IInv, Containers, WellFormed
<1>2. m_spans' = [m_spans EXCEPT ![p] = t] /\ m_spans'[p] = t
  BY DEF IInv, Types
<1>3. Len(t) = Len(s)
  <2> HIDE DEF s
  <2> QED BY <1>1, EndWellFormed
<1>4. \A j \in 1 .. Len(s) :
        /\ t[j].id = s[j].id /\ t[j].timed = s[j].timed
        /\ t[j].start_time = s[j].start_time
        /\ t[j].end_time = IF j = i THEN T ELSE s[j].end_time
  <2> HIDE DEF s
  <2> QED BY <1>1, EndTimes
<1> HIDE DEF t
<1>5. Grows(p, t)
  <2>1. Kept(s, t)
    BY <1>1, <1>3, <1>4 DEF Kept
  <2>2. Len(t) >= 1 => t[1].id[1] = p
    BY <1>1, <1>3, <1>4 DEF TimesInv, RootsAreOwn
  <2> QED BY <1>2, <1>3, <2>1, <2>2 DEF Grows
<1> QED BY <1>2, <1>3, <1>4, <1>5 DEF t

\* The end of a call's span and the time of its result are not before what the
\* callee has sent, nor after the step.
LEMMA ReceiveKeepsTimes ==
  ASSUME IInv, IInv', TimesInv, NEW p \in Proc, NEW q \in Calls(p), Receive(p, q)
  PROVE  TimesInv'
<1> DEFINE first == \A r \in Calls(p) : received[r] = 0
           at == Clock(p) + (IF first THEN 0 ELSE 1)
           T == Clock(p) + (IF first THEN 1 ELSE 0)
           t == EndSpan(m_spans[p], call[q], T)
<1>1. /\ m_spans' = [m_spans EXCEPT ![p] = EndSpan(@, call[q], T)]
      /\ received' = [received EXCEPT ![q] = at]
      /\ pc[p] = "running" /\ pc[q] = "done" /\ received[q] = 0
      /\ now' = now + 2
      /\ UNCHANGED <<pc, call, end, inserted>>
  BY DEF Receive
<1>2. /\ now \in Int /\ Clock(p) \in Int /\ Skew[p] \in Int /\ Skew[q] \in Int
      /\ Clock(p) = now + Skew[p] /\ Clock(q) = now + Skew[q]
      /\ Clock(p)' = now' + Skew[p] /\ end[q] \in Int /\ q \in Proc
  BY CallSpans, TimesAreTyped DEF TimeTypes, Clock
<1>3. /\ at \in Int /\ T \in Int /\ now' >= now
      /\ at >= Clock(p) /\ T >= Clock(p)
      /\ at <= Clock(p)' /\ T <= Clock(p)'
  BY <1>1, <1>2
<1> HIDE DEF first, at, T
<1>4. /\ call[q] \in 1 .. Len(m_spans[p]) /\ m_spans[p][call[q]].id[1] = p
      /\ call[q] \in Timed(p)
  BY <1>1, CallSpans
<1>5. /\ Grows(p, t) /\ Len(m_spans'[p]) = Len(m_spans[p])
      /\ \A j \in 1 .. Len(m_spans[p]) :
           m_spans'[p][j].end_time = IF j = call[q] THEN T ELSE m_spans[p][j].end_time
  BY <1>1, <1>3, <1>4, EndGrows
<1> HIDE DEF t
<1>6. /\ \A r \in Proc : m_spans'[r] = IF r = p THEN t ELSE m_spans[r]
      /\ Kept(m_spans[p], m_spans'[p])
      /\ Origins' /\ RootsAreOwn' /\ CallsAreOwn' /\ StartsArePast' /\ AfterTheCall'
  BY <1>1, <1>5, GrowthOfTimes
<1>7. \A r \in Proc : received'[r] = IF r = q THEN at ELSE received[r]
  BY <1>1 DEF IInv, Types
<1>8. \A r \in Proc \ {p} : \A x \in Calls(r) : received'[x] = received[x]
  BY <1>7, CalleesAssumption
<1>9. Reached' /\ Waiting' /\ InsertedAreReceived'
  BY <1>1, <1>6, <1>7, <1>2
     DEF TimesInv, Reached, Waiting, Started, InsertedAreReceived
<1>10. \A i \in Timed(p)' : EndPast(p, i)'
  <2> SUFFICES ASSUME NEW i \in 1 .. Len(m_spans[p]), m_spans'[p][i].timed
               PROVE  EndPast(p, i)'
    BY <1>5 DEF Timed
  <2>1. i \in Timed(p) /\ m_spans'[p][i].start_time = m_spans[p][i].start_time
    BY <1>6 DEF Timed, Kept
  <2>2. CASE i = call[q]
    <3>1. m_spans[p][i].start_time <= Clock(p) /\ m_spans[p][i].start_time \in Int
      BY <2>1, TimesAreTyped DEF TimesInv, StartsArePast, TimeTypes
    <3>2. m_spans'[p][i].end_time = T
      BY <1>5, <2>2
    <3>3. /\ m_spans'[p][i].start_time <= m_spans'[p][i].end_time
          /\ m_spans'[p][i].end_time <= Clock(p)'
      BY <1>2, <1>3, <2>1, <3>1, <3>2
    <3> QED BY <3>3 DEF EndPast
  <2>3. CASE i # call[q]
    <3>1. m_spans'[p][i].end_time = m_spans[p][i].end_time
      BY <1>5, <2>3
    <3>2. \A x \in Calls(p) : received'[x] = received[x] \/ i # call[x]
      BY <1>7, <2>3, CalleesAssumption
    <3> QED BY <1>1, <1>5, <2>1, <3>1, <3>2, EndStays
  <2> QED BY <2>2, <2>3
<1>11. BeforeEnd(p)'
  BY <1>1 DEF BeforeEnd
<1>12. \A r \in Proc \ {p} : (\A i \in Timed(r) : EndPast(r, i))' /\ BeforeEnd(r)'
  BY <1>1, <1>5, <1>8, Elsewhere
<1>13. SentBeforeReceived(p)'
  <2> SUFFICES ASSUME NEW x \in Calls(p), received'[x] # 0
               PROVE  /\ end[x] - Skew[x] <= received'[x] - Skew[p]
                      /\ received'[x] <= Clock(p)'
    BY <1>1 DEF SentBeforeReceived
  <2>1. CASE x = q
    <3>1. end[q] <= Clock(q) /\ received'[q] = at
      BY <1>1, <1>2, <1>7 DEF TimesInv, BeforeEnd
    <3>2. end[q] - Skew[q] <= at - Skew[p]
      BY <1>2, <1>3, <3>1
    <3> QED BY <1>3, <2>1, <3>1, <3>2
  <2>2. CASE x # q
    <3>1. received'[x] = received[x] /\ x \in Proc
      BY <1>7, <2>2, CalleesAssumption
    <3>2. end[x] - Skew[x] <= received[x] - Skew[p] /\ received[x] <= Clock(p)
      BY <3>1 DEF TimesInv, SentBeforeReceived
    <3>3. received[x] \in Int /\ Clock(p)' \in Int
      BY <1>1, <1>2, <3>1, TimesAreTyped DEF TimeTypes
    <3>4. Clock(p) <= Clock(p)'
      BY <1>1, <1>2
    <3> QED BY <1>2, <3>1, <3>2, <3>3, <3>4
  <2> QED BY <2>1, <2>2
<1>14. \A r \in Proc \ {p} : SentBeforeReceived(r)'
  BY <1>1, <1>5, <1>8, ReceivedStays
<1>15. \A r \in Proc : InsideCalls(r)'
  <2>1. \A r \in Proc : \A i \in 1 .. Len(m_spans[r]) :
          \/ m_spans'[r][i].end_time = m_spans[r][i].end_time
          \/ m_spans[r][i].id[1] = r
    BY <1>4, <1>5, <1>6
  <2>2. \A r \in Proc : Len(m_spans'[r]) = Len(m_spans[r])
    BY <1>5, <1>6
  <2>3. \A r \in Proc : \A x \in Calls(r) : received'[x] = received[x] \/ received[x] = 0
    BY <1>1, <1>7, CalleesAssumption
  <2> QED BY <1>1, <1>5, <2>1, <2>2, <2>3, InsideStays
<1> QED BY <1>6, <1>9, <1>10, <1>11, <1>12, <1>13, <1>14, <1>15
        DEF TimesInv, EndsArePast

\* All spans have ended when the process takes the time that it sends.
LEMMA FinishKeepsTimes ==
  ASSUME IInv, IInv', TimesInv, NEW p \in Proc, Finish(p) PROVE TimesInv'
<1> DEFINE T == Clock(p)
           t == EndSpan(m_spans[p], 1, T)
<1>1. /\ m_spans' = [m_spans EXCEPT ![p] = EndSpan(@, 1, T)]
      /\ end' = [end EXCEPT ![p] = T + 1]
      /\ pc' = [pc EXCEPT ![p] = "done"] /\ pc[p] = "running"
      /\ Calls(p) \subseteq inserted
      /\ now' = now + 2
      /\ UNCHANGED <<call, received, inserted>>
  BY DEF Finish
<1>2. /\ now \in Int /\ T \in Int /\ Skew[p] \in Int
      /\ T = now + Skew[p] /\ Clock(p)' = now' + Skew[p]
  BY TimesAreTyped DEF TimeTypes, Clock
<1>3. now' >= now /\ T <= T + 1 /\ T + 1 <= Clock(p)' /\ T <= Clock(p)'
  BY <1>1, <1>2
<1>4. 1 \in 1 .. Len(m_spans[p]) /\ m_spans[p][1].id[1] = p
  <2>1. Len(m_spans[p]) >= 1 /\ Len(m_spans[p]) \in Nat
    BY <1>1, TimesAreTyped DEF IInv, RootsExist, Started, TimeTypes
  <2> QED BY <2>1 DEF TimesInv, RootsAreOwn
<1> HIDE DEF T
<1>5. /\ Grows(p, t) /\ Len(m_spans'[p]) = Len(m_spans[p])
      /\ \A j \in 1 .. Len(m_spans[p]) :
           m_spans'[p][j].end_time = IF j = 1 THEN T ELSE m_spans[p][j].end_time
  BY <1>1, <1>2, <1>3, <1>4, EndGrows
<1> HIDE DEF t
<1>6. /\ \A r \in Proc : m_spans'[r] = IF r = p THEN t ELSE m_spans[r]
      /\ Kept(m_spans[p], m_spans'[p])
      /\ Origins' /\ RootsAreOwn' /\ CallsAreOwn' /\ StartsArePast' /\ AfterTheCall'
  BY <1>1, <1>5, GrowthOfTimes
<1>7. /\ \A r \in Proc : pc'[r] = IF r = p THEN "done" ELSE pc[r]
      /\ \A r \in Proc : end'[r] = IF r = p THEN T + 1 ELSE end[r]
  BY <1>1 DEF IInv, Types
<1>8. Reached' /\ Waiting' /\ InsertedAreReceived'
  BY <1>1, <1>6, <1>7
     DEF TimesInv, Reached, Waiting, Started, InsertedAreReceived
<1>9. ASSUME NEW i \in 1 .. Len(m_spans[p]), m_spans'[p][i].timed
      PROVE  /\ m_spans'[p][i].start_time <= m_spans'[p][i].end_time
             /\ m_spans'[p][i].end_time <= T
             /\ m_spans'[p][i].end_time \in Int
  <2>1. i \in Timed(p) /\ m_spans'[p][i].start_time = m_spans[p][i].start_time
    BY <1>6, <1>9 DEF Timed, Kept
  <2>2. CASE i = 1
    <3>1. m_spans[p][i].start_time <= T
      BY <2>1 DEF TimesInv, StartsArePast, T
    <3>2. m_spans'[p][i].end_time = T
      BY <1>5, <2>2
    <3> QED BY <1>2, <2>1, <3>1, <3>2
  <2>3. CASE i # 1
    <3>1. m_spans'[p][i].end_time = m_spans[p][i].end_time
      BY <1>5, <2>3
    <3>2. EndPast(p, i)
      BY <2>1 DEF TimesInv, EndsArePast
    <3>3. \A q \in Calls(p) : received[q] # 0
      BY <1>1 DEF TimesInv, InsertedAreReceived
    <3>4. /\ m_spans[p][i].start_time <= m_spans[p][i].end_time
          /\ m_spans[p][i].end_time <= T
      BY <2>3, <3>2, <3>3 DEF EndPast, T
    <3>5. m_spans[p][i].end_time \in Int
      BY TimesAreTyped DEF TimeTypes
    <3> QED BY <2>1, <3>1, <3>4, <3>5
  <2> QED BY <2>2, <2>3
<1>10. \A i \in Timed(p)' : EndPast(p, i)'
  <2> SUFFICES ASSUME NEW i \in 1 .. Len(m_spans[p]), m_spans'[p][i].timed
               PROVE  /\ m_spans'[p][i].start_time <= m_spans'[p][i].end_time
                      /\ m_spans'[p][i].end_time <= Clock(p)'
    BY <1>5 DEF Timed, EndPast
  <2>1. Clock(p)' \in Int
    BY <1>1, <1>2
  <2> QED BY <1>2, <1>3, <1>9, <2>1
<1>11. BeforeEnd(p)'
  <2>1. end'[p] = T + 1
    BY <1>7
  <2>2. \A i \in 1 .. Len(m_spans[p]) : m_spans'[p][i].timed =>
          /\ m_spans'[p][i].start_time <= m_spans'[p][i].end_time
          /\ m_spans'[p][i].end_time <= T + 1
    BY <1>2, <1>9
  <2>3. end'[p] <= Clock(p)'
    BY <1>3, <2>1
  <2> QED BY <1>5, <2>1, <2>2, <2>3 DEF BeforeEnd, Timed
<1>12. \A r \in Proc \ {p} : (\A i \in Timed(r) : EndPast(r, i))' /\ BeforeEnd(r)'
  BY <1>1, <1>5, <1>7, Elsewhere
<1>13. \A r \in Proc : SentBeforeReceived(r)'
  <2>1. received[p] = 0
    BY <1>1 DEF IInv, ReceivedAreDone
  <2>2. \A r \in Proc : \A q \in Calls(r) : end'[q] = end[q] \/ received[q] = 0
    BY <1>7, <2>1, CalleesAssumption
  <2> QED BY <1>1, <1>5, <2>2, ReceivedStays
<1>14. \A r \in Proc : InsideCalls(r)'
  <2>1. \A r \in Proc : \A i \in 1 .. Len(m_spans[r]) :
          \/ m_spans'[r][i].end_time = m_spans[r][i].end_time
          \/ m_spans[r][i].id[1] = r
    BY <1>4, <1>5, <1>6
  <2>2. \A r \in Proc : Len(m_spans'[r]) = Len(m_spans[r])
    BY <1>5, <1>6
  <2> QED BY <1>1, <1>5, <2>1, <2>2, InsideStays
<1> QED BY <1>6, <1>8, <1>10, <1>11, <1>12, <1>13, <1>14 DEF TimesInv, EndsArePast

\* The spans of the callee, shifted, lie between its call and its result.
LEMMA InsertKeepsTimes ==
  ASSUME IInv, IInv', TimesInv, NEW p \in Proc, NEW q \in Calls(p), InsertRemote(p, q)
  PROVE  TimesInv'
<1> DEFINE s == m_spans[p]
           o == m_spans[q]
           c == CreateChild(p, s, call[q], FALSE)
           d == received[q] - end[q]
           k == Len(s) + 1
           t == Insert(c, Len(c), o, 1, d)
           start == m_spans[p][call[q]].start_time
<1>1. /\ m_spans' = [m_spans EXCEPT ![p] = t]
      /\ pc[p] = "running" /\ now' = now + 1 /\ received[q] # 0
      /\ inserted' = inserted \union {q}
      /\ UNCHANGED <<pc, call, end, received>>
  BY DEF InsertRemote
<1>2. q \in Proc /\ pc[q] = "done" /\ p \in Below[Host]
  <2>1. q \in Proc
    BY CallSpans
  <2> QED BY <1>1, <2>1 DEF IInv, ReceivedAreDone, TimesInv, Reached
<1>3. /\ WellFormed(s) /\ s \in Seq(Span) /\ Len(s) \in Nat
      /\ WellFormed(o) /\ o \in Seq(Span) /\ Len(o) \in Nat /\ Len(o) >= 1
      /\ call[q] \in Timed(p) /\ call[q] \in 1 .. Len(s)
  <2>1. call[q] # 0
    BY <1>2, CallSpans
  <2>2. Len(o) >= 1
    BY <1>2 DEF IInv, RootsExist, Started
  <2> QED BY <1>2, <2>1, <2>2, CallSpans DEF IInv, Containers, WellFormed
<1>4. /\ WellFormed(c) /\ Len(c) = k /\ c \in Seq(Span)
      /\ \A i \in 1 .. Len(s) : c[i] = s[i]
      /\ c[k].id[1] = p /\ ~c[k].timed
  <2> HIDE DEF s
  <2>1. WellFormed(c) /\ Len(c) = k
    BY <1>3, ChildWellFormed DEF IInv
  <2>2. UntimedChild(p, s, c)
    BY <1>3, ChildTimes, Zenon
  <2> HIDE DEF c
  <2> QED BY <2>1, <2>2 DEF UntimedChild, WellFormed
<1>5. d \in Int /\ received[q] = end[q] + d
  <2>1. end[q] \in Int /\ received[q] \in Int
    BY <1>2, TimesAreTyped DEF TimeTypes
  <2> QED BY <2>1
<1> HIDE DEF c, d
<1>6. /\ Len(t) = k + Len(o)
      /\ \A i \in 1 .. Len(s) : t[i] = s[i]
      /\ t[k].id[1] = p /\ ~t[k].timed
      /\ \A j \in 1 .. Len(o) : /\ t[k + j].id = o[j].id /\ t[k + j].timed = o[j].timed
                                /\ t[k + j].start_time = o[j].start_time + d
                                /\ t[k + j].end_time = o[j].end_time + d
  <2>1. Len(c) \in 1 .. Len(c) /\ k \in 1 .. Len(c) /\ \A i \in 1 .. Len(s) : i \in 1 .. Len(c)
    BY <1>3, <1>4
  <2> HIDE DEF s, o, k
  <2>2. Len(t) = Len(c) + Len(o)
    BY <1>3, <1>4, <1>5, <2>1, InsertWellFormed
  <2>3. /\ \A i \in 1 .. Len(c) : t[i] = c[i]
        /\ \A j \in 1 .. Len(o) :
             /\ t[Len(c) + j].id = o[j].id /\ t[Len(c) + j].timed = o[j].timed
             /\ t[Len(c) + j].start_time = o[j].start_time + d
             /\ t[Len(c) + j].end_time = o[j].end_time + d
    BY <1>3, <1>4, <1>5, <2>1, InsertTimes
  <2> HIDE DEF t
  <2> QED BY <1>4, <2>1, <2>2, <2>3
<1> HIDE DEF t
<1>7. \A i \in 1 .. Len(t) :
        \/ i \in 1 .. Len(s) \/ i = k
        \/ \E j \in 1 .. Len(o) : i = k + j
  <2> SUFFICES ASSUME NEW i \in 1 .. Len(t)
               PROVE  \/ i \in 1 .. Len(s) \/ i = k
                      \/ \E j \in 1 .. Len(o) : i = k + j
    OBVIOUS
  <2>1. /\ Len(t) = k + Len(o) /\ k = Len(s) + 1
        /\ k \in Nat /\ Len(s) \in Nat /\ Len(o) \in Nat
    BY <1>3, <1>6
  <2> HIDE DEF s, o, k
  <2>2. CASE i <= k
    BY <2>1, <2>2
  <2>3. CASE i > k
    <3>1. i - k \in 1 .. Len(o)
      BY <2>1, <2>3
    <3>2. i = k + (i - k)
      BY <2>1
    <3> QED BY <3>1, <3>2
  <2>4. i <= k \/ i > k
    BY <2>1
  <2> QED BY <2>2, <2>3, <2>4
\* Where the spans of the callee come from, and when they were.
<1>8. ASSUME NEW j \in 1 .. Len(o) PROVE o[j].id[1] \in Below[q]
  BY <1>2, BelowLeast, BelowCallee DEF TimesInv, Origins
<1>9. ASSUME NEW j \in 1 .. Len(o), o[j].timed
      PROVE  /\ start <= o[j].start_time + d
             /\ o[j].start_time + d <= o[j].end_time + d
             /\ o[j].end_time + d <= received[q]
  <2>1. j \in Timed(q)
    BY <1>9 DEF Timed
  <2>2. /\ o[j].start_time \in Int /\ o[j].end_time \in Int /\ end[q] \in Int
        /\ Skew[p] \in Int /\ Skew[q] \in Int /\ start \in Int
    BY <1>2, <1>3, TimesAreTyped DEF TimeTypes
  <2>3. start - Skew[p] <= o[j].start_time - Skew[q]
    <3>1. call[q] # 0
      BY <1>3
    <3> QED BY <2>1, <3>1 DEF TimesInv, AfterTheCall
  <2>4. o[j].start_time <= o[j].end_time /\ o[j].end_time <= end[q]
    BY <1>2, <2>1 DEF TimesInv, BeforeEnd
  <2>5. end[q] - Skew[q] <= (end[q] + d) - Skew[p]
    BY <1>1, <1>5 DEF TimesInv, SentBeforeReceived
  <2> DEFINE a == o[j].start_time
             b == o[j].end_time
             e == end[q]
  <2>6. /\ a \in Int /\ b \in Int /\ e \in Int /\ start - Skew[p] <= a - Skew[q]
        /\ a <= b /\ b <= e /\ e - Skew[q] <= (e + d) - Skew[p]
        /\ received[q] = e + d
    BY <1>5, <2>2, <2>3, <2>4, <2>5
  <2>7. start \in Int /\ d \in Int /\ Skew[p] \in Int /\ Skew[q] \in Int
    BY <1>5, <2>2
  <2> HIDE DEF s, o, start, a, b, e
  <2>8. start <= a + d
    BY <2>6, <2>7
  <2>9. a + d <= b + d /\ b + d <= e + d
    BY <2>6, <2>7
  <2> QED BY <2>6, <2>8, <2>9 DEF a, b
<1>10. received[q] <= Clock(p) /\ received[q] \in Int /\ Clock(p) \in Int
  BY <1>1, <1>2, TimesAreTyped DEF TimesInv, SentBeforeReceived, TimeTypes
<1>11. Grows(p, t)
  <2>1. Kept(s, t)
    <3>1. Len(t) >= Len(s)
      <4>1. /\ Len(t) = k + Len(o) /\ k = Len(s) + 1
            /\ Len(s) \in Nat /\ Len(o) \in Nat
        BY <1>3, <1>6
      <4> HIDE DEF s, o, k
      <4> QED BY <4>1
    <3> QED BY <1>6, <3>1 DEF Kept
  <2>2. Added(p, t, k)
    BY <1>6 DEF Added
  <2>3. ASSUME NEW j \in 1 .. Len(o) PROVE Added(p, t, k + j)
    <3>1. t[k + j].id[1] \in Below[q] /\ q \in Calls(p) \intersect inserted'
      BY <1>1, <1>6, <1>8
    <3>2. ASSUME t[k + j].timed
          PROVE  start <= t[k + j].start_time /\ t[k + j].start_time <= Clock(p)
      <4>1. /\ o[j].timed /\ t[k + j].start_time = o[j].start_time + d
            /\ t[k + j].end_time = o[j].end_time + d
        BY <1>6, <3>2
      <4>2. o[j].start_time \in Int /\ o[j].end_time \in Int
        BY <1>2, TimesAreTyped DEF TimeTypes
      <4>3. o[j].start_time + d \in Int /\ o[j].end_time + d \in Int
        BY <1>5, <4>2
      <4>4. start <= t[k + j].start_time
        BY <1>9, <4>1
      <4>5. t[k + j].start_time <= Clock(p)
        BY <1>9, <1>10, <4>1, <4>3
      <4> QED BY <4>4, <4>5
    <3> QED BY <1>3, <3>1, <3>2 DEF Added
  <2>4. now' >= now
    BY <1>1 DEF IInv, Types
  <2>5. t[1].id[1] = p
    <3>1. 1 \in 1 .. Len(s) /\ t[1] = s[1]
      <4>1. 1 \in 1 .. Len(s)
        BY <1>3
      <4> QED BY <1>6, <4>1
    <3> QED BY <1>3, <3>1 DEF TimesInv, RootsAreOwn
  <2>6. \A i \in 1 .. Len(t) : i \in 1 .. Len(s) \/ Added(p, t, i)
    BY <1>7, <2>2, <2>3
  <2> QED BY <1>1, <2>1, <2>4, <2>5, <2>6 DEF Grows
<1>12. /\ \A r \in Proc : m_spans'[r] = IF r = p THEN t ELSE m_spans[r]
       /\ Clock(p)' >= Clock(p)
       /\ Origins' /\ RootsAreOwn' /\ CallsAreOwn' /\ StartsArePast' /\ AfterTheCall'
  BY <1>1, <1>11, GrowthOfTimes
<1>13. Reached' /\ Waiting' /\ InsertedAreReceived'
  BY <1>1, <1>12 DEF TimesInv, Reached, Waiting, Started, InsertedAreReceived
<1>14. \A i \in Timed(p)' : EndPast(p, i)'
  <2> SUFFICES ASSUME NEW i \in 1 .. Len(t), t[i].timed PROVE EndPast(p, i)'
    BY <1>12 DEF Timed
  <2>1. CASE i \in 1 .. Len(s)
    <3>1. /\ i \in Timed(p)
          /\ m_spans'[p][i].end_time = m_spans[p][i].end_time
      <4>1. t[i] = s[i]
        BY <1>6, <2>1
      <4>2. m_spans'[p] = t
        BY <1>12
      <4>3. i \in Timed(p)
        BY <2>1, <4>1 DEF Timed
      <4> QED BY <4>1, <4>2, <4>3, Zenon DEF s
    <3>2. /\ pc[p] # "none"
          /\ pc[p] = "running" => pc'[p] = "running"
          /\ \A x \in Calls(p) : received'[x] = received[x]
      BY <1>1
    <3> QED BY <1>11, <3>1, <3>2, EndStays
  <2>2. ASSUME NEW j \in 1 .. Len(o), i = k + j PROVE EndPast(p, i)'
    <3>1. /\ o[j].timed /\ t[i].start_time = o[j].start_time + d
          /\ t[i].end_time = o[j].end_time + d
      BY <1>6, <2>2
    <3>2. o[j].end_time + d \in Int /\ Clock(p)' \in Int
      <4>1. o[j].end_time \in Int
        BY <1>2, TimesAreTyped DEF TimeTypes
      <4>2. now \in Int /\ Skew[p] \in Int /\ Clock(p)' = now' + Skew[p]
        BY TimesAreTyped DEF TimeTypes, Clock
      <4> QED BY <1>1, <1>5, <4>1, <4>2
    <3>3. t[i].start_time <= t[i].end_time /\ t[i].end_time <= Clock(p)'
      BY <1>9, <1>10, <1>12, <3>1, <3>2
    <3> QED BY <1>12, <3>3 DEF EndPast
  <2>3. i # k
    BY <1>6
  <2> QED BY <1>7, <2>1, <2>2, <2>3
<1>15. BeforeEnd(p)'
  BY <1>1 DEF BeforeEnd
<1>16. \A r \in Proc \ {p} : (\A i \in Timed(r) : EndPast(r, i))' /\ BeforeEnd(r)'
  BY <1>1, <1>11, Elsewhere
<1>17. \A r \in Proc : SentBeforeReceived(r)'
  BY <1>1, <1>11, ReceivedStays
<1>18. \A r \in Proc \ {p} : InsideCalls(r)'
  <2>1. \A r \in Proc \ {p} : m_spans'[r] = m_spans[r]
    BY <1>12
  <2> QED BY <1>1, <1>11, <2>1, InsideStays
<1>19. InsideCalls(p)'
  <2> SUFFICES ASSUME NEW x \in Calls(p), NEW i \in 1 .. Len(t),
                      t[i].timed, t[i].id[1] \in Below[x]
               PROVE  /\ t[call[x]].start_time <= t[i].start_time
                      /\ t[i].start_time <= t[i].end_time
                      /\ t[i].end_time <= received[x]
    BY <1>1, <1>12 DEF InsideCalls, Timed
  <2>1. CASE i \in 1 .. Len(s)
    <3>1. i \in Timed(p) /\ t[i] = m_spans[p][i]
      BY <1>6, <2>1 DEF Timed
    <3>2. x \in inserted
      BY <1>1, <2>1, <3>1, BelowCall
    <3>3. call[x] \in 1 .. Len(s)
      BY <3>2, CallSpans
    <3>4. t[call[x]] = m_spans[p][call[x]]
      BY <1>6, <3>3
    <3> QED BY <3>1, <3>4 DEF TimesInv, InsideCalls
  <2>2. ASSUME NEW j \in 1 .. Len(o), i = k + j
        PROVE  /\ t[call[x]].start_time <= t[i].start_time
               /\ t[i].start_time <= t[i].end_time
               /\ t[i].end_time <= received[x]
    <3>1. /\ o[j].timed /\ t[i].start_time = o[j].start_time + d
          /\ t[i].end_time = o[j].end_time + d
          /\ t[i].id[1] \in Below[q]
      BY <1>6, <1>8, <2>2
    <3>2. x = q
      BY <1>2, <3>1, BelowDisjoint
    <3>3. t[call[q]] = m_spans[p][call[q]]
      BY <1>3, <1>6
    <3> QED BY <1>9, <3>1, <3>2, <3>3
  <2>3. i # k
    BY <1>6
  <2> QED BY <1>7, <2>1, <2>2, <2>3
<1> QED BY <1>12, <1>13, <1>14, <1>15, <1>16, <1>17, <1>18, <1>19
        DEF TimesInv, EndsArePast

-----------------------------------------------------------------------------

LEMMA InitTimes == Init => TimesInv
<1> SUFFICES ASSUME Init PROVE TimesInv
  OBVIOUS
<1>1. Host \in Proc /\ Host \in Below[Host]
  BY ProcAssumption, BelowLeast
<1>2. /\ \A p \in Proc : pc[p] = IF p = Host THEN "running" ELSE "none"
      /\ \A p \in Proc : m_spans[p] = IF p = Host THEN CreateRoot(Host, FALSE)
                                                  ELSE << >>
      /\ \A p \in Proc : call[p] = 0 /\ received[p] = 0
      /\ inserted = {}
  BY DEF Init
<1>3. /\ Len(CreateRoot(Host, FALSE)) = 1
      /\ CreateRoot(Host, FALSE)[1].id[1] = Host
      /\ ~CreateRoot(Host, FALSE)[1].timed
  BY DEF CreateRoot
<1>4. /\ \A p \in Proc : Timed(p) = {}
      /\ \A p \in Proc : \A i \in 1 .. Len(m_spans[p]) : m_spans[p][i].id[1] = p
      /\ \A p \in Proc : Len(m_spans[p]) >= 1 => m_spans[p][1].id[1] = p
  <2>1. \A p \in Proc : p # Host => m_spans[p] = << >>
    BY <1>2
  <2>2. Len(m_spans[Host]) = 1 /\ m_spans[Host][1].id[1] = Host /\ ~m_spans[Host][1].timed
    BY <1>1, <1>2, <1>3
  <2>3. Len(<< >>) = 0
    OBVIOUS
  <2>4. ASSUME NEW p \in Proc, NEW i \in 1 .. Len(m_spans[p]) PROVE p = Host /\ i = 1
    <3>1. p = Host
      BY <2>1, <2>3
    <3>2. Len(m_spans[p]) = 1
      BY <2>2, <3>1, Zenon
    <3>3. \A j \in 1 .. 1 : j = 1
      OBVIOUS
    <3> QED BY <3>1, <3>2, <3>3, Zenon
  <2>5. \A p \in Proc : Len(m_spans[p]) >= 1 => p = Host
    BY <2>1, <2>3
  <2> QED BY <2>2, <2>4, <2>5 DEF Timed
<1>5. \A p \in Proc : \A q \in Calls(p) : q \in Proc
  BY CalleesAssumption
<1>6. Reached /\ Waiting
  BY <1>1, <1>2 DEF Reached, Waiting, Started
<1>7. Origins /\ RootsAreOwn
  BY <1>4 DEF Origins, RootsAreOwn
<1>8. CallsAreOwn /\ InsertedAreReceived /\ AfterTheCall
  BY <1>2, <1>5 DEF CallsAreOwn, InsertedAreReceived, AfterTheCall
<1>9. StartsArePast /\ EndsArePast
  BY <1>4 DEF StartsArePast, EndsArePast
<1>10. \A p \in Proc : BeforeEnd(p) /\ SentBeforeReceived(p) /\ InsideCalls(p)
  BY <1>2, <1>4, <1>5 DEF BeforeEnd, SentBeforeReceived, InsideCalls
<1> QED BY <1>6, <1>7, <1>8, <1>9, <1>10 DEF TimesInv

\* One step for each action.
LEMMA NextTimes == IInv /\ IInv' /\ TimesInv /\ [Next]_vars => TimesInv'
<1> SUFFICES ASSUME IInv, IInv', TimesInv, [Next]_vars PROVE TimesInv'
  OBVIOUS
<1>1. ASSUME NEW p \in Proc, Start(p) PROVE TimesInv'
  BY <1>1, StartKeepsTimes
<1>2. ASSUME NEW p \in Proc, Finish(p) PROVE TimesInv'
  BY <1>2, FinishKeepsTimes
<1>3. ASSUME NEW p \in Proc, NEW q \in Proc,
             OpenCall(p, q) \/ Dispatch(p, q) \/ Receive(p, q) \/ InsertRemote(p, q)
      PROVE  TimesInv'
  <2>1. q \in Calls(p)
    BY <1>3 DEF OpenCall, Dispatch, Receive, InsertRemote
  <2> QED BY <1>3, <2>1, OpenKeepsTimes, DispatchKeepsTimes, ReceiveKeepsTimes,
             InsertKeepsTimes
<1>4. CASE UNCHANGED vars
  BY <1>4 DEF vars, TimesInv, Reached, Waiting, Origins, RootsAreOwn, CallsAreOwn,
              InsertedAreReceived, StartsArePast, EndsArePast, EndPast, AfterTheCall,
              BeforeEnd, SentBeforeReceived, InsideCalls, Timed, Clock
<1> QED BY <1>1, <1>2, <1>3, <1>4 DEF Next

\* The invariant on the times holds in every reachable state.
\* For every tree of calls and all clocks: what a container has received from
\* below a call lies in time behind the start of the call's span and before
\* the receipt of its result, and comes from nowhere else.
THEOREM TimesInvariance == Spec => []TimesInv
<1>1. Init => TimesInv
  BY InitTimes
<1>2. IInv /\ IInv' /\ TimesInv /\ [Next]_vars => TimesInv'
  BY NextTimes
<1> QED BY <1>1, <1>2, Invariance, PTL DEF Spec

\* Whatever the clocks of the processes show and however deep the calls go,
\* the spans that came with the result of a call (do_task, dispatcher.cpp:82,
\* with insert, tracing.hpp:153) lie between the start of the call and the time
\* its result was received.
THEOREM RemoteSpansAreInside == Spec => []RemoteInsideCall
<1>1. IInv /\ TimesInv => RemoteInsideCall
  <2> SUFFICES ASSUME IInv, TimesInv, NEW p \in Proc, NEW q \in Calls(p),
                      NEW i \in DOMAIN m_spans[p],
                      m_spans[p][i].timed, m_spans[p][i].id[1] \in Below[q]
               PROVE  /\ m_spans[p][call[q]].start_time <= m_spans[p][i].start_time
                      /\ m_spans[p][i].start_time <= m_spans[p][i].end_time
                      /\ m_spans[p][i].end_time <= received[q]
    BY DEF RemoteInsideCall
  <2>1. m_spans[p] \in Seq(Span)
    BY DEF IInv, Types
  <2>2. i \in Timed(p)
    BY <2>1 DEF Timed
  <2> QED BY <2>2 DEF TimesInv, InsideCalls
<1> QED BY <1>1, Invariance, TimesInvariance, PTL

=============================================================================
