--------------------------- MODULE TcpPunchProofs ---------------------------
(***************************************************************************)
(* However the completions of the two peers, their SYNs and the refusals   *)
(* of the NATs interleave, the socket a peer hands to its callback is the  *)
(* one the connection ends in.  The argument is about the connection, not  *)
(* about the peer: it has two ends or none, an attempt that is pending     *)
(* means that there is none yet, and a completion names its end.  That the *)
(* flag is set with the one report then rules the other socket out.        *)
(***************************************************************************)
EXTENDS TcpPunch, TLAPS

USE DEF Peer, Other, All, To, punchVars, exchangeVars, netVars

LEMMA InitInvariant == Init => IInv
<1> SUFFICES ASSUME Init PROVE IInv
  OBVIOUS
<1>1. TypeOK
  <2>1. 0 \in 0 .. MaxRefusals /\ 0 \in 0 .. 2 /\ 0 \in 0 .. 3
    BY EnvironmentAssumption
  <2> QED BY <2>1 DEF Init, TypeOK
<1>2. SameConnection /\ TwoEnds /\ SocketsAreEnds
  BY DEF Init, SameConnection, TwoEnds, SocketsAreEnds
<1>3. FlagIsSet /\ UpdatesLeft /\ NumbersKnown
  BY DEF Init, FlagIsSet, UpdatesLeft, NumbersKnown
<1> QED BY <1>1, <1>2, <1>3 DEF IInv

-----------------------------------------------------------------------------
(* What several actions share. *)

\* A step of the pairing changes neither sockets nor the exchange.
LEMMA QuietStep ==
  ASSUME IInv, TypeOK', NEW p \in Peer,
         accept' = accept \/ accept' = [accept EXCEPT ![p] = "pending"],
         UNCHANGED <<connect, m_connection_established, reported,
                     exchangeVars, link>>
  PROVE  IInv'
<1> USE DEF IInv
<1>1. \A q \in Peer : accept'[q] = accept[q] \/ accept'[q] = "pending"
  BY DEF TypeOK
<1>2. SameConnection' /\ TwoEnds'
  BY DEF SameConnection, TwoEnds
<1>3. SocketsAreEnds'
  BY <1>1 DEF SocketsAreEnds
<1>4. FlagIsSet'
  BY <1>1 DEF FlagIsSet
<1>5. UpdatesLeft' /\ NumbersKnown'
  BY DEF UpdatesLeft, NumbersKnown
<1> QED BY <1>2, <1>3, <1>4, <1>5

\* A first or repeated attempt to connect is pending only while there is no
\* connection.
LEMMA TryKeepsInvariant ==
  ASSUME IInv, NEW p \in Peer, TryConnect(p),
         phase' \in [Peer -> {"start", "named", "listening", "running",
                              "returned"}],
         timer' \in [Peer -> BOOLEAN],
         UNCHANGED <<astray, accept, m_connection_established, reported,
                     exchangeVars, netVars>>
  PROVE  IInv'
<1> USE DEF IInv
<1>1. connect' \in [Peer -> {"off", "pending", "ok", "failed"}]
  BY DEF TryConnect, StartConnect, TypeOK
<1>2. \A q \in Peer : \/ connect'[q] = connect[q]
                      \/ connect'[q] = "pending" /\ link[q] = "none"
                      \/ connect'[q] = "failed"
  BY DEF TryConnect, StartConnect, TypeOK
<1>3. TypeOK'
  BY <1>1 DEF TypeOK
<1>4. SameConnection' /\ TwoEnds'
  BY DEF SameConnection, TwoEnds
<1>5. SocketsAreEnds'
  BY <1>2 DEF SocketsAreEnds
<1>6. FlagIsSet' /\ UpdatesLeft' /\ NumbersKnown'
  BY DEF FlagIsSet, UpdatesLeft, NumbersKnown
<1> QED BY <1>3, <1>4, <1>5, <1>6

\* The one report of a peer names the end of the connection; its exchange
\* begins with two operations.
LEMMA ReportKeepsInvariant ==
  ASSUME IInv, NEW p \in Peer, ~m_connection_established[p],
         NEW s \in {"in", "out"}, link[p] = s, Established(p, s),
         accept' \in [Peer -> {"off", "pending", "ok", "aborted"}],
         connect' \in [Peer -> {"off", "pending", "ok", "failed"}],
         \A q \in Peer : \/ accept'[q] = accept[q] \/ accept'[q] = "off"
                         \/ q = p /\ accept'[q] = "aborted",
         \A q \in Peer : connect'[q] = connect[q] \/ connect'[q] = "off",
         UNCHANGED <<phase, astray, timer, netVars>>
  PROVE  IInv'
<1> USE DEF IInv
<1>1. /\ x[p] = 0 /\ reported[p] = {}
      /\ m_connection_established' =
           [m_connection_established EXCEPT ![p] = TRUE]
      /\ reported' = [reported EXCEPT ![p] = @ \union {s}]
      /\ ops' = [ops EXCEPT ![p] = {"send", "rcv"}]
      /\ UNCHANGED <<x, other_number, sum>>
  BY DEF Established, FlagIsSet
<1>2. TypeOK'
  <2>1. /\ m_connection_established' \in [Peer -> BOOLEAN]
        /\ reported' \in [Peer -> SUBSET {"in", "out"}]
        /\ ops' \in [Peer -> SUBSET {"send", "rcv"}]
    BY <1>1 DEF TypeOK
  <2> QED BY <1>1, <2>1 DEF TypeOK
<1>3. \A q \in Peer : /\ q # p => reported'[q] = reported[q]
                      /\ q = p => reported'[q] = {s}
  BY <1>1 DEF TypeOK
<1>4. SameConnection' /\ TwoEnds'
  BY <1>3 DEF SameConnection, TwoEnds
<1>5. SocketsAreEnds'
  BY DEF SocketsAreEnds
<1>6. FlagIsSet'
  <2>1. m_connection_established'[p] /\ reported'[p] # {}
    BY <1>1, <1>3 DEF TypeOK
  <2>2. ASSUME NEW q \in Peer, q # p
        PROVE  /\ m_connection_established'[q] = m_connection_established[q]
               /\ ops'[q] = ops[q] /\ x'[q] = x[q]
               /\ reported'[q] = reported[q]
               /\ accept'[q] = accept[q] \/ accept'[q] = "off"
    BY <1>1, <1>3, <2>2 DEF TypeOK
  <2> SUFFICES ASSUME NEW q \in Peer
               PROVE  /\ m_connection_established'[q] <=> reported'[q] # {}
                      /\ accept'[q] = "aborted" => m_connection_established'[q]
                      /\ ~m_connection_established'[q] =>
                            ops'[q] = {} /\ x'[q] = 0
    BY DEF FlagIsSet
  <2>3. CASE q = p
    BY <2>1, <2>3, Zenon
  <2>4. CASE q # p
    BY <2>2, <2>4, Zenon DEF FlagIsSet
  <2> QED BY <2>3, <2>4
<1>7. UpdatesLeft'
  <2>1. \A q \in Peer : ops'[q] = IF q = p THEN {"send", "rcv"} ELSE ops[q]
    BY <1>1 DEF TypeOK
  <2> QED BY <1>1, <2>1 DEF UpdatesLeft
<1>8. NumbersKnown'
  BY <1>1 DEF NumbersKnown
<1> QED BY <1>2, <1>4, <1>5, <1>6, <1>7, <1>8

\* A completion that finds the flag set is dropped with its socket.
LEMMA DropKeepsInvariant ==
  ASSUME IInv, TypeOK',
         \A q \in Peer : accept'[q] = accept[q] \/ accept'[q] = "off",
         \A q \in Peer : connect'[q] = connect[q] \/ connect'[q] = "off",
         UNCHANGED <<m_connection_established, reported, exchangeVars, link>>
  PROVE  IInv'
<1> USE DEF IInv
<1>1. SameConnection' /\ TwoEnds'
  BY DEF SameConnection, TwoEnds
<1>2. SocketsAreEnds' /\ FlagIsSet'
  BY DEF SocketsAreEnds, FlagIsSet
<1>3. UpdatesLeft' /\ NumbersKnown'
  BY DEF UpdatesLeft, NumbersKnown
<1> QED BY <1>1, <1>2, <1>3

\* An operation of the exchange completes.
LEMMA UpdateKeepsInvariant ==
  ASSUME IInv, NEW p \in Peer, NEW op \in {"send", "rcv"}, op \in ops[p],
         NEW number \in {0, Other(p)}, HandleUpdate(p, number),
         ops' = [ops EXCEPT ![p] = @ \ {op}],
         other_number' = [other_number EXCEPT ![p] = number],
         UNCHANGED <<phase, astray, punchVars, netVars>>
  PROVE  IInv'
<1> USE DEF IInv
<1>1. /\ x[p] \in 0 .. 2 /\ x[p] <= 1
      /\ m_connection_established[p]
  BY DEF TypeOK, UpdatesLeft, FlagIsSet
<1>2. \A q \in Peer :
        /\ ops'[q] = IF q = p THEN ops[q] \ {op} ELSE ops[q]
        /\ x'[q] = IF q = p THEN x[q] + 1 ELSE x[q]
        /\ other_number'[q] = IF q = p THEN number ELSE other_number[q]
        /\ \/ sum'[q] = sum[q]
           \/ q = p /\ sum'[q] = number + p
  BY DEF HandleUpdate, TypeOK
<1>3. NumbersKnown'
  BY <1>2 DEF NumbersKnown
<1>4. TypeOK'
  <2>1. ops' \in [Peer -> SUBSET {"send", "rcv"}]
    BY DEF TypeOK
  <2>2. x' \in [Peer -> 0 .. 2]
    BY <1>1, <1>2 DEF HandleUpdate, TypeOK
  <2>3. other_number' \in [Peer -> 0 .. 2]
    BY DEF TypeOK
  <2>4. sum' \in [Peer -> 0 .. 3]
    BY <1>2, <1>3 DEF NumbersKnown, HandleUpdate, TypeOK
  <2> QED BY <2>1, <2>2, <2>3, <2>4 DEF TypeOK
<1>5. SameConnection' /\ TwoEnds' /\ SocketsAreEnds'
  BY DEF SameConnection, TwoEnds, SocketsAreEnds
<1>6. FlagIsSet'
  BY <1>1, <1>2 DEF FlagIsSet
<1>7. UpdatesLeft'
  <2> SUFFICES ASSUME NEW q \in Peer
               PROVE  x'[q] + (IF "send" \in ops'[q] THEN 1 ELSE 0)
                            + (IF "rcv" \in ops'[q] THEN 1 ELSE 0) <= 2
    BY DEF UpdatesLeft
  <2>1. x[q] \in 0 .. 2
    BY DEF TypeOK
  <2>2. x[q] + (IF "send" \in ops[q] THEN 1 ELSE 0)
             + (IF "rcv" \in ops[q] THEN 1 ELSE 0) <= 2
    BY DEF UpdatesLeft
  <2>3. CASE q = p /\ op = "send"
    BY <1>2, <2>1, <2>2, <2>3
  <2>4. CASE q = p /\ op = "rcv"
    BY <1>2, <2>1, <2>2, <2>4
  <2>5. CASE q # p
    BY <1>2, <2>2, <2>5
  <2> QED BY <2>3, <2>4, <2>5
<1> QED BY <1>3, <1>4, <1>5, <1>6, <1>7

-----------------------------------------------------------------------------
(* The invariant is inductive: one step for each action. *)

LEMMA HandlerInvariant ==
  ASSUME IInv, NEW p \in Peer, Handler(p)
  PROVE  IInv'
<1> USE DEF IInv
<1>1. CASE SendName(p)
  <2>1. TypeOK'
    BY <1>1 DEF SendName, TypeOK
  <2> QED BY <1>1, <2>1, QuietStep DEF SendName
<1>2. CASE Listen(p)
  <2>1. TypeOK'
    BY <1>2 DEF Listen, TypeOK
  <2> QED BY <1>2, <2>1, QuietStep DEF Listen
<1>3. CASE FirstTry(p)
  <2>1. phase' \in [Peer -> {"start", "named", "listening", "running",
                             "returned"}]
    BY <1>3 DEF FirstTry, TypeOK
  <2> QED BY <1>3, <2>1, TryKeepsInvariant DEF FirstTry, TypeOK
<1>4. CASE OnTimer(p)
  <2>1. timer' \in [Peer -> BOOLEAN]
    BY <1>4 DEF OnTimer, TypeOK
  <2> QED BY <1>4, <2>1, TryKeepsInvariant DEF OnTimer, TypeOK
<1>5. CASE HandlePeerAccept(p)
  <2>1. /\ accept' \in [Peer -> {"off", "pending", "ok", "aborted"}]
        /\ \A q \in Peer : accept'[q] = IF q = p THEN "off" ELSE accept[q]
    BY <1>5 DEF HandlePeerAccept, TypeOK
  <2>2. CASE m_connection_established[p]
    <3>1. TypeOK'
      BY <1>5, <2>1, <2>2 DEF HandlePeerAccept, TypeOK
    <3> QED BY <1>5, <2>1, <2>2, <3>1, DropKeepsInvariant DEF HandlePeerAccept
  <2>3. CASE ~m_connection_established[p]
    <3>1. link[p] = "in" /\ Established(p, "in")
      BY <1>5, <2>3 DEF HandlePeerAccept, SocketsAreEnds, FlagIsSet
    <3>2. connect' \in [Peer -> {"off", "pending", "ok", "failed"}]
      BY <1>5 DEF HandlePeerAccept, TypeOK
    <3> QED BY <1>5, <2>1, <2>3, <3>1, <3>2, ReportKeepsInvariant
            DEF HandlePeerAccept
  <2> QED BY <2>2, <2>3
<1>6. CASE HandlePeerConnectFails(p)
  <2>1. /\ connect' \in [Peer -> {"off", "pending", "ok", "failed"}]
        /\ \A q \in Peer : connect'[q] = IF q = p THEN "off" ELSE connect[q]
    BY <1>6 DEF HandlePeerConnectFails, TypeOK
  <2>2. TypeOK'
    BY <1>6, <2>1 DEF HandlePeerConnectFails, TypeOK
  <2> QED BY <1>6, <2>1, <2>2, DropKeepsInvariant DEF HandlePeerConnectFails
<1>7. CASE HandlePeerConnect(p)
  <2>1. /\ connect' \in [Peer -> {"off", "pending", "ok", "failed"}]
        /\ \A q \in Peer : connect'[q] = IF q = p THEN "off" ELSE connect[q]
    BY <1>7 DEF HandlePeerConnect, TypeOK
  <2>2. CASE m_connection_established[p]
    <3>1. TypeOK'
      BY <1>7, <2>1, <2>2 DEF HandlePeerConnect, TypeOK
    <3> QED BY <1>7, <2>1, <2>2, <3>1, DropKeepsInvariant DEF HandlePeerConnect
  <2>3. CASE ~m_connection_established[p]
    <3>1. link[p] = "out" /\ Established(p, "out")
      BY <1>7, <2>3 DEF HandlePeerConnect, SocketsAreEnds
    <3>2. /\ accept' \in [Peer -> {"off", "pending", "ok", "aborted"}]
          /\ \A q \in Peer : \/ accept'[q] = accept[q]
                             \/ q = p /\ accept'[q] = "aborted"
      BY <1>7, <2>3 DEF HandlePeerConnect, TypeOK
    <3> QED BY <1>7, <2>1, <2>3, <3>1, <3>2, ReportKeepsInvariant
            DEF HandlePeerConnect
  <2> QED BY <2>2, <2>3
<1>8. CASE HandleSend(p)
  <2>1. /\ other_number[p] \in {0, Other(p)}
        /\ other_number' = [other_number EXCEPT ![p] = other_number[p]]
    BY <1>8 DEF HandleSend, NumbersKnown, TypeOK
  <2> QED BY <1>8, <2>1, UpdateKeepsInvariant DEF HandleSend
<1>9. CASE HandleRcv(p)
  BY <1>9, UpdateKeepsInvariant DEF HandleRcv
<1>10. CASE HandleError(p)
  <2>1. \A q \in Peer : ops'[q] = IF q = p THEN {} ELSE ops[q]
    BY <1>10 DEF HandleError, TypeOK
  <2>2. TypeOK'
    BY <1>10 DEF HandleError, TypeOK
  <2>3. SameConnection' /\ TwoEnds' /\ SocketsAreEnds' /\ NumbersKnown'
    BY <1>10 DEF HandleError, SameConnection, TwoEnds, SocketsAreEnds,
                 NumbersKnown
  <2>4. FlagIsSet'
    BY <1>10, <2>1 DEF HandleError, FlagIsSet
  <2>5. UpdatesLeft'
    BY <1>10, <2>1 DEF HandleError, UpdatesLeft, TypeOK
  <2> QED BY <2>2, <2>3, <2>4, <2>5
<1>11. CASE Return(p)
  <2>1. TypeOK'
    BY <1>11 DEF Return, TypeOK
  <2> QED BY <1>11, <2>1, QuietStep DEF Return
<1> QED BY <1>1, <1>2, <1>3, <1>4, <1>5, <1>6, <1>7, <1>8, <1>9, <1>10, <1>11
        DEF Handler

\* A SYN that arrives finds no connection, so neither peer has reported one; it
\* makes both ends.
LEMMA ArriveInvariant ==
  ASSUME IInv, NEW p \in Peer, Arrive(p)
  PROVE  IInv'
<1> USE DEF IInv
<1> DEFINE q == Other(p)
           s == IF connect[q] = "pending" THEN "out" ELSE "in"
<1>1. /\ q \in Peer /\ q # p /\ \A r \in Peer : r = p \/ r = q
      /\ connect[p] = "pending"
      /\ link' = [link EXCEPT ![p] = "out", ![q] = s]
      /\ connect' = [r \in Peer |-> IF connect[r] = "pending" THEN "ok"
                                    ELSE connect[r]]
      /\ accept' = [accept EXCEPT ![q] = IF s = "in" THEN "ok" ELSE @]
      /\ UNCHANGED <<phase, astray, timer, m_connection_established, reported,
                     exchangeVars, broken, refusals>>
  BY DEF Arrive
<1>2. link[p] = "none" /\ link[q] = "none"
  BY <1>1 DEF SocketsAreEnds, TwoEnds
<1>3. \A r \in Peer : /\ reported[r] = {} /\ ~m_connection_established[r]
                      /\ connect[r] # "ok"
                      /\ accept[r] # "ok" /\ accept[r] # "aborted"
  BY <1>1, <1>2 DEF SameConnection, FlagIsSet, SocketsAreEnds, TypeOK
<1>4. /\ link'[p] = "out" /\ link'[q] = s
      /\ connect'[p] = "ok"
      /\ connect'[q] = IF s = "out" THEN "ok" ELSE connect[q]
      /\ accept'[p] = accept[p]
      /\ accept'[q] = IF s = "in" THEN "ok" ELSE accept[q]
  BY <1>1 DEF TypeOK
<1>5. TypeOK'
  BY <1>1 DEF TypeOK
<1>6. TwoEnds'
  BY <1>1, <1>4 DEF TwoEnds
<1>7. SocketsAreEnds'
  BY <1>1, <1>3, <1>4 DEF SocketsAreEnds
<1>8. SameConnection' /\ FlagIsSet'
  BY <1>1, <1>3, <1>4 DEF SameConnection, FlagIsSet
<1>9. UpdatesLeft' /\ NumbersKnown'
  BY <1>1 DEF UpdatesLeft, NumbersKnown
<1> QED BY <1>5, <1>6, <1>7, <1>8, <1>9

LEMMA NextInvariant == IInv /\ [Next]_vars => IInv'
<1> SUFFICES ASSUME IInv, [Next]_vars PROVE IInv'
  OBVIOUS
<1> USE DEF IInv
<1>1. ASSUME NEW p \in Peer, Refuse(p) PROVE IInv'
  <2>1. \A q \in Peer : connect'[q] = IF q = p THEN "failed" ELSE connect[q]
    BY <1>1 DEF Refuse, TypeOK
  <2>2. TypeOK'
    <3>1. refusals' \in 0 .. MaxRefusals
      BY <1>1, EnvironmentAssumption DEF Refuse, TypeOK
    <3>2. connect' \in [Peer -> {"off", "pending", "ok", "failed"}]
      BY <1>1 DEF Refuse, TypeOK
    <3> QED BY <1>1, <3>1, <3>2 DEF Refuse, TypeOK
  <2>3. SameConnection' /\ TwoEnds' /\ FlagIsSet'
    BY <1>1 DEF Refuse, SameConnection, TwoEnds, FlagIsSet
  <2>4. SocketsAreEnds'
    BY <1>1, <2>1 DEF Refuse, SocketsAreEnds
  <2>5. UpdatesLeft' /\ NumbersKnown'
    BY <1>1 DEF Refuse, UpdatesLeft, NumbersKnown
  <2> QED BY <2>2, <2>3, <2>4, <2>5
<1>2. ASSUME NEW p \in Peer, ResolveFails(p) PROVE IInv'
  <2>1. TypeOK'
    BY <1>2 DEF ResolveFails, TypeOK
  <2> QED BY <1>2, <2>1, QuietStep DEF ResolveFails
<1>3. ASSUME NEW p \in Peer, ListenAstray(p) PROVE IInv'
  <2>1. TypeOK'
    BY <1>3 DEF ListenAstray, TypeOK
  <2> QED BY <1>3, <2>1, QuietStep DEF ListenAstray
<1>4. CASE Reset
  <2>1. TypeOK'
    BY <1>4 DEF Reset, TypeOK
  <2> QED BY <1>4, <2>1, DropKeepsInvariant DEF Reset
<1>5. CASE Ended \/ UNCHANGED vars
  <2>1. UNCHANGED vars
    BY <1>5 DEF Ended
  <2>2. TypeOK'
    BY <2>1 DEF vars, TypeOK
  <2> QED BY <2>1, <2>2, DropKeepsInvariant DEF vars
<1>6. \A p \in Peer : Handler(p) \/ Arrive(p) => IInv'
  BY HandlerInvariant, ArriveInvariant
<1> QED BY <1>1, <1>2, <1>3, <1>4, <1>5, <1>6 DEF Next, Network

-----------------------------------------------------------------------------
(* The theorems. *)

\* The invariant holds in every reachable state.
THEOREM Invariance == Spec => []IInv
<1>1. Init => IInv
  BY InitInvariant
<1>2. IInv /\ [Next]_vars => IInv'
  BY NextInvariant
<1> QED BY <1>1, <1>2, PTL DEF Spec

\* Every reachable state is well typed: in particular handle_update runs at
\* most twice in a peer and no sum but that of both numbers, or of one and the
\* initial 0, is ever written.
THEOREM TypeCorrect == Spec => []TypeOK
<1>1. IInv => TypeOK
  BY DEF IInv
<1> QED BY <1>1, Invariance, PTL

\* The socket given to m_callback by handle_peer_accept or handle_peer_connect
\* is the end of the connection, and the other socket is never given as well,
\* for any number of refusals.
THEOREM ReportsTheConnection == Spec => []SameConnection
<1>1. IInv => SameConnection
  BY DEF IInv
<1> QED BY <1>1, Invariance, PTL
=============================================================================
