------------------------------ MODULE TcpPunch ------------------------------
(***************************************************************************)
(* TCP hole punching (utils/tcpunch.hpp) by two functions that exchange a  *)
(* number (exchange_number in examples/hole_punching.cpp and its copy in   *)
(* examples/aws).  Each peer is one thread in ioc.run(): completions run   *)
(* one at a time, in any order.  Each peer listens on the port the other   *)
(* one connects to, so that one pair of endpoints, hence at most one TCP   *)
(* connection, lies between them: it is made by one peer's SYN reaching    *)
(* the other's listener or by two SYNs that cross.  The pairing server and *)
(* the network are the environment.                                        *)
(***************************************************************************)
EXTENDS Integers

CONSTANTS
  MaxRefusals,    \* bound: connects a NAT refuses though the other listens
  MayStray,       \* peers that may fail to reach the pairing server
  MayReset        \* TRUE: the connection may break

Peer == {1, 2}
Other(p) == 3 - p

ASSUME EnvironmentAssumption == /\ MaxRefusals \in Nat
                                /\ MayStray \subseteq Peer
                                /\ MayReset \in BOOLEAN

VARIABLES
  phase,           \* [Peer -> where the peer is]
  astray,          \* peers that have an endpoint nobody can reach
  accept,          \* [Peer -> state of async_accept]
  connect,         \* [Peer -> state of async_connect of m_peer_socket]
  timer,           \* [Peer -> m_timer is waited for]
  m_connection_established,
  reported,        \* [Peer -> sockets m_callback has been given]
  ops,             \* [Peer -> the pending operations of the exchange]
  x,               \* [Peer -> handle_update calls]
  other_number,
  sum,
  link,            \* [Peer -> the socket the connection ends in]
  broken,          \* the connection was reset or closed after an error
  refusals

punchVars == <<accept, connect, timer, m_connection_established, reported>>
exchangeVars == <<ops, x, other_number, sum>>
netVars == <<link, broken, refusals>>
vars == <<phase, astray, punchVars, exchangeVars, netVars>>

All(v) == [p \in Peer |-> v]

Init == /\ phase = All("start")
        /\ astray = {}
        /\ accept = All("off")
        /\ connect = All("off")
        /\ timer = All(FALSE)
        /\ m_connection_established = All(FALSE)
        /\ reported = All({})
        /\ ops = All({})
        /\ x = All(0)
        /\ other_number = All(0)
        /\ sum = All(0)
        /\ link = All("none")
        /\ broken = FALSE
        /\ refusals = 0

To(p, ph) == phase' = [phase EXCEPT ![p] = ph]

-----------------------------------------------------------------------------
(* Pairing: the server tells each peer the endpoints of both as soon as both *)
(* have sent the same name.                                                  *)

\* handle_connect and handle_pairing_name_send.
SendName(p) == /\ phase[p] = "start"
               /\ To(p, "named")
               /\ UNCHANGED <<astray, punchVars, exchangeVars, netVars>>

\* handle_resolve with an error: nothing is left to do and run() returns.
ResolveFails(p) == /\ p \in MayStray
                   /\ phase[p] = "start"
                   /\ To(p, "returned")
                   /\ astray' = astray \union {p}
                   /\ UNCHANGED <<punchVars, exchangeVars, netVars>>

\* handle_peer_conn_recv: bind, then start_peer_listen with async_accept.
Listen(p) == /\ phase[p] = "named"
             /\ \A q \in Peer : phase[q] # "start" /\ q \notin astray
             /\ To(p, "listening")
             /\ accept' = [accept EXCEPT ![p] = "pending"]
             /\ UNCHANGED <<astray, connect, timer, m_connection_established,
                            reported, exchangeVars, netVars>>

\* Nobody looks at the error codes of pairing: after a failure the peer goes
\* on with the endpoints m_public_info and m_peer_conn happen to hold.
ListenAstray(p) == /\ p \in MayStray
                   /\ phase[p] \in {"start", "named"}
                   /\ To(p, "listening")
                   /\ astray' = astray \union {p}
                   /\ accept' = [accept EXCEPT ![p] = "pending"]
                   /\ UNCHANGED <<connect, timer, m_connection_established,
                                  reported, exchangeVars, netVars>>

-----------------------------------------------------------------------------
(* The race of accepting and connecting. *)

\* A pair of endpoints that is in use already cannot be connected again.
StartConnect(p) ==
  connect' = [connect EXCEPT ![p] = IF link[p] = "none" THEN "pending"
                                    ELSE "failed"]

\* Faulty variant: try_connect does not look at m_connection_established.
TryConnectAlways(p) == StartConnect(p)

TryConnect(p) == IF m_connection_established[p] THEN UNCHANGED connect
                 ELSE StartConnect(p)

\* The end of handle_peer_conn_recv.
FirstTry(p) == /\ phase[p] = "listening"
               /\ To(p, "running")
               /\ TryConnect(p)
               /\ UNCHANGED <<astray, accept, timer, m_connection_established,
                              reported, exchangeVars, netVars>>

\* The retry timer has expired or was cancelled: its handler ignores which.
OnTimer(p) == /\ phase[p] = "running"
              /\ timer[p]
              /\ timer' = [timer EXCEPT ![p] = FALSE]
              /\ TryConnect(p)
              /\ UNCHANGED <<phase, astray, accept, m_connection_established,
                             reported, exchangeVars, netVars>>

\* m_callback, which is handle_connect of exchange_number: the number is
\* written and the other one's read.
Established(p, s) ==
  /\ m_connection_established' = [m_connection_established EXCEPT ![p] = TRUE]
  /\ reported' = [reported EXCEPT ![p] = @ \union {s}]
  /\ ops' = [ops EXCEPT ![p] = {"send", "rcv"}]
  /\ UNCHANGED <<x, other_number, sum>>

\* Faulty variant: the cancelled accept is taken for an accepted peer.
HandlePeerAcceptAnyCode(p) ==
  /\ phase[p] = "running"
  /\ accept[p] \in {"ok", "aborted"}
  /\ accept' = [accept EXCEPT ![p] = "off"]
  /\ Established(p, "in")
  /\ UNCHANGED <<phase, astray, connect, timer, netVars>>

\* handle_peer_accept.  An accept fails only because it was cancelled, which
\* happens only after m_connection_established is set.  m_timer.cancel() brings
\* OnTimer forward and changes nothing else.
HandlePeerAccept(p) ==
  /\ phase[p] = "running"
  /\ accept[p] \in {"ok", "aborted"}
  /\ accept' = [accept EXCEPT ![p] = "off"]
  /\ IF m_connection_established[p]
     THEN UNCHANGED <<m_connection_established, reported, exchangeVars>>
     ELSE Established(p, "in")
  /\ UNCHANGED <<phase, astray, connect, timer, netVars>>

\* handle_peer_connect with an error.
HandlePeerConnectFails(p) ==
  /\ phase[p] = "running"
  /\ connect[p] = "failed"
  /\ connect' = [connect EXCEPT ![p] = "off"]
  /\ timer' = [timer EXCEPT ![p] = TRUE]
  /\ UNCHANGED <<phase, astray, accept, m_connection_established, reported,
                 exchangeVars, netVars>>

\* Faulty variants: the error code is ignored, as in the handlers of pairing;
\* the acceptor is not cancelled.
HandlePeerConnectAnyCode(p) ==
  /\ phase[p] = "running"
  /\ connect[p] \in {"ok", "failed"}
  /\ ~m_connection_established[p]
  /\ connect' = [connect EXCEPT ![p] = "off"]
  /\ Established(p, "out")
  /\ accept' = [accept EXCEPT ![p] = IF @ = "pending" THEN "aborted" ELSE @]
  /\ UNCHANGED <<phase, astray, timer, netVars>>
HandlePeerConnectKeepsAccept(p) ==
  /\ phase[p] = "running"
  /\ connect[p] = "ok"
  /\ connect' = [connect EXCEPT ![p] = "off"]
  /\ Established(p, "out")
  /\ UNCHANGED <<phase, astray, accept, timer, netVars>>

\* handle_peer_connect without an error: report, and cancel the accept.
HandlePeerConnect(p) ==
  /\ phase[p] = "running"
  /\ connect[p] = "ok"
  /\ connect' = [connect EXCEPT ![p] = "off"]
  /\ IF m_connection_established[p]
     THEN UNCHANGED <<accept, m_connection_established, reported, exchangeVars>>
     ELSE /\ Established(p, "out")
          /\ accept' = [accept EXCEPT ![p] = IF @ = "pending" THEN "aborted"
                                             ELSE @]
  /\ UNCHANGED <<phase, astray, timer, netVars>>

-----------------------------------------------------------------------------
(* The exchange.  A peer's number is the peer. *)

\* handle_update, the sum when both operations are done, and close.
HandleUpdate(p, number) ==
  /\ x' = [x EXCEPT ![p] = @ + 1]
  /\ sum' = [sum EXCEPT ![p] = IF x[p] + 1 >= 2 THEN number + p ELSE @]

HandleSend(p) == /\ phase[p] = "running"
                 /\ "send" \in ops[p]
                 /\ ops' = [ops EXCEPT ![p] = @ \ {"send"}]
                 /\ HandleUpdate(p, other_number[p])
                 /\ UNCHANGED <<phase, astray, punchVars, other_number, netVars>>

\* The other peer has started its write, which is what fills the read.
HandleRcv(p) ==
  /\ phase[p] = "running"
  /\ "rcv" \in ops[p]
  /\ reported[Other(p)] # {}
  /\ ops' = [ops EXCEPT ![p] = @ \ {"rcv"}]
  /\ other_number' = [other_number EXCEPT ![p] = Other(p)]
  /\ HandleUpdate(p, Other(p))
  /\ UNCHANGED <<phase, astray, punchVars, netVars>>

\* An operation fails: close ends the other operation and the connection.
HandleError(p) == /\ phase[p] = "running"
                  /\ broken
                  /\ ops[p] # {}
                  /\ ops' = [ops EXCEPT ![p] = {}]
                  /\ UNCHANGED <<phase, astray, punchVars, x, other_number, sum,
                                 netVars>>

\* run() has nothing left to wait for; the sum is returned.
Return(p) == /\ phase[p] = "running"
             /\ accept[p] = "off" /\ connect[p] = "off" /\ ~timer[p]
             /\ ops[p] = {}
             /\ To(p, "returned")
             /\ UNCHANGED <<astray, punchVars, exchangeVars, netVars>>

-----------------------------------------------------------------------------
(* The network. *)

Listening(p) == phase[p] \in {"listening", "running"}

\* p's SYN reaches the other peer: its connecting socket, if it has sent a SYN
\* itself, or else its listener.
Arrive(p) ==
  LET q == Other(p)
      s == IF connect[q] = "pending" THEN "out" ELSE "in" IN
  /\ connect[p] = "pending"
  /\ Listening(q) /\ astray = {}
  /\ link' = [link EXCEPT ![p] = "out", ![q] = s]
  /\ connect' = [r \in Peer |-> IF connect[r] = "pending" THEN "ok"
                                ELSE connect[r]]
  /\ accept' = [accept EXCEPT ![q] = IF s = "in" THEN "ok" ELSE @]
  /\ UNCHANGED <<phase, astray, timer, m_connection_established, reported,
                 exchangeVars, broken, refusals>>

\* p's SYN is refused: by a NAT, or because the other peer does not listen.
Refuse(p) ==
  /\ connect[p] = "pending"
  /\ \/ /\ Listening(Other(p)) /\ astray = {}
        /\ refusals < MaxRefusals
        /\ refusals' = refusals + 1
     \/ /\ ~Listening(Other(p)) \/ astray # {}
        /\ UNCHANGED refusals
  /\ connect' = [connect EXCEPT ![p] = "failed"]
  /\ UNCHANGED <<phase, astray, accept, timer, m_connection_established,
                 reported, exchangeVars, link, broken>>

Reset == /\ MayReset
         /\ link # All("none")
         /\ ~broken
         /\ broken' = TRUE
         /\ UNCHANGED <<phase, astray, punchVars, exchangeVars, link, refusals>>

-----------------------------------------------------------------------------
Handler(p) == \/ SendName(p) \/ Listen(p) \/ FirstTry(p) \/ OnTimer(p)
              \/ HandlePeerAccept(p) \/ HandlePeerConnectFails(p)
              \/ HandlePeerConnect(p)
              \/ HandleSend(p) \/ HandleRcv(p) \/ HandleError(p)
              \/ Return(p)

Network(p) == Arrive(p) \/ Refuse(p)

\* Both have returned, or one waits for a name nobody will send.
Ended == /\ \E p \in Peer : phase[p] = "returned"
         /\ \A p \in Peer : phase[p] = "returned" \/ Other(p) \in astray
         /\ UNCHANGED vars

Next == \/ \E p \in Peer : \/ Handler(p) \/ Network(p)
                           \/ ResolveFails(p) \/ ListenAstray(p)
        \/ Reset
        \/ Ended

\* Each thread runs, in turn, all that has completed; a SYN is answered; timers
\* expire.
Spec == /\ Init /\ [][Next]_vars
        /\ \A p \in Peer : /\ WF_vars(Handler(p))
                           /\ WF_vars(HandlePeerAccept(p))
                           /\ WF_vars(Network(p))

-----------------------------------------------------------------------------
(* Properties. *)

TypeOK ==
  /\ phase \in [Peer -> {"start", "named", "listening", "running", "returned"}]
  /\ astray \subseteq Peer
  /\ accept \in [Peer -> {"off", "pending", "ok", "aborted"}]
  /\ connect \in [Peer -> {"off", "pending", "ok", "failed"}]
  /\ timer \in [Peer -> BOOLEAN]
  /\ m_connection_established \in [Peer -> BOOLEAN]
  /\ reported \in [Peer -> SUBSET {"in", "out"}]
  /\ ops \in [Peer -> SUBSET {"send", "rcv"}]
  /\ x \in [Peer -> 0 .. 2]
  /\ other_number \in [Peer -> 0 .. 2]
  /\ sum \in [Peer -> 0 .. 3]
  /\ link \in [Peer -> {"none", "in", "out"}]
  /\ broken \in BOOLEAN
  /\ refusals \in 0 .. MaxRefusals

\* Whoever wins the races, the socket a peer hands to the callback is the one
\* the connection ends in, and the other one is never handed out as well.
SameConnection == \A p \in Peer : reported[p] \subseteq {link[p]} \ {"none"}

\* The parts of the inductive invariant.  A connection has two ends; the sockets
\* that completions carry are the one it ends in.
TwoEnds == \A p \in Peer : link[p] # "none" => link[Other(p)] # "none"

SocketsAreEnds == \A p \in Peer : /\ connect[p] = "pending" => link[p] = "none"
                                  /\ connect[p] = "ok" => link[p] = "out"
                                  /\ accept[p] = "ok" => link[p] = "in"

\* The flag is set with the one report; only then is the accept cancelled and
\* does the exchange begin.
FlagIsSet == \A p \in Peer :
  /\ m_connection_established[p] <=> reported[p] # {}
  /\ accept[p] = "aborted" => m_connection_established[p]
  /\ ~m_connection_established[p] => ops[p] = {} /\ x[p] = 0

\* handle_update is called at most once for each of the two operations.
UpdatesLeft == \A p \in Peer :
  x[p] + (IF "send" \in ops[p] THEN 1 ELSE 0)
       + (IF "rcv" \in ops[p] THEN 1 ELSE 0) <= 2

NumbersKnown == \A p \in Peer : /\ other_number[p] \in {0, Other(p)}
                                /\ sum[p] \in {0, p, 3}

IInv == /\ TypeOK /\ SameConnection /\ TwoEnds /\ SocketsAreEnds
        /\ FlagIsSet /\ UpdatesLeft /\ NumbersKnown

\* Both peers return, each with the sum of both numbers, unless one of them
\* missed the pairing or the connection broke.
BothReturnTheSum ==
  \A p \in Peer : phase[p] = "start" ~>
     \/ phase[p] = "returned" /\ sum[p] = 3
     \/ astray # {}
     \/ broken
=============================================================================
