------------------------------ MODULE MCTcpPunch ------------------------------
\* An instance of TcpPunch for TLC.
EXTENDS TcpPunch

FirstPeer == {1}
=============================================================================
