------------------------- MODULE MCNghttp2Dispatcher -------------------------
\* Instances of Nghttp2Dispatcher for TLC.
EXTENDS Nghttp2Dispatcher

LastTask == {MaxTasks - 1}
LastConn == {NumConns - 1}
=============================================================================
