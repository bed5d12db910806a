----------------------------- MODULE MCHttp2Client -----------------------------
\* An instance of Http2Client for TLC.
EXTENDS Http2Client

LastRequest == {n - 1}
=============================================================================
