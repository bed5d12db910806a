----------------------------- MODULE MCFileServer -----------------------------
\* An instance of FileServer for TLC.
EXTENDS FileServer, TLC

\* Nothing distinguishes the threads.
Threads == Permutations(Thread)
=============================================================================
