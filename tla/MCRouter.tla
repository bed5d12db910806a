------------------------------- MODULE MCRouter -------------------------------
\* An instance of Router for TLC.
EXTENDS Router, TLC

CONSTANTS a, b, c

\* The names of patterns are compared with each other and nothing else.
Renamings == Permutations(Names)
=============================================================================
