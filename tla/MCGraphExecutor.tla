--------------------------- MODULE MCGraphExecutor ---------------------------
\* Instances of GraphExecutor for TLC.
EXTENDS GraphExecutor

Unset == {"empty"}
SeededOrUnset == {"seed", "empty"}
=============================================================================
