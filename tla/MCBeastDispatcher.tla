-------------------------- MODULE MCBeastDispatcher --------------------------
\* Instances of BeastDispatcher for TLC.
EXTENDS BeastDispatcher

FirstAndLast == {0, MaxTasks - 1}
=============================================================================
