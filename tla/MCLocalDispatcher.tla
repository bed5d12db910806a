-------------------------- MODULE MCLocalDispatcher --------------------------
\* Instances of LocalDispatcher for TLC.
EXTENDS LocalDispatcher

\* Task 0 has a one-unit result, task 1 none, every other two units.
FittingResults == [i \in Id |-> IF i < 2 THEN 1 - i ELSE 2]
\* Task 1 writes one unit more than a pipe of one unit holds.
LargeResults == [i \in Id |-> IF i = 1 THEN 2 ELSE 1]

NoTask == {}
AllTasks == Id
FirstTask == {0}
SecondTask == {1}
AllButLast == Id \ {MaxTasks - 1}
=============================================================================
