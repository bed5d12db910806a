------------------------------- MODULE MCTracing -------------------------------
\* An instance of Tracing for TLC: do_task(3), which calls do_task(2) and
\* do_task(1); the first of these makes two calls itself.
EXTENDS Tracing

Processes == 0 .. 4
CallTree == [p \in Processes |-> CASE p = 0 -> <<1, 2>> [] p = 1 -> <<3, 4>>
                                   [] OTHER -> <<>>]
Skews == [p \in Processes |-> CASE p = 0 -> 0 [] p = 1 -> 70 [] p = 2 -> -30
                                [] p = 3 -> -50 [] p = 4 -> 20]
=============================================================================
