------------------------- MODULE MCRequestScheduler -------------------------
(* Model values for RequestScheduler. *)
EXTENDS RequestScheduler

CONSTANTS s1, s2, n1, n2

StreamTasks == {s1, s2}
AllTasks == {s1, s2, n1, n2}
ThreeTasks == {s1, s2, n1}

HotLimits == {-1, 0, 1, 2}
RaisedLimits == {1, 2}
TwoQueues == {2, 4}
OneQueue == {3}
=============================================================================
