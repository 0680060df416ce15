--------------------------- MODULE MCSessionRetry ---------------------------
(* Model values for SessionRetry. *)
EXTENDS SessionRetry

CONSTANTS a, b, r1, r2, k, none

NoTasks == {}
OneKeeper == {k}
OneTask == {r1}
TwoTasks == {r1, r2}
OneAccount == {a}
TwoAccounts == {a, b}
EmptyOrOne == {<<>>, <<a>>}
TwoSessions == {<<a, b>>}
=============================================================================
