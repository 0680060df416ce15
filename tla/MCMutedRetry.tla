---------------------------- MODULE MCMutedRetry ----------------------------
(* Model values for MutedRetry. *)
EXTENDS MutedRetry

CONSTANTS a, b, r1, k, none

OneKeeper == {k}
OneTask == {r1}
TwoAccounts == {a, b}
EmptyOrTwo == {<<>>, <<a, b>>}
TwoSessions == {<<a, b>>}
=============================================================================
