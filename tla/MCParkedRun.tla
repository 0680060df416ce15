----------------------------- MODULE MCParkedRun -----------------------------
(* Model values and symmetry for ParkedRun. *)
EXTENDS ParkedRun, TLC

CONSTANTS s1, s2, t1, t2, r1, r2, none

TwoRuns == {s1, s2}
TwoTools == {t1, t2}
TwoRequests == {r1, r2}

RequestSymmetry == Permutations(TwoRequests)
=============================================================================
