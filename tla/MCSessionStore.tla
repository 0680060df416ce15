--------------------------- MODULE MCSessionStore ---------------------------
(* Model values and symmetry for SessionStore. *)
EXTENDS SessionStore, TLC

CONSTANTS a, b, s1, s2

TwoAccounts == {a, b}
TwoSavers == {s1, s2}

Symmetry == Permutations(TwoAccounts) \cup Permutations(TwoSavers)
=============================================================================
