------------------------------ MODULE MCZenClient ------------------------------
(* Instance of ZenClient for TLC: two requests, two nodes, and a pool    *)
(* that a refresh or a restart may replace by a shorter one.               *)
EXTENDS ZenClient

TwoRequests == {"r1", "r2"}
SomeNodes == {"direct", "a"}
TwoPools == {<<"direct", "a">>, <<"direct">>}
=============================================================================
