---------------------------- MODULE MCProxyToggle ----------------------------
(* Instance of ProxyToggle for TLC: three requests share the toggle, each  *)
(* may be retried once, and the process may be started again once.         *)
EXTENDS ProxyToggle, TLC

ThreeRequests == {"r1", "r2", "r3"}
=============================================================================
