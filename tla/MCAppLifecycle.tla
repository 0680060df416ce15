--------------------------- MODULE MCAppLifecycle ---------------------------
(* Instance of AppLifecycle for TLC; the bounds are in the cfg. *)
EXTENDS AppLifecycle
=============================================================================
