-------------------------- MODULE MCAnthropicStream --------------------------
(* Instance of AnthropicStream for TLC; the bounds are numbers in the cfg. *)
EXTENDS AnthropicStream
=============================================================================
