------------------------------- MODULE MCWsHub ------------------------------
(* WsHub for TLC: the configuration gives the sets and the limits. *)
EXTENDS WsHub
=============================================================================
