--------------------------- MODULE MCProxyStream ----------------------------
(* Small instances of ProxyStream for TLC. *)
EXTENDS ProxyStream
=============================================================================
