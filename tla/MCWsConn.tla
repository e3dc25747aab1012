------------------------------ MODULE MCWsConn ------------------------------
(* Instances of WsConn for TLC. *)
EXTENDS WsConn
=============================================================================
