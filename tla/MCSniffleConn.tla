--------------------------- MODULE MCSniffleConn ---------------------------
(* A small connection for SniffleConn. *)
EXTENDS SniffleConn
=============================================================================
