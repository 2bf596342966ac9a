----------------------------- MODULE MCTcpClient -----------------------------
(* Instances of TcpClient for TLC. *)
EXTENDS TcpClient

CONSTANTS c1, c2
=============================================================================
