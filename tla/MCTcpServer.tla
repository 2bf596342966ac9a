----------------------------- MODULE MCTcpServer -----------------------------
(* Instances of TcpServer for TLC. *)
EXTENDS TcpServer

CONSTANTS base, l1, l2, c1, c2, c3

TwoLoops == <<l1, l2>>
=============================================================================
