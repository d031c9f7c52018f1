----------------------------- MODULE MCTcpServer -----------------------------
(* An instance of TcpServer for TLC.                                       *)
EXTENDS TcpServer

CONSTANTS c1, c2
=============================================================================
