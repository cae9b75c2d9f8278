------------------------------ MODULE MCTcpSend -------------------------------
(* TLC instance of TcpSend: one connection, at most one IO loop, one sender.  *)
EXTENDS TcpSend

CONSTANTS base, io1, c1, acceptor, t1

MCPool == <<io1>>
=============================================================================
