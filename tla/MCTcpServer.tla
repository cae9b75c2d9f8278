----------------------------- MODULE MCTcpServer -----------------------------
(* TLC instance of TcpServer: two connections, a pool of up to two IO loops   *)
(* (none: the connections live in the base loop).                             *)
EXTENDS TcpServer

CONSTANTS base, io1, io2, c1, c2, acceptor

MCPool == <<io1, io2>>
MCConns == {c1, c2}
=============================================================================
