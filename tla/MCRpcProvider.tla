---------------------------- MODULE MCRpcProvider ----------------------------
(* TLC instance of RpcProvider: three frames of every kind, of 4, 3 and 5     *)
(* bytes, the length field being 2; one has no arguments.  The stream is cut  *)
(* in all ways.                                                               *)
EXTENDS RpcProvider

MCHeader == <<1, 1, 2>>
MCEnd == [i \in 0 .. 3 |-> CASE i = 0 -> 0 [] i = 1 -> 4 [] i = 2 -> 7 [] i = 3 -> 12]
=============================================================================
