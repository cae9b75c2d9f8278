------------------------------ MODULE MCRpcCall -------------------------------
(* TLC instance of RpcCall and Registry: two providers of one service, each  *)
(* started up to twice, and one call: calls share nothing but the providers. *)
(* Responses are empty, fit into the buffer or do not.                       *)
EXTENDS RpcCall, TLC

CONSTANTS p1, p2, c1, none, noanswer, noprovider

MCProviders == {p1, p2}
MCCalls == {c1}
=============================================================================
