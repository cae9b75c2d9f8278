--------------------------- MODULE MCTcpConnection ---------------------------
(* TLC instance of TcpConnection: t1 and the loop thread send one message of *)
(* two bytes each, t2 only calls shutdown(); handleClose runs at most twice. *)
EXTENDS TcpConnection

CONSTANTS t1, t2, loop

MCThreads == {t1, t2}
MCSends == [p \in {t1, t2, loop} |-> IF p = t2 THEN 0 ELSE 1]
=============================================================================
