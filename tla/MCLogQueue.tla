----------------------------- MODULE MCLogQueue -----------------------------
(* TLC instance of LogQueue: four lines, logged in any order.  The lines are *)
(* interchangeable but for the liveness properties, so no symmetry is used.  *)
EXTENDS LogQueue

CONSTANTS l1, l2, l3, l4, empty

MCLines == {l1, l2, l3, l4}
=============================================================================
