------------------------------ MODULE MCBuffer ------------------------------
(* TLC instance of Buffer: two byte values, a prepend area of 1, 2 bytes of  *)
(* initial space and an extrbuf of 2, contents of at most 5 bytes: appends   *)
(* that fit, that move and that enlarge all occur, as do reads that reach    *)
(* into extrbuf and reads to which it is not offered.                        *)
EXTENDS Buffer
=============================================================================
