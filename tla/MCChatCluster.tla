---------------------------- MODULE MCChatCluster -----------------------------
(* TLC instance of ChatCluster: two servers; a user with two connections to   *)
(* the first of them and one to the second; a message to that user from the   *)
(* second server, and a stored one for a user who never logs in.              *)
EXTENDS ChatCluster, TLC

CONSTANTS u1, u2, s1, s2, c1, c2, c3, m1, m2, none

MCUserOf == c1 :> u1 @@ c2 :> u1 @@ c3 :> u1
MCServerOf == c1 :> s1 @@ c2 :> s1 @@ c3 :> s2
MCTo == m1 :> u1 @@ m2 :> u2
MCFrom == m1 :> s2 @@ m2 :> s1

\* c1 and c2 belong to the same user and server.
MCSymmetry == Permutations({c1, c2})
=============================================================================
