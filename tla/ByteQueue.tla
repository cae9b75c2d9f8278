------------------------------ MODULE ByteQueue ------------------------------
(***************************************************************************)
(* What a Buffer promises: a queue of bytes.  What is put in comes out in  *)
(* the order it was put in, nothing lost, repeated or altered.             *)
(***************************************************************************)
EXTENDS Naturals, Sequences

CONSTANTS
  Strings,    \* the byte strings that may be put in
  Lengths     \* the lengths that may be taken out

VARIABLE content    \* what peek() and readableBytes() show

Init == content = <<>>

Put(s) == content' = content \o s

\* The first n bytes leave; all of them when there are no more than n.
Take(n) == content' = SubSeq(content, n + 1, Len(content))

TakeAll == content' = <<>>

Next ==
  \/ \E s \in Strings : Put(s)
  \/ \E n \in Lengths : Take(n)
  \/ TakeAll

Spec == Init /\ [][Next]_content
=============================================================================
