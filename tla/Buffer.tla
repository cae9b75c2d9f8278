-------------------------------- MODULE Buffer --------------------------------
(***************************************************************************)
(* mymuduo's Buffer: a vector of bytes with two indices.                   *)
(*                                                                         *)
(*   | prependable |  readable bytes  |  writable bytes  |                 *)
(*   0 <=      readerIndex_   <=  writerIndex_   <=  buffer_.size()        *)
(*                                                                         *)
(* An append that does not fit either moves the readable bytes to the      *)
(* front or enlarges the vector.  The indices count from 0 as in the code, *)
(* so the readable bytes are store[reader + 1], ..., store[writer].        *)
(***************************************************************************)
EXTENDS Integers, Sequences

CONSTANTS
  Bytes,         \* the values of a byte
  Zero,          \* the byte with which a vector is filled
  CheapPrepend,  \* kCheapPrepend, 8 in the code
  InitialSize,   \* kInitialSize, 1024 in the code
  ExtraSize,     \* size of extrbuf in readFd, 65536 in the code
  MaxReadable    \* bound: the users never keep more than this many bytes

ASSUME BufferAssumption ==
  /\ Zero \in Bytes
  /\ CheapPrepend \in Nat
  /\ InitialSize \in Nat
  /\ ExtraSize \in Nat
  /\ MaxReadable \in Nat

VARIABLE buf     \* buffer_, readerIndex_, writerIndex_

Zeros(n) == [i \in 1 .. n |-> Zero]

ReadableBytes(b) == b.writer - b.reader
WritableBytes(b) == Len(b.store) - b.writer
PrependableBytes(b) == b.reader

\* What peek() points at.
Content(b) == [i \in 1 .. ReadableBytes(b) |-> b.store[b.reader + i]]

TypeOK == buf \in [store : Seq(Bytes), reader : Nat, writer : Nat]

Init == buf = [store |-> Zeros(CheapPrepend + InitialSize),
               reader |-> CheapPrepend, writer |-> CheapPrepend]
-----------------------------------------------------------------------------
(* Taking bytes out *)

RetrieveAll(b) == [b EXCEPT !.reader = CheapPrepend, !.writer = CheapPrepend]

\* retrieve: at most what there is.
RetrieveFrom(b, len) ==
  IF len >= ReadableBytes(b) THEN RetrieveAll(b)
                             ELSE [b EXCEPT !.reader = b.reader + len]
-----------------------------------------------------------------------------
(* Putting bytes in *)

\* buffer_.resize: new bytes are 0.
Enlarge(b, size) ==
  [store  |-> b.store \o Zeros(size - Len(b.store)),
   reader |-> b.reader,
   writer |-> b.writer]

\* std::copy of the readable bytes to the end of the prepend area.
MoveToFront(b) ==
  [store  |-> [i \in 1 .. Len(b.store) |->
                 IF i - CheapPrepend \in 1 .. ReadableBytes(b)
                   THEN b.store[b.reader + (i - CheapPrepend)]
                   ELSE b.store[i]],
   reader |-> CheapPrepend,
   writer |-> CheapPrepend + ReadableBytes(b)]

\* Broken variants: the prepend area is not counted; always enlarge; the indices
\* move without the bytes.
MakeSpaceForgetsPrepend(b, len) ==
  IF PrependableBytes(b) + WritableBytes(b) < len
    THEN Enlarge(b, b.writer + len)
    ELSE MoveToFront(b)

MakeSpaceNeverMoves(b, len) == Enlarge(b, b.writer + len)

MakeSpaceMovesNothing(b, len) ==
  IF PrependableBytes(b) + WritableBytes(b) < len + CheapPrepend
    THEN Enlarge(b, b.writer + len)
    ELSE [MoveToFront(b) EXCEPT !.store = b.store]

\* Enlarge only when moving to the front would not do.
MakeSpace(b, len) ==
  IF PrependableBytes(b) + WritableBytes(b) < len + CheapPrepend
    THEN Enlarge(b, b.writer + len)
    ELSE MoveToFront(b)

EnsureWritableBytes(b, len) ==
  IF WritableBytes(b) < len THEN MakeSpace(b, len) ELSE b

\* Copy s behind the readable bytes; hasWritten(Len(s)).
WriteAt(b, s) ==
  [store  |-> [i \in 1 .. Len(b.store) |->
                 IF i - b.writer \in 1 .. Len(s) THEN s[i - b.writer] ELSE b.store[i]],
   reader |-> b.reader,
   writer |-> b.writer + Len(s)]

AppendTo(b, s) == WriteAt(EnsureWritableBytes(b, Len(s)), s)

\* The most that one readv can deliver: extrbuf is offered only when the
\* writable part is smaller than it.
ReadLimit(b) ==
  WritableBytes(b) + IF WritableBytes(b) < ExtraSize THEN ExtraSize ELSE 0

\* readv fills the writable part first; what went to extrbuf is appended.
ReadInto(b, s) ==
  LET room == WritableBytes(b) IN
  IF Len(s) <= room
    THEN WriteAt(b, s)
    ELSE AppendTo(WriteAt(b, SubSeq(s, 1, room)), SubSeq(s, room + 1, Len(s)))
-----------------------------------------------------------------------------
(* The operations; s ranges over byte strings that keep the bound *)

Fits(s) == ReadableBytes(buf) + Len(s) <= MaxReadable

DoAppend(s) == Fits(s) /\ buf' = AppendTo(buf, s)

ReadFd(s) == Fits(s) /\ Len(s) <= ReadLimit(buf) /\ buf' = ReadInto(buf, s)

Retrieve(len) == buf' = RetrieveFrom(buf, len)

RetrieveAllAsString == buf' = RetrieveAll(buf)

Strings == UNION {[1 .. n -> Bytes] : n \in 0 .. MaxReadable}

Lengths == 0 .. MaxReadable

Next ==
  \/ \E s \in Strings : DoAppend(s) \/ ReadFd(s)
  \/ \E len \in Lengths : Retrieve(len)
  \/ RetrieveAllAsString

Spec == Init /\ [][Next]_buf
-----------------------------------------------------------------------------
(* Properties *)

\* The asserts of ensureWritableBytes and hasWritten (Buffer.cpp:112, 130) and
\* the prepend area: no operation moves an index past its neighbour.
IndicesOK ==
  /\ CheapPrepend <= buf.reader
  /\ buf.reader <= buf.writer
  /\ buf.writer <= Len(buf.store)

\* makeSpace moves before it enlarges: the vector stays within twice the
\* largest content, however long the buffer is used (Buffer.cpp:147-160).
SizeBounded ==
  \/ Len(buf.store) <= CheapPrepend + InitialSize
  \/ Len(buf.store) <= CheapPrepend + 2 * MaxReadable

\* A Buffer is a queue of bytes (Buffer.cpp:37-103).
BQ == INSTANCE ByteQueue WITH content <- Content(buf)

ImplementsByteQueue == BQ!Spec
=============================================================================
