---------------------------- MODULE BufferProofs ----------------------------
(***************************************************************************)
(* Theorems about Buffer, for any set of bytes, any sizes and any bound on *)
(* the content: the indices stay in order, the vector does not grow with   *)
(* the age of the buffer, and the buffer implements ByteQueue.  They rest  *)
(* on lemmas that say, operator by operator, what the code's helpers do to *)
(* the content.                                                            *)
(***************************************************************************)
EXTENDS Buffer, SequenceTheorems, TLAPS

Buffers == [store : Seq(Bytes), reader : Nat, writer : Nat]

\* The states a Buffer can be in.
Valid(b) ==
  /\ b \in Buffers
  /\ CheapPrepend <= b.reader
  /\ b.reader <= b.writer
  /\ b.writer <= Len(b.store)

-----------------------------------------------------------------------------
(* Helpers *)

LEMMA ConcatLemma ==
  \A s, t \in Seq(Bytes) :
    /\ s \o t \in Seq(Bytes)
    /\ Len(s) \in Nat /\ Len(t) \in Nat
    /\ Len(s \o t) = Len(s) + Len(t)
    /\ \A i \in 1 .. Len(s) + Len(t) :
         (s \o t)[i] = IF i <= Len(s) THEN s[i] ELSE t[i - Len(s)]
BY ConcatProperties, LenProperties

LEMMA FunctionIsSeq ==
  \A n \in Nat : \A f \in [1 .. n -> Bytes] : f \in Seq(Bytes) /\ Len(f) = n
BY SeqDef

LEMMA ZerosType ==
  ASSUME NEW n \in Nat
  PROVE  Zeros(n) \in Seq(Bytes) /\ Len(Zeros(n)) = n
<1>1. Zeros(n) \in [1 .. n -> Bytes]
  BY BufferAssumption DEF Zeros
<1> QED  BY <1>1, SeqDef

LEMMA SizesType ==
  ASSUME NEW b, Valid(b)
  PROVE  /\ Len(b.store) \in Nat
         /\ ReadableBytes(b) \in Nat
         /\ WritableBytes(b) \in Nat
         /\ PrependableBytes(b) \in Nat
         /\ ReadableBytes(b) + WritableBytes(b) + PrependableBytes(b) = Len(b.store)
<1>1. Len(b.store) \in Nat /\ b.reader \in Nat /\ b.writer \in Nat
  BY LenProperties DEF Valid, Buffers
<1> QED  BY <1>1 DEF Valid, ReadableBytes, WritableBytes, PrependableBytes

LEMMA ContentType ==
  ASSUME NEW b, Valid(b)
  PROVE  Content(b) \in Seq(Bytes) /\ Len(Content(b)) = ReadableBytes(b)
<1>1. ReadableBytes(b) \in Nat /\ Len(b.store) \in Nat
  BY SizesType
<1>2. b.store \in [1 .. Len(b.store) -> Bytes]
  BY LenProperties DEF Valid, Buffers
<1>3. \A i \in 1 .. ReadableBytes(b) : b.reader + i \in 1 .. Len(b.store)
  BY <1>1 DEF Valid, Buffers, ReadableBytes
<1>4. Content(b) \in [1 .. ReadableBytes(b) -> Bytes]
  BY <1>2, <1>3 DEF Content
<1> QED  BY <1>1, <1>4, SeqDef

\* Two buffers show the same content when their readable cells agree.
LEMMA SameContent ==
  ASSUME NEW b, NEW c,
         ReadableBytes(c) = ReadableBytes(b),
         \A i \in 1 .. ReadableBytes(b) : c.store[c.reader + i] = b.store[b.reader + i]
  PROVE  Content(c) = Content(b)
BY DEF Content
-----------------------------------------------------------------------------
(* Taking bytes out *)

LEMMA RetrieveLemma ==
  ASSUME NEW b, Valid(b), NEW len \in Nat
  PROVE  /\ Valid(RetrieveFrom(b, len))
         /\ Len(RetrieveFrom(b, len).store) = Len(b.store)
         /\ Content(RetrieveFrom(b, len)) = SubSeq(Content(b), len + 1, Len(Content(b)))
<1> DEFINE c == RetrieveFrom(b, len)
<1>0. /\ b = [store |-> b.store, reader |-> b.reader, writer |-> b.writer]
      /\ b.store \in Seq(Bytes) /\ b.reader \in Nat /\ b.writer \in Nat
      /\ ReadableBytes(b) \in Nat
      /\ CheapPrepend \in Nat
  BY SizesType, BufferAssumption DEF Valid, Buffers
<1>1. Content(b) \in Seq(Bytes) /\ Len(Content(b)) = ReadableBytes(b)
  BY ContentType
<1>2. CASE len >= ReadableBytes(b)
  <2>1. c = [store |-> b.store, reader |-> CheapPrepend, writer |-> CheapPrepend]
    BY <1>0, <1>2 DEF RetrieveFrom, RetrieveAll
  <2>2. Valid(c)
    BY <1>0, <2>1 DEF Valid, Buffers
  <2>3. Content(c) = <<>>
    BY <1>0, <2>1 DEF Content, ReadableBytes
  <2>4. SubSeq(Content(b), len + 1, Len(Content(b))) = <<>>
    BY <1>0, <1>1, <1>2, SubSeqEmpty
  <2>5. Len(c.store) = Len(b.store)
    BY <2>1
  <2> QED  BY <2>2, <2>3, <2>4, <2>5, Zenon
<1>3. CASE len < ReadableBytes(b)
  <2>1. c = [store |-> b.store, reader |-> b.reader + len, writer |-> b.writer]
    BY <1>0, <1>3 DEF RetrieveFrom
  <2>2. Valid(c)
    BY <1>0, <1>3, <2>1 DEF Valid, Buffers, ReadableBytes
  <2>3. ReadableBytes(c) = ReadableBytes(b) - len
    BY <1>0, <2>1 DEF ReadableBytes
  <2>4. Content(c) = [i \in 1 .. ReadableBytes(b) - len |-> Content(b)[i + len]]
    <3>1. \A i \in 1 .. ReadableBytes(b) - len :
            c.store[c.reader + i] = Content(b)[i + len]
      <4> SUFFICES ASSUME NEW i \in 1 .. ReadableBytes(b) - len
                   PROVE  c.store[c.reader + i] = Content(b)[i + len]
        OBVIOUS
      <4>1. i + len \in 1 .. ReadableBytes(b) /\ c.reader + i = b.reader + (i + len)
        BY <1>0, <2>1
      <4> QED  BY <2>1, <4>1 DEF Content
    <3> QED  BY <2>3, <3>1 DEF Content
  <2>5. SubSeq(Content(b), len + 1, ReadableBytes(b))
          = [i \in 1 .. ReadableBytes(b) - len |-> Content(b)[i + len]]
    BY <1>0, <1>1, <1>3
  <2>6. Len(c.store) = Len(b.store)
    BY <2>1
  <2>7. Content(c) = SubSeq(Content(b), len + 1, Len(Content(b)))
    BY <1>1, <2>4, <2>5, Zenon
  <2> QED  BY <2>2, <2>6, <2>7, Zenon
<1> QED  BY <1>0, <1>2, <1>3
-----------------------------------------------------------------------------
(* Making space *)

LEMMA EnlargeLemma ==
  ASSUME NEW b, Valid(b), NEW size \in Nat, size >= Len(b.store)
  PROVE  /\ Valid(Enlarge(b, size))
         /\ Len(Enlarge(b, size).store) = size
         /\ Enlarge(b, size).writer = b.writer
         /\ Content(Enlarge(b, size)) = Content(b)
<1> DEFINE c == Enlarge(b, size)
           z == Zeros(size - Len(b.store))
<1>0. /\ b = [store |-> b.store, reader |-> b.reader, writer |-> b.writer]
      /\ b.store \in Seq(Bytes) /\ b.reader \in Nat /\ b.writer \in Nat
      /\ Len(b.store) \in Nat
      /\ ReadableBytes(b) \in Nat
  BY SizesType DEF Valid, Buffers
<1>1. z \in Seq(Bytes) /\ Len(z) = size - Len(b.store)
  BY <1>0, ZerosType
<1>2. c = [store |-> b.store \o z, reader |-> b.reader, writer |-> b.writer]
  BY DEF Enlarge
<1> HIDE DEF c, z
<1>3. /\ b.store \o z \in Seq(Bytes)
      /\ Len(b.store \o z) = size
      /\ \A i \in 1 .. Len(b.store) : (b.store \o z)[i] = b.store[i]
  <2>1. /\ b.store \o z \in Seq(Bytes)
        /\ Len(b.store \o z) = Len(b.store) + Len(z)
        /\ \A i \in 1 .. Len(b.store) + Len(z) :
             (b.store \o z)[i] = IF i <= Len(b.store) THEN b.store[i] ELSE z[i - Len(b.store)]
    BY <1>0, <1>1, ConcatLemma, Zenon
  <2>2. Len(z) \in Nat
    BY <1>0, <1>1
  <2>3. \A i \in 1 .. Len(b.store) : i \in 1 .. Len(b.store) + Len(z) /\ i <= Len(b.store)
    BY <1>0, <2>2
  <2>4. \A i \in 1 .. Len(b.store) : (b.store \o z)[i] = b.store[i]
    BY <2>1, <2>3, Zenon
  <2>5. Len(b.store) + Len(z) = size
    BY <1>0, <1>1
  <2> QED  BY <2>1, <2>4, <2>5
<1>4. Valid(c)
  BY <1>0, <1>2, <1>3 DEF Valid, Buffers
<1>5. Content(c) = Content(b)
  <2>1. \A i \in 1 .. ReadableBytes(b) : b.reader + i \in 1 .. Len(b.store)
    BY <1>0 DEF Valid, ReadableBytes
  <2>2. ReadableBytes(c) = ReadableBytes(b)
    BY <1>2 DEF ReadableBytes
  <2> QED  BY <1>2, <1>3, <2>1, <2>2, SameContent
<1>6. Len(c.store) = size /\ c.writer = b.writer
  BY <1>2, <1>3
<1> QED  BY <1>4, <1>5, <1>6, Zenon DEF c

LEMMA MoveLemma ==
  ASSUME NEW b, Valid(b)
  PROVE  /\ Valid(MoveToFront(b))
         /\ Len(MoveToFront(b).store) = Len(b.store)
         /\ MoveToFront(b).writer = CheapPrepend + ReadableBytes(b)
         /\ Content(MoveToFront(b)) = Content(b)
<1> DEFINE c == MoveToFront(b)
<1>0. /\ b.store \in [1 .. Len(b.store) -> Bytes]
      /\ b.reader \in Nat /\ b.writer \in Nat /\ Len(b.store) \in Nat
      /\ ReadableBytes(b) \in Nat
      /\ CheapPrepend \in Nat
  BY SizesType, BufferAssumption, LenProperties DEF Valid, Buffers
<1>1. \A j \in 1 .. ReadableBytes(b) : /\ b.reader + j \in 1 .. Len(b.store)
                                       /\ CheapPrepend + j \in 1 .. Len(b.store)
  BY <1>0 DEF Valid, ReadableBytes
<1>2. c.store \in [1 .. Len(b.store) -> Bytes]
  BY <1>0, <1>1 DEF MoveToFront
<1>3. c.store \in Seq(Bytes) /\ Len(c.store) = Len(b.store)
  BY <1>0, <1>2, SeqDef
<1>4. /\ c = [store |-> c.store, reader |-> c.reader, writer |-> c.writer]
      /\ c.reader = CheapPrepend /\ c.writer = CheapPrepend + ReadableBytes(b)
  BY DEF MoveToFront
<1>5. Valid(c)
  BY <1>0, <1>3, <1>4 DEF Valid, Buffers, ReadableBytes
<1>6. \A j \in 1 .. ReadableBytes(b) : c.store[c.reader + j] = b.store[b.reader + j]
  <2> SUFFICES ASSUME NEW j \in 1 .. ReadableBytes(b)
               PROVE  c.store[CheapPrepend + j] = b.store[b.reader + j]
    BY <1>4
  <2>1. CheapPrepend + j \in 1 .. Len(b.store) /\ (CheapPrepend + j) - CheapPrepend = j
    BY <1>0, <1>1
  <2> QED  BY <2>1 DEF MoveToFront
<1>7. ReadableBytes(c) = ReadableBytes(b)
  BY <1>0, <1>4 DEF ReadableBytes
<1> QED  BY <1>3, <1>4, <1>5, <1>6, <1>7, SameContent

\* makeSpace makes the space asked for, keeps the content, and enlarges only a
\* vector that is too small for prepend area, content and len.
LEMMA SpaceLemma ==
  ASSUME NEW b, Valid(b), NEW len \in Nat
  PROVE  LET c == EnsureWritableBytes(b, len) IN
         /\ Valid(c)
         /\ WritableBytes(c) >= len
         /\ Content(c) = Content(b)
         /\ ReadableBytes(c) = ReadableBytes(b)
         /\ \/ Len(c.store) = Len(b.store)
            \/ Len(c.store) <= CheapPrepend + ReadableBytes(b) + 2 * len
<1> DEFINE c == EnsureWritableBytes(b, len)
<1>0. /\ b.reader \in Nat /\ b.writer \in Nat /\ Len(b.store) \in Nat
      /\ ReadableBytes(b) \in Nat /\ WritableBytes(b) \in Nat
      /\ CheapPrepend \in Nat
      /\ Len(Content(b)) = ReadableBytes(b)
  BY SizesType, ContentType, BufferAssumption DEF Valid, Buffers
<1>1. CASE WritableBytes(b) >= len
  BY <1>0, <1>1 DEF EnsureWritableBytes
<1>2. CASE /\ WritableBytes(b) < len
           /\ PrependableBytes(b) + WritableBytes(b) < len + CheapPrepend
  <2>1. c = Enlarge(b, b.writer + len)
    BY <1>0, <1>2 DEF EnsureWritableBytes, MakeSpace
  <2>2. b.writer + len \in Nat /\ b.writer + len >= Len(b.store)
    BY <1>0, <1>2 DEF WritableBytes
  <2>3. /\ Valid(c) /\ Len(c.store) = b.writer + len /\ c.writer = b.writer
        /\ Content(c) = Content(b)
    BY <2>1, <2>2, EnlargeLemma
  <2>4. ReadableBytes(c) = ReadableBytes(b)
    BY <2>3, <1>0, ContentType
  <2>5. WritableBytes(c) >= len
    BY <1>0, <2>3 DEF WritableBytes
  <2>6. Len(c.store) <= CheapPrepend + ReadableBytes(b) + 2 * len
    BY <1>0, <1>2, <2>3 DEF WritableBytes, ReadableBytes, PrependableBytes
  <2> QED  BY <2>3, <2>4, <2>5, <2>6
<1>3. CASE /\ WritableBytes(b) < len
           /\ ~(PrependableBytes(b) + WritableBytes(b) < len + CheapPrepend)
  <2>1. c = MoveToFront(b)
    BY <1>0, <1>3 DEF EnsureWritableBytes, MakeSpace
  <2>2. /\ Valid(c) /\ Len(c.store) = Len(b.store)
        /\ c.writer = CheapPrepend + ReadableBytes(b)
        /\ Content(c) = Content(b)
    BY <2>1, MoveLemma
  <2>3. ReadableBytes(c) = ReadableBytes(b)
    BY <2>2, <1>0, ContentType
  <2>4. WritableBytes(c) >= len
    BY <1>0, <1>3, <2>2 DEF WritableBytes, ReadableBytes, PrependableBytes
  <2> QED  BY <2>2, <2>3, <2>4
<1> QED  BY <1>0, <1>1, <1>2, <1>3
-----------------------------------------------------------------------------
(* Putting bytes in *)

LEMMA WriteLemma ==
  ASSUME NEW b, Valid(b), NEW s \in Seq(Bytes), Len(s) <= WritableBytes(b)
  PROVE  /\ Valid(WriteAt(b, s))
         /\ Len(WriteAt(b, s).store) = Len(b.store)
         /\ WritableBytes(WriteAt(b, s)) = WritableBytes(b) - Len(s)
         /\ Content(WriteAt(b, s)) = Content(b) \o s
<1> DEFINE c == WriteAt(b, s)
           n == ReadableBytes(b)
<1>0. /\ b = [store |-> b.store, reader |-> b.reader, writer |-> b.writer]
      /\ b.store \in [1 .. Len(b.store) -> Bytes]
      /\ b.reader \in Nat /\ b.writer \in Nat /\ Len(b.store) \in Nat
      /\ n \in Nat
  BY SizesType, LenProperties DEF Valid, Buffers
<1>1. Len(s) \in Nat /\ s \in [1 .. Len(s) -> Bytes]
  BY LenProperties
<1>2. /\ c.reader = b.reader
      /\ c.writer = b.writer + Len(s)
      /\ c.store = [i \in 1 .. Len(b.store) |->
                      IF i - b.writer \in 1 .. Len(s) THEN s[i - b.writer] ELSE b.store[i]]
      /\ c = [store |-> c.store, reader |-> c.reader, writer |-> c.writer]
  BY DEF WriteAt
<1> HIDE DEF c
<1>3. c.store \in [1 .. Len(b.store) -> Bytes]
  BY <1>0, <1>1, <1>2
<1>4. c.store \in Seq(Bytes) /\ Len(c.store) = Len(b.store)
  BY <1>0, <1>3, FunctionIsSeq, Zenon
<1>5. Valid(c)
  <2>1. c.reader \in Nat /\ c.writer \in Nat
    BY <1>0, <1>1, <1>2
  <2>2. /\ CheapPrepend <= c.reader /\ c.reader <= c.writer
        /\ c.writer <= Len(c.store)
    BY <1>0, <1>1, <1>2, <1>4 DEF Valid, WritableBytes
  <2>3. c \in Buffers
    BY <1>2, <1>4, <2>1 DEF Buffers
  <2> QED  BY <2>2, <2>3 DEF Valid
<1>6. WritableBytes(c) = WritableBytes(b) - Len(s) /\ ReadableBytes(c) = n + Len(s)
  BY <1>0, <1>1, <1>2, <1>4 DEF WritableBytes, ReadableBytes
<1>7. Content(c) = Content(b) \o s
  <2>1. /\ Content(c) \in Seq(Bytes) /\ Len(Content(c)) = n + Len(s)
        /\ Content(b) \in Seq(Bytes) /\ Len(Content(b)) = n
    BY <1>5, <1>6, ContentType
  <2>2. /\ Content(b) \o s \in Seq(Bytes)
        /\ Len(Content(b) \o s) = n + Len(s)
        /\ \A i \in 1 .. n + Len(s) :
             (Content(b) \o s)[i] = IF i <= n THEN Content(b)[i] ELSE s[i - n]
    <3>1. /\ Content(b) \o s \in Seq(Bytes)
          /\ Len(Content(b) \o s) = Len(Content(b)) + Len(s)
          /\ \A i \in 1 .. Len(Content(b)) + Len(s) :
               (Content(b) \o s)[i] =
                 IF i <= Len(Content(b)) THEN Content(b)[i] ELSE s[i - Len(Content(b))]
      BY <2>1, ConcatLemma, Zenon
    <3>2. Len(Content(b)) = n
      BY <2>1
    <3> HIDE DEF n
    <3> QED  BY <3>1, <3>2, Zenon
  <2>3. ASSUME NEW i \in 1 .. n + Len(s)
        PROVE  Content(c)[i] = (Content(b) \o s)[i]
    <3>1. Content(c)[i] = c.store[b.reader + i]
      BY <1>2, <1>6 DEF Content
    <3>2. b.reader + i \in 1 .. Len(b.store)
      BY <1>0, <1>1 DEF Valid, ReadableBytes, WritableBytes
    <3>3. (b.reader + i) - b.writer = i - n
      BY <1>0 DEF ReadableBytes
    <3>4. c.store[b.reader + i] = IF i - n \in 1 .. Len(s) THEN s[i - n]
                                                        ELSE b.store[b.reader + i]
      BY <1>2, <3>2, <3>3
    <3>5. CASE i <= n
      <4>1. i - n \notin 1 .. Len(s)
        BY <1>0, <1>1, <3>5
      <4>2. Content(b)[i] = b.store[b.reader + i]
        BY <1>0, <3>5 DEF Content
      <4> QED  BY <2>2, <3>1, <3>4, <3>5, <4>1, <4>2
    <3>6. CASE i > n
      <4>1. i - n \in 1 .. Len(s) /\ ~(i <= n)
        BY <1>0, <1>1, <3>6
      <4> QED  BY <2>2, <3>1, <3>4, <4>1
    <3>7. i <= n \/ i > n
      BY <1>0, <1>1
    <3> QED  BY <3>5, <3>6, <3>7, Zenon
  <2> QED  BY <2>1, <2>2, <2>3, SeqEqual
<1> QED  BY <1>4, <1>5, <1>6, <1>7 DEF c

\* append adds its bytes behind the content.
LEMMA AppendLemma ==
  ASSUME NEW b, Valid(b), NEW s \in Seq(Bytes)
  PROVE  /\ Valid(AppendTo(b, s))
         /\ Content(AppendTo(b, s)) = Content(b) \o s
         /\ \/ Len(AppendTo(b, s).store) = Len(b.store)
            \/ Len(AppendTo(b, s).store) <= CheapPrepend + ReadableBytes(b) + 2 * Len(s)
<1> DEFINE c == EnsureWritableBytes(b, Len(s))
<1>1. Len(s) \in Nat
  BY LenProperties
<1>2. /\ Valid(c)
      /\ WritableBytes(c) >= Len(s)
      /\ Content(c) = Content(b)
      /\ \/ Len(c.store) = Len(b.store)
         \/ Len(c.store) <= CheapPrepend + ReadableBytes(b) + 2 * Len(s)
  BY <1>1, SpaceLemma
<1>3. Len(s) <= WritableBytes(c)
  BY <1>1, <1>2, SizesType
<1>4. /\ Valid(WriteAt(c, s))
      /\ Len(WriteAt(c, s).store) = Len(c.store)
      /\ Content(WriteAt(c, s)) = Content(c) \o s
  BY <1>2, <1>3, WriteLemma
<1> QED  BY <1>2, <1>4 DEF AppendTo

\* readFd adds the bytes it read, in order, however they were spread over the
\* vector and extrbuf.
LEMMA ReadLemma ==
  ASSUME NEW b, Valid(b), NEW s \in Seq(Bytes)
  PROVE  /\ Valid(ReadInto(b, s))
         /\ Content(ReadInto(b, s)) = Content(b) \o s
         /\ \/ Len(ReadInto(b, s).store) = Len(b.store)
            \/ Len(ReadInto(b, s).store) <= CheapPrepend + 2 * (ReadableBytes(b) + Len(s))
<1> DEFINE room == WritableBytes(b)
           first == SubSeq(s, 1, room)
           rest == SubSeq(s, room + 1, Len(s))
           c == WriteAt(b, first)
<1>0. /\ room \in Nat /\ ReadableBytes(b) \in Nat /\ Len(b.store) \in Nat
      /\ Len(s) \in Nat /\ CheapPrepend \in Nat
  BY SizesType, LenProperties, BufferAssumption
<1>1. CASE Len(s) <= room
  BY <1>1, WriteLemma DEF ReadInto
<1>2. CASE Len(s) > room
  <2>1. /\ first \in Seq(Bytes) /\ Len(first) = room
        /\ rest \in Seq(Bytes) /\ Len(rest) = Len(s) - room
        /\ first \o rest = s
    <3>1. /\ first \in Seq(Bytes) /\ Len(first) = room
          /\ rest \in Seq(Bytes) /\ Len(rest) = Len(s) - room
      BY <1>0, <1>2, SubSeqProperties
    <3>2. first \o rest = SubSeq(s, 1, Len(s))
      BY <1>0, <1>2, ConcatAdjacentSubSeq
    <3> QED  BY <3>1, <3>2, SubSeqFull
  <2> HIDE DEF first, rest
  <2> HIDE DEF room
  <2>2. /\ Valid(c) /\ Len(c.store) = Len(b.store) /\ Content(c) = Content(b) \o first
    <3>1. Len(first) <= WritableBytes(b)
      BY <1>0, <2>1 DEF room
    <3> QED  BY <2>1, <3>1, WriteLemma, Zenon
  <2> HIDE DEF c
  <2>3. ReadableBytes(c) = ReadableBytes(b) + room
    <3>1. /\ Len(Content(c)) = ReadableBytes(c)
          /\ Len(Content(b)) = ReadableBytes(b) /\ Content(b) \in Seq(Bytes)
      BY <2>2, ContentType, Zenon
    <3>2. Len(Content(b) \o first) = Len(Content(b)) + Len(first)
      BY <2>1, <3>1, ConcatLemma, Zenon
    <3> QED  BY <2>1, <2>2, <3>1, <3>2, Zenon
  <2>4. ReadInto(b, s) = AppendTo(c, rest)
    BY <1>0, <1>2 DEF ReadInto, first, rest, c, room
  <2>5. /\ Valid(AppendTo(c, rest))
        /\ Content(AppendTo(c, rest)) = Content(c) \o rest
        /\ \/ Len(AppendTo(c, rest).store) = Len(c.store)
           \/ Len(AppendTo(c, rest).store)
                <= CheapPrepend + ReadableBytes(c) + 2 * Len(rest)
    BY <2>1, <2>2, AppendLemma
  <2>6. Content(c) \o rest = Content(b) \o s
    <3>1. Content(b) \in Seq(Bytes)
      BY ContentType
    <3>2. (Content(b) \o first) \o rest = Content(b) \o (first \o rest)
      <4>1. \A x, y, z \in Seq(Bytes) : (x \o y) \o z = x \o (y \o z)
        BY ConcatAssociative
      <4> QED  BY <2>1, <3>1, <4>1, Zenon
    <3> QED  BY <2>1, <2>2, <3>2, Zenon
  <2>7. ReadableBytes(c) + 2 * Len(rest) <= 2 * (ReadableBytes(b) + Len(s))
    BY <1>0, <1>2, <2>1, <2>3
  <2>8. \/ Len(AppendTo(c, rest).store) = Len(b.store)
        \/ Len(AppendTo(c, rest).store) <= CheapPrepend + 2 * (ReadableBytes(b) + Len(s))
    <3>1. /\ ReadableBytes(c) \in Nat
          /\ Len(AppendTo(c, rest).store) \in Nat
      BY <2>2, <2>5, SizesType, Zenon
    <3>2. Len(rest) \in Nat
      BY <2>1, LenProperties
    <3> QED  BY <1>0, <2>2, <2>5, <2>7, <3>1, <3>2
  <2> QED  BY <2>4, <2>5, <2>6, <2>8
<1> QED  BY <1>0, <1>1, <1>2
-----------------------------------------------------------------------------
(* The specification *)

BufferInv == Valid(buf) /\ SizeBounded

LEMMA StringsAreSeqs == Strings \subseteq Seq(Bytes)
<1> SUFFICES ASSUME NEW n \in 0 .. MaxReadable, NEW s \in [1 .. n -> Bytes]
             PROVE  s \in Seq(Bytes)
  BY DEF Strings
<1>1. n \in Nat
  BY BufferAssumption
<1> QED  BY <1>1, FunctionIsSeq, Zenon

LEMMA InitLemma ==
  ASSUME Init
  PROVE  BufferInv /\ Content(buf) = <<>>
<1>1. /\ Zeros(CheapPrepend + InitialSize) \in Seq(Bytes)
      /\ Len(Zeros(CheapPrepend + InitialSize)) = CheapPrepend + InitialSize
  <2>1. CheapPrepend + InitialSize \in Nat
    BY BufferAssumption
  <2> QED  BY <2>1, ZerosType
<1>2. Valid(buf)
  BY <1>1, BufferAssumption DEF Init, Valid, Buffers
<1>3. Content(buf) = <<>>
  BY BufferAssumption DEF Init, Content, ReadableBytes
<1>4. SizeBounded
  BY <1>1, BufferAssumption DEF Init, SizeBounded
<1> QED  BY <1>2, <1>3, <1>4 DEF BufferInv

\* Every step keeps the invariant and is a step of the byte queue.
LEMMA StepLemma ==
  ASSUME BufferInv, [Next]_buf
  PROVE  BufferInv' /\ [BQ!Next]_(Content(buf))
<1> USE DEF BufferInv
<1>0. /\ CheapPrepend \in Nat /\ MaxReadable \in Nat
      /\ ReadableBytes(buf) \in Nat /\ Len(buf.store) \in Nat
  BY BufferAssumption, SizesType
<1>1. ASSUME NEW s \in Strings, DoAppend(s)
      PROVE  BufferInv' /\ BQ!Next
  <2>1. s \in Seq(Bytes) /\ Len(s) \in Nat
    BY StringsAreSeqs, LenProperties
  <2>2. /\ Valid(buf') /\ Content(buf') = Content(buf) \o s
        /\ \/ Len(buf'.store) = Len(buf.store)
           \/ Len(buf'.store) <= CheapPrepend + ReadableBytes(buf) + 2 * Len(s)
    BY <1>1, <2>1, AppendLemma DEF DoAppend
  <2>3. ReadableBytes(buf) + Len(s) <= MaxReadable
    BY <1>1 DEF DoAppend, Fits
  <2>4. Len(buf'.store) \in Nat
    BY <2>2, SizesType
  <2>5. SizeBounded'
    BY <1>0, <2>1, <2>2, <2>3, <2>4 DEF SizeBounded
  <2>6. BQ!Put(s)
    BY <2>2 DEF BQ!Put
  <2> QED  BY <2>2, <2>5, <2>6 DEF BQ!Next
<1>2. ASSUME NEW s \in Strings, ReadFd(s)
      PROVE  BufferInv' /\ BQ!Next
  <2>1. s \in Seq(Bytes) /\ Len(s) \in Nat
    BY StringsAreSeqs, LenProperties
  <2>2. /\ Valid(buf') /\ Content(buf') = Content(buf) \o s
        /\ \/ Len(buf'.store) = Len(buf.store)
           \/ Len(buf'.store) <= CheapPrepend + 2 * (ReadableBytes(buf) + Len(s))
    BY <1>2, <2>1, ReadLemma DEF ReadFd
  <2>3. ReadableBytes(buf) + Len(s) <= MaxReadable
    BY <1>2 DEF ReadFd, Fits
  <2>4. Len(buf'.store) \in Nat
    BY <2>2, SizesType
  <2>5. SizeBounded'
    BY <1>0, <2>1, <2>2, <2>3, <2>4 DEF SizeBounded
  <2>6. BQ!Put(s)
    BY <2>2 DEF BQ!Put
  <2> QED  BY <2>2, <2>5, <2>6 DEF BQ!Next
<1>3. ASSUME NEW len \in Lengths, Retrieve(len)
      PROVE  BufferInv' /\ BQ!Next
  <2>1. len \in Nat
    BY <1>0 DEF Lengths
  <2>2. /\ Valid(buf') /\ Len(buf'.store) = Len(buf.store)
        /\ Content(buf') = SubSeq(Content(buf), len + 1, Len(Content(buf)))
    BY <1>3, <2>1, RetrieveLemma DEF Retrieve
  <2>3. BQ!Take(len)
    BY <2>2 DEF BQ!Take
  <2>4. SizeBounded'
    BY <2>2 DEF SizeBounded
  <2> QED  BY <2>2, <2>3, <2>4 DEF BQ!Next
<1>4. CASE RetrieveAllAsString
  <2>1. ReadableBytes(buf) \in Nat
    BY <1>0
  <2>2. buf' = RetrieveFrom(buf, ReadableBytes(buf))
    BY <1>4, <2>1 DEF RetrieveAllAsString, RetrieveFrom
  <2>3. /\ Valid(buf') /\ Len(buf'.store) = Len(buf.store)
    BY <2>1, <2>2, RetrieveLemma
  <2>4. Content(buf') = <<>>
    BY <1>0, <1>4 DEF RetrieveAllAsString, RetrieveAll, Content, ReadableBytes, Valid, Buffers
  <2>5. SizeBounded'
    BY <2>3 DEF SizeBounded
  <2>6. BQ!TakeAll
    BY <2>4 DEF BQ!TakeAll
  <2> QED  BY <2>3, <2>5, <2>6 DEF BQ!Next
<1>5. CASE UNCHANGED buf
  <2>1. BufferInv'
    BY <1>5 DEF Valid, SizeBounded
  <2>2. Content(buf') = Content(buf)
    BY <1>5
  <2> QED  BY <2>1, <2>2
<1> QED  BY <1>1, <1>2, <1>3, <1>4, <1>5 DEF Next

LEMMA Invariant == Spec => []BufferInv
<1>1. Init => BufferInv
  BY InitLemma
<1>2. BufferInv /\ [Next]_buf => BufferInv'
  BY StepLemma
<1> QED  BY <1>1, <1>2, PTL DEF Spec

\* The vector holds bytes and the indices are natural numbers (Buffer.h:71-73).
THEOREM TypeCorrect == Spec => []TypeOK
<1>1. BufferInv => TypeOK
  BY DEF BufferInv, Valid, Buffers, TypeOK
<1> QED  BY <1>1, Invariant, PTL

\* No operation moves an index past its neighbour: the asserts of the code hold
\* (Buffer.cpp:112 and 130).
THEOREM IndicesInOrder == Spec => []IndicesOK
<1>1. BufferInv => IndicesOK
  BY DEF BufferInv, Valid, IndicesOK
<1> QED  BY <1>1, Invariant, PTL

\* The vector stays within twice the largest content (Buffer.cpp:147-160).
THEOREM SizeStaysBounded == Spec => []SizeBounded
<1>1. BufferInv => SizeBounded
  BY DEF BufferInv
<1> QED  BY <1>1, Invariant, PTL

\* The buffer is a queue of bytes (Buffer.cpp:37-103).
THEOREM BufferIsByteQueue == Spec => ImplementsByteQueue
<1>1. Init => BQ!Init
  BY InitLemma DEF BQ!Init
<1>2. BufferInv /\ [Next]_buf => [BQ!Next]_(Content(buf))
  BY StepLemma
<1> QED  BY <1>1, <1>2, Invariant, PTL DEF Spec, ImplementsByteQueue, BQ!Spec
=============================================================================
