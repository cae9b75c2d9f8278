-------------------------- MODULE TcpConnectionProofs --------------------------
(***************************************************************************)
(* Theorems about TcpConnection, for any number of threads, messages and   *)
(* closes and any size of a message: type correctness, interest in         *)
(* EPOLLOUT, order of the stream and of each sender's messages, which of   *)
(* them may be missing from it, no early FIN, no shutdown and no removal   *)
(* forgotten, no way back from a shutdown.                                 *)
(***************************************************************************)
EXTENDS TcpConnection, SequenceTheorems, TLAPS

-----------------------------------------------------------------------------
(* Channels *)

\* A channel between two calls of the code: it agrees with the kernel.
Sound(c) ==
  /\ c \in Channels
  /\ Coherent(c)
  /\ ~c.registered => c.interest = {}

\* Whatever it wants, epoll knows.
Settled(c) == c.events # {} => c.registered

\* updateChannel after any change of events_.
LEMMA UpdateLemma ==
  ASSUME NEW c, Sound(c), NEW E \in SUBSET Events
  PROVE  LET d == UpdateChannel([c EXCEPT !.events = E]) IN
         Sound(d) /\ Settled(d) /\ d.events = E
<1> DEFINE b == [c EXCEPT !.events = E]
<1>1. /\ b \in Channels /\ b.events = E /\ b.index = c.index
      /\ b.registered = c.registered /\ b.interest = c.interest
  BY DEF Sound, Channels
<1>2. CASE c.index # "kAdded"
  <2>1. ~c.registered
    BY <1>2 DEF Sound, Coherent
  <2>2. UpdateChannel(b) = [b EXCEPT !.index = "kAdded", !.registered = TRUE, !.interest = E]
    BY <1>1, <1>2, <2>1 DEF UpdateChannel, CtlAdd, Channels
  <2> QED  BY <1>1, <2>2 DEF Sound, Settled, Coherent, Channels, Indices
<1>3. CASE c.index = "kAdded" /\ E = {}
  <2>1. UpdateChannel(b) = [b EXCEPT !.index = "kDeleted", !.registered = FALSE, !.interest = {}]
    BY <1>1, <1>3 DEF UpdateChannel, CtlDel, Channels
  <2> QED  BY <1>1, <1>3, <2>1 DEF Sound, Settled, Coherent, Channels, Indices
<1>4. CASE c.index = "kAdded" /\ E # {}
  <2>1. c.registered
    BY <1>4 DEF Sound, Coherent
  <2>2. UpdateChannel(b) = [b EXCEPT !.interest = E]
    BY <1>1, <1>4, <2>1 DEF UpdateChannel, CtlMod, Channels
  <2> QED  BY <1>1, <1>4, <2>1, <2>2 DEF Sound, Settled, Coherent, Channels
<1> QED  BY <1>2, <1>3, <1>4

LEMMA AbleLemma ==
  ASSUME NEW c, Sound(c)
  PROVE  /\ Sound(AbleRead(c)) /\ Settled(AbleRead(c))
         /\ AbleRead(c).events = c.events \cup {"read"}
         /\ Sound(AbleWrite(c)) /\ Settled(AbleWrite(c))
         /\ AbleWrite(c).events = c.events \cup {"write"}
         /\ Sound(DisableWrite(c)) /\ Settled(DisableWrite(c))
         /\ DisableWrite(c).events = c.events \ {"write"}
<1>1. /\ c.events \cup {"read"} \in SUBSET Events
      /\ c.events \cup {"write"} \in SUBSET Events
      /\ c.events \ {"write"} \in SUBSET Events
  BY DEF Sound, Channels, Events
<1> QED  BY <1>1, UpdateLemma DEF AbleRead, AbleWrite, DisableWrite

\* connectDestroyed: whatever the channel was, epoll does not know it any more.
LEMMA DestroyLemma ==
  ASSUME NEW c, Sound(c)
  PROVE  /\ Sound(RemoveChannel(DisableAll(c)))
         /\ ~RemoveChannel(DisableAll(c)).registered
<1> DEFINE d == DisableAll(c)
<1>1. Sound(d)
  BY UpdateLemma DEF DisableAll
<1> HIDE DEF d
<1>2. CASE d.index = "kAdded"
  <2>1. RemoveChannel(d) =
          [d EXCEPT !.registered = FALSE, !.interest = {}, !.index = "kNew"]
    BY <1>1, <1>2 DEF RemoveChannel, CtlDel, Sound, Channels
  <2> QED  BY <1>1, <2>1 DEF Sound, Coherent, Channels, Indices, d
<1>3. CASE d.index # "kAdded"
  <2>1. RemoveChannel(d) = [d EXCEPT !.index = "kNew"]
    BY <1>1, <1>3 DEF RemoveChannel, Sound, Channels
  <2> QED  BY <1>1, <1>3, <2>1 DEF Sound, Coherent, Channels, Indices, d
<1> QED  BY <1>2, <1>3 DEF d
-----------------------------------------------------------------------------
(* Bytes *)

LEMMA BytesType ==
  ASSUME NEW m \in Messages
  PROVE  BytesOf(m) \in Seq(AllBytes) /\ Len(BytesOf(m)) = MsgSize
<1>1. \A k \in 1 .. MsgSize : BytesOf(m)[k] \in AllBytes
  BY DEF AllBytes
<1>2. BytesOf(m) \in [1 .. MsgSize -> AllBytes]
  BY <1>1 DEF BytesOf
<1> QED  BY <1>2, ConnectionAssumption, SeqDef

LEMMA ByteConcat ==
  \A s, t, u \in Seq(AllBytes) : (s \o t) \o u = s \o (t \o u)
BY ConcatAssociative

\* A write takes the front; the rest is kept.
LEMMA SplitLemma ==
  ASSUME NEW S, NEW s \in Seq(S), NEW k \in 0 .. Len(s)
  PROVE  /\ First(s, k) \in Seq(S) /\ Rest(s, k) \in Seq(S)
         /\ First(s, k) \o Rest(s, k) = s
         /\ Rest(s, k) = <<>> <=> k = Len(s)
         /\ k = 0 => First(s, k) = <<>> /\ Rest(s, k) = s
<1>1. Len(s) \in Nat /\ \A i \in 1 .. Len(s) : s[i] \in S
  BY LenProperties, ElementOfSeq
<1>2. First(s, k) \in Seq(S) /\ Rest(s, k) \in Seq(S)
  BY <1>1, SubSeqProperties DEF First, Rest
<1>3. First(s, k) \o Rest(s, k) = s
  <2>1. 1 \in 1 .. Len(s) + 1 /\ k \in 1 - 1 .. Len(s) /\ Len(s) \in k .. Len(s)
    BY <1>1
  <2>2. SubSeq(s, 1, k) \o SubSeq(s, k + 1, Len(s)) = SubSeq(s, 1, Len(s))
    BY <2>1, ConcatAdjacentSubSeq
  <2> QED  BY <2>2, SubSeqFull DEF First, Rest
<1>4. Rest(s, k) = <<>> <=> k = Len(s)
  <2>1. Len(Rest(s, k)) = IF k + 1 <= Len(s) THEN Len(s) - (k + 1) + 1 ELSE 0
    BY <1>1, SubSeqProperties DEF Rest
  <2>2. CASE k = Len(s)
    BY <1>1, <2>2, SubSeqEmpty DEF Rest
  <2>3. CASE k < Len(s)
    BY <1>1, <2>1, <2>3, EmptySeq
  <2> QED  BY <1>1, <2>2, <2>3
<1>5. ASSUME k = 0
      PROVE  First(s, k) = <<>> /\ Rest(s, k) = s
  BY <1>1, <1>5, SubSeqEmpty, SubSeqFull DEF First, Rest
<1> QED  BY <1>2, <1>3, <1>4, <1>5

LEMMA PrefixLemma ==
  ASSUME NEW S, NEW s \in Seq(S), NEW t \in Seq(S), NEW u \in Seq(S)
  PROVE  /\ IsPrefixOf(s, s \o t)
         /\ IsPrefixOf(s, t) => IsPrefixOf(s, t \o u)
<1>1. ASSUME NEW x \in Seq(S), NEW y \in Seq(S)
      PROVE  /\ x \o y \in Seq(S)
             /\ Len(x) \in Nat /\ Len(y) \in Nat
             /\ Len(x \o y) = Len(x) + Len(y)
             /\ \A i \in 1 .. Len(x) : (x \o y)[i] = x[i]
             /\ \A i \in 1 .. Len(x) : x[i] \in S
  BY ConcatProperties, LenProperties, ElementOfSeq
<1>2. ASSUME NEW x \in Seq(S), NEW y \in Seq(S),
             Len(x) <= Len(y), \A i \in 1 .. Len(x) : y[i] = x[i]
      PROVE  IsPrefixOf(x, y)
  <2>1. \A i \in 1 .. Len(x) : y[i] \in S
    BY <1>1, <1>2
  <2>2. /\ SubSeq(y, 1, Len(x)) \in Seq(S)
        /\ Len(SubSeq(y, 1, Len(x))) = Len(x)
        /\ \A i \in 1 .. Len(x) : SubSeq(y, 1, Len(x))[i] = y[i]
    BY <1>1, <2>1, SubSeqProperties
  <2>3. x = SubSeq(y, 1, Len(x))
    BY <1>2, <2>2, SeqEqual
  <2> QED  BY <1>2, <2>3 DEF IsPrefixOf
<1>3. IsPrefixOf(s, s \o t)
  <2>1. s \o t \in Seq(S) /\ Len(s) <= Len(s \o t)
    BY <1>1
  <2> QED  BY <1>1, <1>2, <2>1
<1>4. ASSUME IsPrefixOf(s, t)
      PROVE  IsPrefixOf(s, t \o u)
  <2>1. Len(s) <= Len(t) /\ \A i \in 1 .. Len(s) : t[i] = s[i]
    <3>1. \A i \in 1 .. Len(s) : SubSeq(t, 1, Len(s))[i] = t[i]
      BY <1>1, <1>4, SubSeqProperties DEF IsPrefixOf
    <3> QED  BY <1>4, <3>1 DEF IsPrefixOf
  <2>2. t \o u \in Seq(S) /\ Len(t \o u) = Len(t) + Len(u)
    BY <1>1
  <2>3. Len(s) <= Len(t \o u) /\ \A i \in 1 .. Len(s) : (t \o u)[i] = s[i]
    BY <1>1, <2>1, <2>2
  <2> QED  BY <1>2, <2>2, <2>3
<1> QED  BY <1>3, <1>4
-----------------------------------------------------------------------------
(* The invariants *)

\* Who is about to queue a message has counted it; a removal needs a close.
CallInv ==
  /\ \A p \in Threads : caller[p] = "send" => sent[p] > 0
  /\ removals <= closes

\* Until the end, the channel is in epoll with what it wants, and it wants EPOLLOUT
\* exactly while bytes wait.
WriteInv ==
  /\ Sound(chan)
  /\ ~destroyed => Settled(chan) /\ (IsWriting(chan) <=> output # <<>>)

\* Before connectEstablished nothing can happen to the connection, and it comes first.
StartInv ==
  /\ state = "kConnecting" =>
       /\ chan = NewChannel
       /\ at = "loop"
       /\ \A p \in Threads : caller[p] = "idle"
       /\ queue # <<>> /\ queue[1] = <<"establish">>
  /\ \A i \in 1 .. Len(queue) :
       queue[i] = <<"establish">> => i = 1 /\ state = "kConnecting"

IInv == TypeOK /\ CallInv /\ WriteInv /\ StreamInOrder /\ StartInv

LEMMA InitInv == Init => IInv
<1> SUFFICES ASSUME Init PROVE IInv
  OBVIOUS
<1>1. /\ <<>> \in Seq(AllBytes) /\ Len(<<>>) = 0
      /\ <<<<"establish">>>> \in Seq(Functors) /\ Len(<<<<"establish">>>>) = 1
  BY EmptySeq DEF Functors
<1>2. chan \in Channels
  BY DEF Init, NewChannel, Channels, Indices
<1>3. TypeOK
  <2>1. /\ output \in Seq(AllBytes) /\ wire \in Seq(AllBytes) /\ taken \in Seq(AllBytes)
        /\ queue \in Seq(Functors)
    BY <1>1 DEF Init
  <2>2. sent \in [Senders -> Nat] /\ \A p \in Senders : sent[p] <= Sends[p]
    BY ConnectionAssumption DEF Init
  <2>3. removals \in 0 .. MaxCloses /\ closes \in 0 .. MaxCloses
    BY ConnectionAssumption DEF Init
  <2>4. caller \in [Threads -> {"idle", "send", "shutdown", "queueShutdown"}]
    BY DEF Init
  <2> QED  BY <1>2, <2>1, <2>2, <2>3, <2>4 DEF Init, TypeOK, States
<1>4. WriteInv
  BY <1>2 DEF Init, WriteInv, Sound, Settled, Coherent, NewChannel, IsWriting
<1>5. StreamInOrder
  <2>1. <<>> \o <<>> = <<>>
    BY <1>1, ConcatEmptySeq
  <2>2. IsPrefixOf(<<>>, <<>> \o <<>>)
    BY <1>1, PrefixLemma
  <2> QED  BY <2>1, <2>2 DEF Init, StreamInOrder
<1>6. CallInv /\ StartInv
  BY <1>1, ConnectionAssumption DEF Init, CallInv, StartInv
<1> QED  BY <1>3, <1>4, <1>5, <1>6 DEF IInv
-----------------------------------------------------------------------------
(* sendInLoop *)

LEMMA BufferedLemma ==
  ASSUME Sound(chan), output \in Seq(AllBytes),
         NEW data \in Seq(AllBytes), Buffered(data)
  PROVE  /\ output' \in Seq(AllBytes) /\ output' = output \o data
         /\ Sound(chan)'
         /\ Settled(chan) /\ (IsWriting(chan) <=> output # <<>>)
              => Settled(chan)' /\ (IsWriting(chan)' <=> output' # <<>>)
<1>1. output' = output \o data /\ output' \in Seq(AllBytes)
  BY ConcatProperties DEF Buffered
<1>2. output' = <<>> <=> output = <<>> /\ data = <<>>
  BY <1>1, ConcatEqualIffEmpty
<1>3. CASE data # <<>> /\ ~IsWriting(chan)
  <2>1. chan' = AbleWrite(chan)
    BY <1>3 DEF Buffered
  <2> QED  BY <1>1, <1>2, <1>3, <2>1, AbleLemma DEF IsWriting
<1>4. CASE data = <<>> \/ IsWriting(chan)
  <2>1. chan' = chan
    BY <1>4 DEF Buffered
  <2>2. IsWriting(chan)' <=> IsWriting(chan)
    BY <2>1 DEF IsWriting
  <2> QED  BY <1>1, <1>2, <1>4, <2>1, <2>2 DEF Settled, Sound, Coherent
<1> QED  BY <1>3, <1>4

\* Whatever path it takes, the stream and the interest stay as they should be.
LEMMA SendInLoopLemma ==
  ASSUME TypeOK, WriteInv, StreamInOrder, UNCHANGED <<destroyed, fin>>,
         NEW m \in Messages, SendInLoop(m)
  PROVE  /\ output' \in Seq(AllBytes) /\ wire' \in Seq(AllBytes) /\ taken' \in Seq(AllBytes)
         /\ peer' \in {"up", "closed", "reset", "gone"}
         /\ WriteInv' /\ StreamInOrder'
<1> DEFINE data == BytesOf(m)
<1>0. /\ output \in Seq(AllBytes) /\ wire \in Seq(AllBytes) /\ taken \in Seq(AllBytes)
      /\ peer \in {"up", "closed", "reset", "gone"}
      /\ data \in Seq(AllBytes) /\ Len(data) = MsgSize
      /\ Sound(chan)
  BY BytesType DEF TypeOK, WriteInv
<1> HIDE DEF data
<1>1. CASE TakeNothing
  BY <1>0, <1>1 DEF TakeNothing, WriteInv, StreamInOrder, Sound, Settled, Coherent,
                    IsWriting, Broken, IsPrefixOf
<1>2. ASSUME taken' = taken \o data
      PROVE  taken' \in Seq(AllBytes) /\ IsPrefixOf(wire, taken')
  BY <1>0, <1>2, ConcatProperties, PrefixLemma DEF StreamInOrder
<1>3. CASE /\ taken' = taken \o data
           /\ MayWriteDirectly /\ ~Broken
           /\ \E k \in 0 .. MsgSize : Write(data, k) /\ Buffered(Rest(data, k))
  <2>1. PICK k \in 0 .. Len(data) : Write(data, k) /\ Buffered(Rest(data, k))
    BY <1>0, <1>3
  <2>2. /\ First(data, k) \in Seq(AllBytes) /\ Rest(data, k) \in Seq(AllBytes)
        /\ First(data, k) \o Rest(data, k) = data
    BY <1>0, SplitLemma
  <2>3. wire' = wire \o First(data, k) /\ wire' \in Seq(AllBytes) /\ peer' = peer
    BY <1>0, <1>3, <2>1, <2>2, ConcatProperties DEF Write, Broken
  <2>4. /\ output' \in Seq(AllBytes) /\ output' = output \o Rest(data, k) /\ Sound(chan)'
        /\ WriteInv'
    BY <1>0, <2>1, <2>2, BufferedLemma DEF WriteInv
  <2>5. output = <<>> /\ output' = Rest(data, k) /\ wire = taken
    BY <1>0, <1>3, <2>2, <2>4, ConcatEmptySeq DEF MayWriteDirectly, StreamInOrder
  <2>6. wire' \o output' = taken'
    <3>1. (wire \o First(data, k)) \o Rest(data, k) = wire \o (First(data, k) \o Rest(data, k))
      BY <1>0, <2>2, ByteConcat, Zenon
    <3> QED  BY <1>3, <2>2, <2>3, <2>5, <3>1
  <2>7. IsPrefixOf(wire, taken)'
    BY <2>3, <2>4, <2>6, PrefixLemma
  <2> QED  BY <1>0, <1>2, <1>3, <2>3, <2>4, <2>6, <2>7 DEF StreamInOrder
<1>4. CASE /\ taken' = taken \o data
           /\ Broken /\ Write(data, 0) /\ UNCHANGED <<chan, output>>
  <2>1. First(data, 0) = <<>>
    BY <1>0, SplitLemma, ConnectionAssumption
  <2>2. wire' = wire
    BY <1>0, <1>4, <2>1, ConcatEmptySeq DEF Write
  <2>3. peer' \in {"up", "closed", "reset", "gone"} /\ Broken'
    BY <1>0, <1>4 DEF Write, Broken
  <2>4. WriteInv'
    BY <1>4 DEF WriteInv, Sound, Settled, Coherent, IsWriting
  <2>5. StreamInOrder'
    BY <1>2, <1>4, <2>2, <2>3 DEF StreamInOrder, IsPrefixOf
  <2> QED  BY <1>0, <1>2, <1>4, <2>2, <2>3, <2>4, <2>5
<1>5. CASE /\ taken' = taken \o data
           /\ Buffered(data) /\ UNCHANGED <<peer, wire>>
  <2>1. output' \in Seq(AllBytes) /\ output' = output \o data /\ WriteInv'
    BY <1>0, <1>5, BufferedLemma DEF WriteInv
  <2>2. wire \o output = taken => wire \o output' = taken'
    <3>1. (wire \o output) \o data = wire \o (output \o data)
      BY <1>0, ByteConcat
    <3> QED  BY <1>5, <2>1, <3>1
  <2>3. StreamInOrder'
    BY <1>2, <1>5, <2>2 DEF StreamInOrder, IsPrefixOf, Broken
  <2> QED  BY <1>0, <1>2, <1>5, <2>1, <2>3
<1> QED  BY <1>1, <1>3, <1>4, <1>5 DEF SendInLoop, data
-----------------------------------------------------------------------------
(* The functors of the loop *)

LEMMA RunFunctorInv ==
  ASSUME IInv, RunFunctor
  PROVE  IInv'
<1> DEFINE f == Head(queue)
<1>0. /\ TypeOK /\ CallInv /\ WriteInv /\ StreamInOrder /\ StartInv
      /\ queue \in Seq(Functors) /\ queue # <<>>
      /\ queue' = Tail(queue) /\ UNCHANGED <<removals, closes, dropped, caller, sent>>
  BY DEF IInv, TypeOK, RunFunctor
<1>1. /\ f \in Functors /\ f = queue[1] /\ 1 \in 1 .. Len(queue)
      /\ queue' \in Seq(Functors) /\ Len(queue') = Len(queue) - 1 /\ Len(queue) \in Nat
      /\ \A i \in 1 .. Len(queue') : queue'[i] = queue[i + 1]
  BY <1>0, HeadTailProperties, EmptySeq, LenProperties
<1>2. \A i \in 1 .. Len(queue') : queue'[i] # <<"establish">>
  <2> SUFFICES ASSUME NEW i \in 1 .. Len(queue'), queue[i + 1] = <<"establish">>
               PROVE  FALSE
    BY <1>1
  <2> QED  BY <1>0, <1>1 DEF StartInv
<1>3. CallInv'
  BY <1>0 DEF CallInv
<1> HIDE DEF f
<1>4. state = "kConnecting" => f = <<"establish">>
  BY <1>0, <1>1 DEF StartInv
<1>5. CASE f[1] = "establish" /\ Establish
  <2>1. Sound(chan') /\ Settled(chan') /\ (IsWriting(chan') <=> IsWriting(chan))
    BY <1>0, <1>5, AbleLemma DEF Establish, WriteInv, IsWriting
  <2>2. TypeOK'
    BY <1>0, <1>1, <1>5, <2>1 DEF Establish, TypeOK, States, Sound
  <2>3. WriteInv'
    BY <1>0, <1>5, <2>1 DEF Establish, WriteInv, Sound, Settled, Coherent, IsWriting
  <2>4. StreamInOrder'
    BY <1>0, <1>5 DEF Establish, StreamInOrder, IsPrefixOf, Broken
  <2>5. StartInv'
    BY <1>2, <1>5 DEF Establish, StartInv
  <2> QED  BY <1>3, <2>2, <2>3, <2>4, <2>5 DEF IInv
<1>6. CASE f[1] = "destroy" /\ Destroy
  <2>1. state # "kConnecting"
    BY <1>4, <1>6
  <2>2. Sound(chan')
    BY <1>0, <1>6, DestroyLemma DEF Destroy, WriteInv
  <2>3. TypeOK'
    BY <1>0, <1>1, <1>6, <2>2 DEF Destroy, TypeOK, States, Sound
  <2>4. WriteInv'
    BY <1>6, <2>2 DEF Destroy, WriteInv, Sound, Coherent
  <2>5. StreamInOrder'
    BY <1>0, <1>6 DEF Destroy, StreamInOrder, IsPrefixOf, Broken
  <2>6. StartInv'
    BY <1>2, <1>6, <2>1 DEF Destroy, StartInv
  <2> QED  BY <1>3, <2>3, <2>4, <2>5, <2>6 DEF IInv
<1>7. CASE /\ f[1] = "send" /\ SendInLoop(f[2])
           /\ at' = (IF WrittenAtOnce(f[2]) THEN "user" ELSE at)
           /\ UNCHANGED <<state, destroyed, fin>>
  <2>1. f[2] \in Messages
    BY <1>1, <1>7 DEF Functors
  <2>2. /\ output' \in Seq(AllBytes) /\ wire' \in Seq(AllBytes) /\ taken' \in Seq(AllBytes)
        /\ peer' \in {"up", "closed", "reset", "gone"}
        /\ WriteInv' /\ StreamInOrder'
    BY <1>0, <1>7, <2>1, SendInLoopLemma
  <2>3. at' \in {"loop", "user", "drained"}
    BY <1>0, <1>7 DEF TypeOK
  <2>4. TypeOK'
    BY <1>0, <1>1, <1>7, <2>2, <2>3 DEF TypeOK, WriteInv, Sound
  <2>5. StartInv'
    BY <1>2, <1>4, <1>7 DEF StartInv
  <2> QED  BY <1>3, <2>2, <2>4, <2>5 DEF IInv
<1>8. CASE /\ f[1] = "shutdown" /\ ShutdownInLoop
           /\ UNCHANGED <<state, chan, output, at, destroyed, peer, wire, taken>>
  <2>1. fin' \in BOOLEAN /\ (fin => fin')
    BY <1>0, <1>8 DEF ShutdownInLoop, TypeOK
  <2>2. TypeOK'
    BY <1>0, <1>1, <1>8, <2>1 DEF TypeOK
  <2>3. WriteInv'
    BY <1>0, <1>8 DEF WriteInv, Sound, Settled, Coherent, IsWriting
  <2>4. StreamInOrder'
    BY <1>0, <1>8, <2>1 DEF StreamInOrder, IsPrefixOf, Broken
  <2>5. StartInv'
    BY <1>2, <1>4, <1>8 DEF StartInv
  <2> QED  BY <1>3, <2>2, <2>3, <2>4, <2>5 DEF IInv
<1> QED  BY <1>5, <1>6, <1>7, <1>8 DEF RunFunctor, f
-----------------------------------------------------------------------------
(* The events of the channel, and what callbacks do *)

\* Nothing of the channel or of the stream changes.
LEMMA KeepLemma ==
  ASSUME IInv, UNCHANGED <<chan, output, destroyed, wire, fin, taken>>,
         peer \in {"reset", "gone"} => peer' \in {"reset", "gone"}
  PROVE  WriteInv' /\ StreamInOrder'
BY DEF IInv, WriteInv, Sound, Settled, Coherent, IsWriting, StreamInOrder, IsPrefixOf, Broken

\* A channel that sees an event has been established.
LEMMA SeesLemma ==
  ASSUME IInv, \/ chan.interest # {} \/ chan.registered \/ at # "loop"
  PROVE  state # "kConnecting"
BY DEF IInv, StartInv, NewChannel

LEMMA EventInv ==
  ASSUME IInv, HandleMessage \/ HandleError \/ HandleClose \/ EndUser \/ EndDrained
  PROVE  IInv'
<1>0. TypeOK /\ CallInv /\ StartInv
  BY DEF IInv
<1>1. CASE HandleMessage
  <2>1. state # "kConnecting"
    BY <1>1, SeesLemma DEF HandleMessage
  <2> QED  BY <1>0, <1>1, <2>1, KeepLemma
           DEF HandleMessage, world, IInv, TypeOK, CallInv, StartInv
<1>2. CASE HandleError
  <2>1. state # "kConnecting"
    BY <1>2, SeesLemma DEF HandleError
  <2> QED  BY <1>0, <1>2, <2>1, KeepLemma
           DEF HandleError, local, IInv, TypeOK, CallInv, StartInv
<1>3. CASE HandleClose
  <2>1. state # "kConnecting"
    BY <1>3, SeesLemma DEF HandleClose, CloseSeen
  <2>2. /\ closes' = closes + 1 /\ removals' = removals + 1
        /\ closes' \in 0 .. MaxCloses /\ removals' \in 0 .. MaxCloses /\ removals' <= closes'
    BY <1>0, <1>3, ConnectionAssumption DEF HandleClose, TypeOK, CallInv
  <2>3. WriteInv' /\ StreamInOrder'
    BY <1>3, KeepLemma DEF HandleClose
  <2>4. TypeOK'
    BY <1>0, <1>3, <2>2 DEF HandleClose, TypeOK, States
  <2> QED  BY <1>0, <1>3, <2>1, <2>2, <2>3, <2>4 DEF HandleClose, IInv, CallInv, StartInv
<1>4. CASE EndUser
  <2>1. state # "kConnecting"
    BY <1>4, SeesLemma DEF EndUser
  <2> QED  BY <1>0, <1>4, <2>1, KeepLemma DEF EndUser, world, IInv, TypeOK, CallInv, StartInv
<1>5. CASE EndDrained
  <2>1. state # "kConnecting"
    BY <1>5, SeesLemma DEF EndDrained
  <2>2. fin' \in BOOLEAN /\ (fin => fin')
    BY <1>0, <1>5 DEF EndDrained, ShutdownInLoop, TypeOK
  <2>3. WriteInv' /\ StreamInOrder'
    BY <1>5, <2>2 DEF EndDrained, world, IInv, WriteInv, Sound, Settled, Coherent, IsWriting,
                      StreamInOrder, IsPrefixOf, Broken
  <2> QED  BY <1>0, <1>5, <2>1, <2>2, <2>3 DEF EndDrained, world, IInv, TypeOK, CallInv, StartInv
<1> QED  BY <1>1, <1>2, <1>3, <1>4, <1>5

\* Bytes move from the front of the buffer to the end of the wire.
LEMMA HandleWriteInv ==
  ASSUME IInv, HandleWrite
  PROVE  IInv'
<1>0. /\ TypeOK /\ CallInv /\ WriteInv /\ StreamInOrder /\ StartInv
      /\ output \in Seq(AllBytes) /\ wire \in Seq(AllBytes) /\ taken \in Seq(AllBytes)
      /\ peer \in {"up", "closed", "reset", "gone"} /\ Sound(chan)
      /\ UNCHANGED <<state, queue, removals, closes, destroyed, dropped, caller, sent, fin, taken>>
  BY DEF IInv, TypeOK, WriteInv, HandleWrite
<1>1. state # "kConnecting"
  BY SeesLemma DEF HandleWrite
<1>2. PICK k \in 0 .. Len(output) :
        /\ Write(output, k) /\ output' = Rest(output, k)
        /\ IF k > 0 /\ k = Len(output)
             THEN chan' = DisableWrite(chan) /\ at' = "drained"
             ELSE UNCHANGED <<chan, at>>
  BY DEF HandleWrite
<1>3. /\ First(output, k) \in Seq(AllBytes) /\ Rest(output, k) \in Seq(AllBytes)
      /\ First(output, k) \o Rest(output, k) = output
      /\ Rest(output, k) = <<>> <=> k = Len(output)
      /\ k = 0 => First(output, k) = <<>> /\ Rest(output, k) = output
      /\ Len(output) \in Nat
  BY <1>0, SplitLemma, LenProperties
<1>4. /\ wire' = wire \o First(output, k) /\ wire' \in Seq(AllBytes)
      /\ peer' \in {"up", "closed", "reset", "gone"} /\ (Broken' <=> Broken)
      /\ Broken => k = 0
  BY <1>0, <1>2, <1>3, ConcatProperties DEF Write, Broken
<1>5. WriteInv'
  <2>1. CASE k > 0 /\ k = Len(output)
    BY <1>0, <1>2, <1>3, <2>1, AbleLemma DEF WriteInv, IsWriting
  <2>2. CASE ~(k > 0 /\ k = Len(output))
    <3>1. chan' = chan
      BY <1>2, <2>2
    <3>2. CASE k = 0
      BY <1>0, <1>2, <1>3, <3>1, <3>2 DEF WriteInv, Sound, Settled, Coherent, IsWriting
    <3>3. CASE k # 0
      <4>1. k > 0 /\ k # Len(output)
        BY <1>3, <2>2, <3>3
      <4>2. output # <<>> /\ output' # <<>>
        BY <1>2, <1>3, <4>1, EmptySeq
      <4> QED  BY <1>0, <3>1, <4>2 DEF WriteInv, Sound, Settled, Coherent, IsWriting
    <3> QED  BY <3>2, <3>3
  <2> QED  BY <2>1, <2>2
<1>6. StreamInOrder'
  <2>1. CASE Broken
    <3>1. wire' = wire
      BY <1>0, <1>3, <1>4, <2>1, ConcatEmptySeq
    <3> QED  BY <1>0, <1>4, <2>1, <3>1 DEF StreamInOrder, IsPrefixOf
  <2>2. CASE ~Broken
    <3>1. (wire \o First(output, k)) \o Rest(output, k) = wire \o (First(output, k) \o Rest(output, k))
      BY <1>0, <1>3, ByteConcat, Zenon
    <3>2. wire' \o output' = taken'
      BY <1>0, <1>2, <1>3, <1>4, <2>2, <3>1 DEF StreamInOrder
    <3>3. output' \in Seq(AllBytes)
      BY <1>2, <1>3
    <3>4. IsPrefixOf(wire', taken')
      BY <1>4, <3>2, <3>3, PrefixLemma
    <3> QED  BY <3>2, <3>4 DEF StreamInOrder, IsPrefixOf
  <2> QED  BY <2>1, <2>2
<1>7. TypeOK'
  <2>1. chan' \in Channels /\ output' \in Seq(AllBytes)
    BY <1>2, <1>3, <1>5 DEF WriteInv, Sound
  <2>2. at' \in {"loop", "user", "drained"}
    BY <1>0, <1>2 DEF TypeOK
  <2> QED  BY <1>0, <1>4, <2>1, <2>2 DEF TypeOK
<1> QED  BY <1>0, <1>1, <1>5, <1>6, <1>7 DEF IInv, CallInv, StartInv
-----------------------------------------------------------------------------
(* send() and shutdown() *)

LEMMA LoopCallInv ==
  ASSUME IInv, LoopSend \/ LoopShutdown
  PROVE  IInv'
<1>0. TypeOK /\ CallInv /\ WriteInv /\ StreamInOrder /\ StartInv
  BY DEF IInv
<1>1. CASE LoopSend
  <2>1. /\ sent[Loop] < Sends[Loop] /\ sent[Loop] \in Nat /\ Sends[Loop] \in Nat
        /\ sent' = [sent EXCEPT ![Loop] = sent[Loop] + 1]
        /\ Loop \in Senders
    BY <1>0, <1>1, ConnectionAssumption DEF LoopSend, CountSend, TypeOK, Senders
  <2>2. NextMessage(Loop) \in Messages
    <3>1. sent[Loop] + 1 \in 1 .. Sends[Loop]
      BY <2>1
    <3> QED  BY <2>1, <3>1 DEF NextMessage, Messages
  <2>3. /\ output' \in Seq(AllBytes) /\ wire' \in Seq(AllBytes) /\ taken' \in Seq(AllBytes)
        /\ peer' \in {"up", "closed", "reset", "gone"}
        /\ WriteInv' /\ StreamInOrder'
    BY <1>0, <1>1, <2>2, SendInLoopLemma DEF LoopSend
  <2>4. sent' \in [Senders -> Nat] /\ \A p \in Senders : sent'[p] <= Sends[p]
    BY <1>0, <2>1 DEF TypeOK
  <2>5. TypeOK'
    BY <1>0, <1>1, <2>3, <2>4 DEF LoopSend, TypeOK, WriteInv, Sound
  <2>6. CallInv'
    <3>1. \A p \in Threads : p \in Senders /\ p # Loop
      BY ConnectionAssumption DEF Senders
    <3> QED  BY <1>0, <1>1, <2>1, <3>1 DEF LoopSend, TypeOK, CallInv
  <2>7. StartInv'
    BY <1>0, <1>1 DEF LoopSend, StartInv
  <2> QED  BY <2>3, <2>5, <2>6, <2>7 DEF IInv
<1>2. CASE LoopShutdown
  <2>1. fin' \in BOOLEAN /\ (fin => fin')
    BY <1>0, <1>2 DEF LoopShutdown, ShutdownInLoop, TypeOK
  <2>2. WriteInv' /\ StreamInOrder'
    BY <1>0, <1>2, <2>1 DEF LoopShutdown, world, WriteInv, Sound, Settled, Coherent, IsWriting,
                            StreamInOrder, IsPrefixOf, Broken
  <2>3. StartInv'
    BY <1>0, <1>2 DEF LoopShutdown, StartInv
  <2> QED  BY <1>0, <1>2, <2>1, <2>2, <2>3 DEF LoopShutdown, world, IInv, TypeOK, States, CallInv
<1> QED  BY <1>1, <1>2

\* A functor other than connectEstablished joins the queue.
LEMMA QueueLemma ==
  ASSUME IInv, NEW f \in Functors, f # <<"establish">>, queue' = Append(queue, f),
         UNCHANGED <<state, chan, at>>,
         state = "kConnecting" => UNCHANGED caller
  PROVE  queue' \in Seq(Functors) /\ StartInv'
<1>0. queue \in Seq(Functors) /\ StartInv
  BY DEF IInv, TypeOK
<1>1. /\ queue' \in Seq(Functors) /\ Len(queue') = Len(queue) + 1 /\ Len(queue) \in Nat
      /\ \A i \in 1 .. Len(queue) : queue'[i] = queue[i]
      /\ queue'[Len(queue) + 1] = f
  BY <1>0, AppendProperties, LenProperties
<1>2. queue # <<>> => queue' # <<>> /\ queue'[1] = queue[1]
  <2>1. queue # <<>> => 1 \in 1 .. Len(queue)
    BY <1>0, EmptySeq
  <2>2. queue' # <<>>
    BY <1>1, EmptySeq
  <2> QED  BY <1>1, <2>1, <2>2
<1>3. \A i \in 1 .. Len(queue') : queue'[i] = <<"establish">> => i = 1 /\ state = "kConnecting"
  <2> SUFFICES ASSUME NEW i \in 1 .. Len(queue'), queue'[i] = <<"establish">>
               PROVE  i = 1 /\ state = "kConnecting"
    OBVIOUS
  <2>1. i # Len(queue) + 1
    BY <1>1
  <2>2. i \in 1 .. Len(queue) /\ queue[i] = <<"establish">>
    BY <1>1, <2>1
  <2> QED  BY <1>0, <2>2 DEF StartInv
<1>4. state = "kConnecting" =>
        /\ chan = NewChannel /\ at = "loop"
        /\ \A p \in Threads : caller[p] = "idle"
        /\ queue # <<>> /\ queue[1] = <<"establish">>
  BY <1>0 DEF StartInv
<1> QED  BY <1>1, <1>2, <1>3, <1>4 DEF StartInv

LEMMA ThreadInv ==
  ASSUME IInv, NEW p \in Threads, Send(p) \/ Shutdown(p) \/ CallStep(p)
  PROVE  IInv'
<1>0. /\ TypeOK /\ CallInv /\ WriteInv /\ StreamInOrder /\ StartInv
      /\ p \in Senders
  BY DEF IInv, Senders
<1>1. WriteInv' /\ StreamInOrder'
  BY KeepLemma DEF Send, Shutdown, CallStep, QueueSend, SetDisconnecting, QueueShutdown,
                   local, world
<1>2. state = "kConnecting" => caller[p] = "idle"
  BY <1>0 DEF StartInv
<1>3. CASE Send(p)
  <2>1. /\ sent[p] < Sends[p] /\ sent[p] \in Nat /\ Sends[p] \in Nat
        /\ sent' = [sent EXCEPT ![p] = sent[p] + 1]
    BY <1>0, <1>3, ConnectionAssumption DEF Send, CountSend, TypeOK
  <2>2. sent' \in [Senders -> Nat] /\ \A q \in Senders : sent'[q] <= Sends[q]
    BY <1>0, <2>1 DEF TypeOK
  <2>3. TypeOK'
    BY <1>0, <1>3, <2>2 DEF Send, Call, local, world, TypeOK
  <2>4. CallInv'
    BY <1>0, <1>3, <2>1 DEF Send, Call, world, TypeOK, CallInv, Senders
  <2>5. StartInv'
    BY <1>0, <1>3 DEF Send, local, StartInv
  <2> QED  BY <1>1, <2>3, <2>4, <2>5 DEF IInv
<1>4. CASE Shutdown(p)
  <2>1. StartInv'
    BY <1>0, <1>4 DEF Shutdown, local, StartInv
  <2> QED  BY <1>0, <1>1, <1>4, <2>1 DEF Shutdown, Call, local, world, IInv, TypeOK, CallInv
<1>5. CASE QueueSend(p)
  <2>1. sent[p] \in 1 .. Sends[p]
    BY <1>0, <1>5, ConnectionAssumption DEF QueueSend, Call, CallInv, TypeOK
  <2>2. <<"send", <<p, sent[p]>>>> \in Functors
    <3>1. <<p, sent[p]>> \in Messages
      BY <1>0, <2>1 DEF Messages
    <3> QED  BY <3>1 DEF Functors
  <2>3. queue' \in Seq(Functors) /\ StartInv'
    BY <1>2, <1>5, <2>2, QueueLemma DEF QueueSend, Call
  <2> QED  BY <1>0, <1>1, <1>5, <2>3 DEF QueueSend, Call, world, IInv, TypeOK, CallInv
<1>6. CASE SetDisconnecting(p)
  <2>1. StartInv'
    BY <1>0, <1>2, <1>6 DEF SetDisconnecting, Call, StartInv
  <2> QED  BY <1>0, <1>1, <1>6, <2>1
           DEF SetDisconnecting, Call, world, IInv, TypeOK, States, CallInv
<1>7. CASE QueueShutdown(p)
  <2>1. queue' \in Seq(Functors) /\ StartInv'
    BY <1>2, <1>7, QueueLemma DEF QueueShutdown, Call, Functors
  <2> QED  BY <1>0, <1>1, <1>7, <2>1 DEF QueueShutdown, Call, world, IInv, TypeOK, CallInv
<1> QED  BY <1>3, <1>4, <1>5, <1>6, <1>7 DEF CallStep

LEMMA WorldInv ==
  ASSUME IInv, RemoveConnection \/ DropConnection \/ PeerCloses \/ PeerResets
  PROVE  IInv'
<1>0. TypeOK /\ CallInv /\ StartInv
  BY DEF IInv
<1>1. WriteInv' /\ StreamInOrder'
  BY KeepLemma DEF RemoveConnection, DropConnection, PeerCloses, PeerResets, local
<1>2. CASE RemoveConnection
  <2>1. queue' \in Seq(Functors) /\ StartInv'
    BY <1>2, QueueLemma DEF RemoveConnection, Functors
  <2>2. removals' \in 0 .. MaxCloses /\ removals' <= closes
    BY <1>0, <1>2, ConnectionAssumption DEF RemoveConnection, TypeOK, CallInv
  <2> QED  BY <1>0, <1>1, <1>2, <2>1, <2>2 DEF RemoveConnection, IInv, TypeOK, CallInv
<1>3. CASE DropConnection
  <2>1. queue' \in Seq(Functors) /\ StartInv'
    BY <1>3, QueueLemma DEF DropConnection, Functors
  <2> QED  BY <1>0, <1>1, <1>3, <2>1 DEF DropConnection, IInv, TypeOK, CallInv
<1>4. CASE PeerCloses
  BY <1>0, <1>1, <1>4 DEF PeerCloses, local, IInv, TypeOK, CallInv, StartInv
<1>5. CASE PeerResets
  BY <1>0, <1>1, <1>5 DEF PeerResets, local, IInv, TypeOK, CallInv, StartInv
<1> QED  BY <1>2, <1>3, <1>4, <1>5
-----------------------------------------------------------------------------
(* Theorems *)

LEMMA NextInv == IInv /\ [Next]_connVars => IInv'
<1> SUFFICES ASSUME IInv, [Next]_connVars PROVE IInv'
  OBVIOUS
<1>1. CASE UNCHANGED connVars
  BY <1>1 DEF connVars, local, world, IInv, TypeOK, CallInv, WriteInv, Sound, Settled, Coherent,
              IsWriting, StreamInOrder, IsPrefixOf, Broken, StartInv
<1> QED  BY <1>1, RunFunctorInv, EventInv, HandleWriteInv, LoopCallInv, ThreadInv, WorldInv
         DEF Next, LoopStep

LEMMA AlwaysInv == Spec => []IInv
<1> QED  BY InitInv, NextInv, PTL DEF Spec

\* Connection, channel, queue and stream keep their types; every functor that is
\* queued carries a message that was sent (TcpConnection.cpp:34-65).
THEOREM TypeCorrect == Spec => []TypeOK
<1>1. IInv => TypeOK
  BY DEF IInv
<1> QED  BY <1>1, AlwaysInv, PTL

\* The connection is registered for EPOLLOUT exactly while bytes wait, and the
\* poller never loses track of the channel (TcpConnection.cpp:111-135, 168-211).
THEOREM WriteInterestExact == Spec => []WriteInterest
<1>1. IInv => WriteInterest
  BY DEF IInv, WriteInv, Sound, Settled, Coherent, IsWriting, WriteInterest
<1> QED  BY <1>1, AlwaysInv, PTL

\* No message overtakes another, no byte is lost or doubled while the connection
\* can carry data (TcpConnection.cpp:168-211).
THEOREM StreamStaysInOrder == Spec => []StreamInOrder
<1>1. IInv => StreamInOrder
  BY DEF IInv
<1> QED  BY <1>1, AlwaysInv, PTL

\* shutdownWrite() waits for the output buffer (TcpConnection.cpp:213-220).
THEOREM FinWaits == Spec => FinAfterDrain
<1>1. IInv /\ [Next]_connVars => [fin' /\ ~fin => output = <<>> \/ destroyed]_connVars
  <2> SUFFICES ASSUME IInv, Next, fin', ~fin, ~destroyed PROVE output = <<>>
    OBVIOUS
  <2>1. ~IsWriting(chan)
    BY DEF Next, LoopStep, CallStep, RunFunctor, Establish, Destroy, ShutdownInLoop, HandleClose,
           EndUser, EndDrained, HandleMessage, HandleError, HandleWrite, LoopSend, LoopShutdown,
           QueueSend, SetDisconnecting, QueueShutdown, Send, Shutdown, RemoveConnection,
           DropConnection, PeerCloses, PeerResets
  <2> QED  BY <2>1 DEF IInv, WriteInv
<1> QED  BY <1>1, AlwaysInv, PTL DEF Spec, FinAfterDrain

\* When connectDestroyed or anything else runs, connectEstablished has run.
LEMMA NoEstablish ==
  ASSUME IInv, RunFunctor, state # "kConnecting"
  PROVE  Head(queue)[1] # "establish"
<1>1. queue \in Seq(Functors) /\ queue # <<>> /\ StartInv
  BY DEF IInv, TypeOK, RunFunctor
<1>2. Head(queue) \in Functors /\ Head(queue) = queue[1] /\ 1 \in 1 .. Len(queue)
  BY <1>1, HeadTailProperties, EmptySeq, LenProperties
<1> QED  BY <1>1, <1>2 DEF StartInv, Functors

LEMMA DownStep == IInv /\ Down /\ [Next]_connVars => Down'
<1> SUFFICES ASSUME IInv, Down, [Next]_connVars PROVE Down'
  OBVIOUS
<1>1. CASE RunFunctor
  <2>1. Head(queue)[1] # "establish"
    BY <1>1, NoEstablish DEF Down
  <2> QED  BY <1>1, <2>1 DEF RunFunctor, Destroy, Down
<1>2. CASE ~RunFunctor
  BY <1>2 DEF Next, LoopStep, CallStep, HandleClose, EndUser, EndDrained, HandleMessage,
              HandleError, HandleWrite, LoopSend, LoopShutdown, QueueSend, SetDisconnecting,
              QueueShutdown, Send, Shutdown, RemoveConnection, DropConnection, PeerCloses,
              PeerResets, Down, local, connVars
<1> QED  BY <1>1, <1>2

\* Whatever order they write state_ in, nothing brings a connection back that was
\* shut down or has ended (TcpConnection.cpp:57-65, 67-90, 137-150).
THEOREM DownForGood == Spec => NeverUpAgain
<1>1. IInv /\ [Next]_connVars => [Down => Down']_connVars
  BY DownStep
<1> QED  BY <1>1, AlwaysInv, PTL DEF Spec, NeverUpAgain

DestroyedInv == destroyed => Down

LEMMA DestroyedStep == IInv /\ DestroyedInv /\ [Next]_connVars => DestroyedInv'
<1> SUFFICES ASSUME IInv, DestroyedInv, [Next]_connVars, destroyed' PROVE Down'
  BY DEF DestroyedInv
<1>1. CASE destroyed
  BY <1>1, DownStep DEF DestroyedInv
<1>2. CASE ~destroyed
  <2>1. RunFunctor /\ Head(queue)[1] = "destroy" /\ Destroy
    BY <1>2 DEF Next, LoopStep, CallStep, RunFunctor, Establish, HandleClose, EndUser, EndDrained,
                HandleMessage, HandleError, HandleWrite, LoopSend, LoopShutdown, QueueSend,
                SetDisconnecting, QueueShutdown, Send, Shutdown, RemoveConnection, DropConnection,
                PeerCloses, PeerResets, local, world, connVars
  <2>2. queue \in Seq(Functors) /\ queue # <<>> /\ StartInv /\ state \in States
    BY <2>1 DEF IInv, TypeOK, RunFunctor
  <2>3. Head(queue) = queue[1]
    BY <2>2, HeadTailProperties, EmptySeq
  <2>4. state # "kConnecting"
    BY <2>1, <2>2, <2>3 DEF StartInv
  <2> QED  BY <2>1, <2>2, <2>4 DEF Destroy, Down, States
<1> QED  BY <1>1, <1>2

\* The step that brings the channel of a destroyed connection back into epoll is
\* the functor of a send(), and it finds kDisconnecting.
LEMMA DanglingStep ==
  ASSUME IInv, DestroyedInv, [Next]_connVars, ~Dangling, Dangling'
  PROVE  /\ state = "kDisconnecting"
         /\ queue # <<>> /\ Head(queue)[1] = "send" /\ queue' = Tail(queue)
<1>0. Sound(chan) /\ (destroyed => state \in {"kDisconnecting", "kDisconnected"})
  BY DEF IInv, WriteInv, DestroyedInv, Down
<1>1. CASE RunFunctor
  <2>1. queue # <<>> /\ queue' = Tail(queue)
    BY <1>1 DEF RunFunctor
  <2>2. ~Destroy
    BY <1>0, DestroyLemma DEF Destroy, Dangling
  <2>3. CASE Establish
    <3>1. destroyed /\ state # "kConnecting"
      BY <1>0, <2>3 DEF Establish, Dangling
    <3>2. Head(queue)[1] # "establish"
      BY <1>1, <3>1, NoEstablish
    <3>3. destroyed' = destroyed
      BY <2>3 DEF Establish
    <3> QED  BY <1>0, <1>1, <2>1, <2>2, <3>1, <3>2, <3>3
             DEF RunFunctor, SendInLoop, TakeNothing, Dangling
  <2>4. CASE ~Establish
    <3>1. destroyed' = destroyed
      BY <1>1, <2>2, <2>4 DEF RunFunctor
    <3>2. chan' # chan
      BY <3>1 DEF Dangling
    <3>3. Head(queue)[1] = "send" /\ state # "kDisconnected"
      BY <1>1, <2>2, <2>4, <3>2 DEF RunFunctor, SendInLoop, TakeNothing
    <3> QED  BY <1>0, <2>1, <3>1, <3>3 DEF Dangling
  <2> QED  BY <2>3, <2>4
<1>2. CASE HandleWrite
  BY <1>0, <1>2 DEF HandleWrite, Dangling, Sound
<1>3. CASE LoopSend
  BY <1>0, <1>3 DEF LoopSend, Dangling
<1>4. CASE ~RunFunctor /\ ~HandleWrite /\ ~LoopSend
  BY <1>4 DEF Next, LoopStep, CallStep, HandleClose, EndUser, EndDrained, HandleMessage,
              HandleError, LoopShutdown, QueueSend, SetDisconnecting, QueueShutdown, Send,
              Shutdown, RemoveConnection, DropConnection, PeerCloses, PeerResets, local, world,
              connVars, Dangling
<1> QED  BY <1>1, <1>2, <1>3, <1>4

\* The step that takes state_ back from kDisconnected is the second of a shutdown().
LEMMA BackStep ==
  ASSUME IInv, [Next]_connVars, state = "kDisconnected", state' # "kDisconnected"
  PROVE  \E p \in Threads : caller[p] = "shutdown" /\ caller'[p] # "shutdown"
<1>0. caller \in [Threads -> {"idle", "send", "shutdown", "queueShutdown"}]
  BY DEF IInv, TypeOK
<1>1. ~RunFunctor
  <2> SUFFICES ASSUME RunFunctor PROVE FALSE
    OBVIOUS
  <2>1. Head(queue)[1] # "establish"
    BY NoEstablish
  <2> QED  BY <2>1 DEF RunFunctor, Destroy
<1>2. PICK p \in Threads : SetDisconnecting(p)
  BY <1>1 DEF Next, LoopStep, CallStep, HandleClose, EndUser, EndDrained, HandleMessage,
              HandleError, HandleWrite, LoopSend, LoopShutdown, QueueSend, QueueShutdown, Send,
              Shutdown, RemoveConnection, DropConnection, PeerCloses, PeerResets, local, world,
              connVars
<1> QED  BY <1>0, <1>2 DEF SetDisconnecting, Call

\* However many threads send and shut down, the end of a connection is undone in
\* one way only: a shutdown() overwrites it, or has kept connectDestroyed from
\* writing it, and a send() that was queued behind connectDestroyed puts the channel
\* back into epoll (TcpConnection.cpp:57-62, 77-86, 168-211).
THEOREM RevivedByShutdownOnly == Spec => OnlyShutdownRevives
<1>1. Init => DestroyedInv
  BY DEF Init, DestroyedInv
<1>2. IInv /\ DestroyedInv /\ [Next]_connVars =>
        [/\ state = "kDisconnected" /\ state' # "kDisconnected" =>
              \E p \in Threads : caller[p] = "shutdown" /\ caller'[p] # "shutdown"
         /\ Dangling' /\ ~Dangling =>
              /\ state = "kDisconnecting"
              /\ queue # <<>> /\ Head(queue)[1] = "send" /\ queue' = Tail(queue)]_connVars
  BY BackStep, DanglingStep
<1> QED  BY <1>1, <1>2, AlwaysInv, DestroyedStep, PTL DEF Spec, OnlyShutdownRevives
-----------------------------------------------------------------------------
(* The queue *)

Waits(f) == \E i \in 1 .. Len(queue) : queue[i] = f

LEMMA QueueAppend ==
  ASSUME queue \in Seq(Functors), NEW f \in Functors, queue' = Append(queue, f)
  PROVE  /\ Len(queue) \in Nat /\ Len(queue') = Len(queue) + 1
         /\ \A i \in 1 .. Len(queue) : queue'[i] = queue[i]
         /\ queue'[Len(queue) + 1] = f
         /\ Waits(f)' /\ \A g : Waits(g) => Waits(g)'
<1>1. /\ Len(queue) \in Nat /\ Len(queue') = Len(queue) + 1
      /\ \A i \in 1 .. Len(queue) : queue'[i] = queue[i]
      /\ queue'[Len(queue) + 1] = f
  BY AppendProperties, LenProperties
<1> QED  BY <1>1 DEF Waits

LEMMA QueueTail ==
  ASSUME queue \in Seq(Functors), queue # <<>>, queue' = Tail(queue)
  PROVE  /\ Len(queue) \in Nat \ {0} /\ Len(queue') = Len(queue) - 1
         /\ Head(queue) = queue[1] /\ Head(queue) \in Functors
         /\ \A i \in 1 .. Len(queue') : queue'[i] = queue[i + 1]
         /\ \A g : Waits(g) => g = Head(queue) \/ Waits(g)'
<1>1. /\ Len(queue) \in Nat \ {0} /\ Len(queue') = Len(queue) - 1
      /\ Head(queue) = queue[1] /\ Head(queue) \in Functors
      /\ \A i \in 1 .. Len(queue') : queue'[i] = queue[i + 1]
  BY HeadTailProperties, EmptySeq, LenProperties
<1>2. ASSUME NEW g, Waits(g)
      PROVE  g = Head(queue) \/ Waits(g)'
  <2>1. PICK i \in 1 .. Len(queue) : queue[i] = g
    BY <1>2 DEF Waits
  <2>2. CASE i = 1
    BY <1>1, <2>1, <2>2
  <2>3. CASE i # 1
    <3>1. i - 1 \in 1 .. Len(queue') /\ queue'[i - 1] = g
      BY <1>1, <2>1, <2>3
    <3> QED  BY <3>1 DEF Waits
  <2> QED  BY <2>2, <2>3
<1> QED  BY <1>1, <1>2
-----------------------------------------------------------------------------
(* Messages *)

LEMMA MessageFacts ==
  /\ \A m \in Messages : m = <<m[1], m[2]>> /\ m[1] \in Senders /\ m[2] \in 1 .. Sends[m[1]]
  /\ \A p \in Senders : \A i \in 1 .. Sends[p] : <<p, i>> \in Messages
BY DEF Messages

LEMMA LoopMessage ==
  ASSUME IInv, LoopSend
  PROVE  NextMessage(Loop) \in Messages
<1>1. Loop \in Senders /\ Sends[Loop] \in Nat /\ sent[Loop] \in Nat
  BY ConnectionAssumption DEF Senders, IInv, TypeOK
<1>2. sent[Loop] + 1 \in 1 .. Sends[Loop]
  BY <1>1 DEF LoopSend, CountSend
<1> QED  BY <1>1, <1>2, MessageFacts DEF NextMessage

LEMMA QueuedMessage ==
  ASSUME IInv, NEW p \in Threads, QueueSend(p)
  PROVE  <<p, sent[p]>> \in Messages
<1>1. p \in Senders /\ Sends[p] \in Nat /\ sent[p] \in Nat /\ sent[p] <= Sends[p]
  BY ConnectionAssumption DEF Senders, IInv, TypeOK
<1>2. sent[p] \in 1 .. Sends[p]
  BY <1>1 DEF QueueSend, Call, IInv, CallInv
<1> QED  BY <1>1, <1>2, MessageFacts
-----------------------------------------------------------------------------
(* A shutdown() is not forgotten *)

\* A shutdown() that has begun is done, is moot, or still has somebody who will do
\* it: its functor, the thread that is about to queue it, the bytes whose last write
\* looks for it, the callback after that write.
ShutdownHolds ==
  state = "kDisconnecting" =>
    \/ fin \/ destroyed \/ peer # "up"
    \/ Waits(<<"shutdown">>) \/ \E p \in Threads : caller[p] = "queueShutdown"
    \/ output # <<>> \/ at = "drained"

LEMMA SendKeeps ==
  ASSUME IInv, NEW m \in Messages, SendInLoop(m)
  PROVE  /\ output # <<>> => output' # <<>>
         /\ peer # "up" => peer' # "up"
<1>1. output \in Seq(AllBytes) /\ BytesOf(m) \in Seq(AllBytes)
  BY BytesType DEF IInv, TypeOK
<1>2. peer # "up" => peer' # "up"
  BY DEF SendInLoop, TakeNothing, Write
<1>3. output # <<>> => output' = output \/ output' = output \o BytesOf(m)
  BY DEF SendInLoop, TakeNothing, MayWriteDirectly, Buffered
<1> QED  BY <1>1, <1>2, <1>3, ConcatEqualIffEmpty

\* shutdownInLoop is put off only while bytes wait.
LEMMA PutOff ==
  ASSUME IInv, ShutdownInLoop
  PROVE  fin' \/ destroyed \/ output # <<>>
BY DEF IInv, WriteInv, ShutdownInLoop, TypeOK

LEMMA ShutdownHoldsStep ==
  ASSUME IInv, ShutdownHolds, [Next]_connVars
  PROVE  ShutdownHolds'
<1>0. queue \in Seq(Functors) /\ output \in Seq(AllBytes) /\ caller \in [Threads ->
        {"idle", "send", "shutdown", "queueShutdown"}]
  BY DEF IInv, TypeOK
<1> USE DEF ShutdownHolds
<1>1. CASE RunFunctor
  <2>1. queue # <<>> /\ queue' = Tail(queue) /\ at = "loop" /\ UNCHANGED caller
    BY <1>1 DEF RunFunctor
  <2>2. /\ Head(queue) \in Functors
        /\ Waits(<<"shutdown">>) => <<"shutdown">> = Head(queue) \/ Waits(<<"shutdown">>)'
    BY <1>0, <2>1, QueueTail
  <2>3. CASE Head(queue)[1] = "establish" /\ Establish
    BY <2>3 DEF Establish
  <2>4. CASE Head(queue)[1] = "destroy" /\ Destroy
    BY <2>4 DEF Destroy
  <2>5. CASE Head(queue)[1] = "send" /\ SendInLoop(Head(queue)[2]) /\ UNCHANGED <<state, destroyed, fin>>
    <3>1. Head(queue)[2] \in Messages /\ Head(queue) # <<"shutdown">>
      BY <2>2, <2>5 DEF Functors
    <3>2. (output # <<>> => output' # <<>>) /\ (peer # "up" => peer' # "up")
      BY <2>5, <3>1, SendKeeps
    <3> QED  BY <2>1, <2>2, <2>5, <3>1, <3>2
  <2>6. CASE /\ Head(queue)[1] = "shutdown" /\ ShutdownInLoop
             /\ UNCHANGED <<state, chan, output, at, destroyed, peer, wire, taken>>
    BY <2>6, PutOff
  <2> QED  BY <1>1, <2>3, <2>4, <2>5, <2>6 DEF RunFunctor
<1>2. CASE HandleWrite
  <2>1. PICK k \in 0 .. Len(output) :
          /\ Write(output, k) /\ output' = Rest(output, k)
          /\ IF k > 0 /\ k = Len(output)
               THEN chan' = DisableWrite(chan) /\ at' = "drained"
               ELSE UNCHANGED <<chan, at>>
    BY <1>2 DEF HandleWrite
  <2>2. Rest(output, k) = <<>> <=> k = Len(output)
    BY <1>0, SplitLemma
  <2>3. output # <<>> => Len(output) > 0
    BY <1>0, EmptySeq, LenProperties
  <2>4. output # <<>> => output' # <<>> \/ at' = "drained"
    BY <2>1, <2>2, <2>3
  <2>5. peer # "up" => peer' # "up"
    BY <2>1 DEF Write
  <2>6. UNCHANGED <<state, queue, destroyed, caller, fin>> /\ at = "loop"
    BY <1>2 DEF HandleWrite
  <2> QED  BY <2>4, <2>5, <2>6 DEF Waits
<1>3. CASE EndDrained
  BY <1>3, PutOff DEF EndDrained, world, Waits
<1>4. CASE LoopShutdown
  BY <1>4, PutOff DEF LoopShutdown, world
<1>5. CASE LoopSend
  <2>1. NextMessage(Loop) \in Messages
    BY <1>5, LoopMessage
  <2> QED  BY <1>5, <2>1, SendKeeps DEF LoopSend, Waits
<1>6. ASSUME NEW p \in Threads, SetDisconnecting(p)
      PROVE  ShutdownHolds'
  BY <1>0, <1>6 DEF SetDisconnecting, Call
<1>7. ASSUME NEW p \in Threads, QueueShutdown(p) \/ QueueSend(p)
      PROVE  ShutdownHolds'
  <2>1. CASE QueueShutdown(p)
    <3>1. Waits(<<"shutdown">>)'
      BY <1>0, <2>1, QueueAppend DEF QueueShutdown, Functors
    <3> QED  BY <3>1
  <2>2. CASE QueueSend(p)
    <3>1. <<"send", <<p, sent[p]>>>> \in Functors
      BY <2>2, QueuedMessage DEF Functors
    <3>2. Waits(<<"shutdown">>) => Waits(<<"shutdown">>)'
      BY <1>0, <2>2, <3>1, QueueAppend DEF QueueSend
    <3> QED  BY <1>0, <2>2, <3>2 DEF QueueSend, Call, world
  <2> QED  BY <1>7, <2>1, <2>2
<1>8. ASSUME NEW p \in Threads, Send(p) \/ Shutdown(p)
      PROVE  ShutdownHolds'
  BY <1>0, <1>8 DEF Send, Shutdown, Call, local, world, Waits
<1>9. CASE RemoveConnection \/ DropConnection
  <2>1. Waits(<<"shutdown">>) => Waits(<<"shutdown">>)'
    BY <1>0, <1>9, QueueAppend DEF RemoveConnection, DropConnection, Functors
  <2> QED  BY <1>9, <2>1 DEF RemoveConnection, DropConnection
<1>10. CASE HandleMessage \/ HandleError \/ HandleClose \/ EndUser \/ PeerCloses \/ PeerResets
  BY <1>10 DEF HandleMessage, HandleError, HandleClose, EndUser, PeerCloses, PeerResets, local,
               world, Waits
<1>11. CASE UNCHANGED connVars
  BY <1>11 DEF connVars, local, world, Waits
<1> QED  BY <1>1, <1>2, <1>3, <1>4, <1>5, <1>6, <1>7, <1>8, <1>9, <1>10, <1>11
         DEF Next, LoopStep, CallStep

\* Whoever called shutdown() and whatever state_ was by then, somebody is left to
\* shut the write side down (TcpConnection.cpp:57-65, 127-130, 213-220).
THEOREM ShutdownNotForgotten == Spec => []ShutdownHolds
<1>1. Init => ShutdownHolds
  BY DEF Init, ShutdownHolds
<1> QED  BY <1>1, AlwaysInv, ShutdownHoldsStep, PTL DEF Spec
-----------------------------------------------------------------------------
(* A connection that has ended is destroyed *)

\* From handleClose, and from ~TcpServer, to connectDestroyed there is always a
\* removal or a functor on its way.
RemovalHolds ==
  closes > 0 \/ dropped => destroyed \/ removals > 0 \/ Waits(<<"destroy">>)

LEMMA RemovalHoldsStep ==
  ASSUME IInv, RemovalHolds, [Next]_connVars
  PROVE  RemovalHolds'
<1>0. queue \in Seq(Functors) /\ closes \in Nat /\ removals \in Nat
  BY DEF IInv, TypeOK
<1> USE DEF RemovalHolds
<1>1. CASE RunFunctor
  <2>1. queue # <<>> /\ queue' = Tail(queue) /\ UNCHANGED <<removals, closes, dropped>>
    BY <1>1 DEF RunFunctor
  <2>2. /\ Head(queue) \in Functors
        /\ Waits(<<"destroy">>) => <<"destroy">> = Head(queue) \/ Waits(<<"destroy">>)'
    BY <1>0, <2>1, QueueTail
  <2>3. CASE <<"destroy">> = Head(queue)
    BY <1>1, <2>3 DEF RunFunctor, Destroy
  <2>4. destroyed => destroyed'
    BY <1>1 DEF RunFunctor, Establish, Destroy
  <2> QED  BY <2>1, <2>2, <2>3, <2>4
<1>2. CASE HandleClose
  BY <1>0, <1>2 DEF HandleClose
<1>3. CASE RemoveConnection \/ DropConnection
  BY <1>0, <1>3, QueueAppend DEF RemoveConnection, DropConnection, Functors
<1>4. ASSUME NEW p \in Threads, QueueShutdown(p) \/ QueueSend(p)
      PROVE  RemovalHolds'
  <2>1. <<"shutdown">> \in Functors
    BY DEF Functors
  <2>2. QueueSend(p) => <<"send", <<p, sent[p]>>>> \in Functors
    BY QueuedMessage DEF Functors
  <2>3. Waits(<<"destroy">>) => Waits(<<"destroy">>)'
    BY <1>0, <1>4, <2>1, <2>2, QueueAppend DEF QueueShutdown, QueueSend
  <2> QED  BY <1>4, <2>3 DEF QueueShutdown, QueueSend, world
<1>5. ASSUME UNCHANGED <<queue, removals, closes, dropped, destroyed>>
      PROVE  RemovalHolds'
  BY <1>5 DEF Waits
<1>6. \/ RunFunctor \/ HandleClose \/ RemoveConnection \/ DropConnection
      \/ \E p \in Threads : QueueShutdown(p) \/ QueueSend(p)
      \/ UNCHANGED <<queue, removals, closes, dropped, destroyed>>
  BY DEF Next, LoopStep, CallStep, EndUser, EndDrained, HandleMessage, HandleError, HandleWrite,
         LoopSend, LoopShutdown, SetDisconnecting, Send, Shutdown, PeerCloses, PeerResets,
         connVars, local, world
<1> QED  BY <1>1, <1>2, <1>3, <1>4, <1>5, <1>6

\* However often the end is reported and whoever removes the connection,
\* connectDestroyed is not forgotten (TcpConnection.cpp:77-90, 137-150).
THEOREM RemovalNotForgotten == Spec => []RemovalHolds
<1>1. Init => RemovalHolds
  BY DEF Init, RemovalHolds
<1> QED  BY <1>1, AlwaysInv, RemovalHoldsStep, PTL DEF Spec
-----------------------------------------------------------------------------
(* The messages of one sender *)

\* How many messages p has handed over: the one that it is about to queue does not
\* count.
Handed ==
  [p \in Senders |-> IF p \in Threads /\ caller[p] = "send" THEN sent[p] - 1 ELSE sent[p]]

IsSend(f) == f[1] = "send"

\* Of two bytes of one sender: which comes first.
Before(a, b) == a[2] < b[2] \/ (a[2] = b[2] /\ a[3] < b[3])

InOrder(s) ==
  \A i, j \in 1 .. Len(s) : i < j /\ s[i][1] = s[j][1] => Before(s[i], s[j])

\* The queue holds messages of outside threads only, each thread's in its order.
QueueOrder ==
  /\ \A i \in 1 .. Len(queue) :
       IsSend(queue[i]) =>
         queue[i][2][1] \in Threads /\ queue[i][2][2] <= Handed[queue[i][2][1]]
  /\ \A i, j \in 1 .. Len(queue) :
       /\ i < j /\ IsSend(queue[i]) /\ IsSend(queue[j])
       /\ queue[i][2][1] = queue[j][2][1]
       => queue[i][2][2] < queue[j][2][2]

\* What was taken comes before what is queued, and that before what is to come.
TakenBefore ==
  \A k \in 1 .. Len(taken) :
    /\ taken[k][2] <= Handed[taken[k][1]]
    /\ \A i \in 1 .. Len(queue) :
         IsSend(queue[i]) /\ queue[i][2][1] = taken[k][1] => taken[k][2] < queue[i][2][2]

OrderInv == QueueOrder /\ TakenBefore /\ InOrder(taken)

\* A message is taken as a whole, after everything that was taken before.
LEMMA TakeMessage ==
  ASSUME taken \in Seq(AllBytes), NEW m \in Messages, taken' = taken \o BytesOf(m)
  PROVE  /\ Len(taken) \in Nat /\ Len(taken') = Len(taken) + MsgSize
         /\ \A i \in 1 .. Len(taken) : taken'[i] = taken[i]
         /\ \A k \in 1 .. MsgSize : taken'[Len(taken) + k] = <<m[1], m[2], k>>
<1>1. BytesOf(m) \in Seq(AllBytes) /\ Len(BytesOf(m)) = MsgSize /\ Len(taken) \in Nat
  BY BytesType, LenProperties
<1>2. /\ Len(taken') = Len(taken) + MsgSize
      /\ \A i \in 1 .. Len(taken) + MsgSize :
           taken'[i] = IF i <= Len(taken) THEN taken[i] ELSE BytesOf(m)[i - Len(taken)]
  BY <1>1, ConcatProperties
<1>3. \A k \in 1 .. MsgSize : BytesOf(m)[k] = <<m[1], m[2], k>>
  BY DEF BytesOf
<1>4. \A k \in 1 .. MsgSize : taken'[Len(taken) + k] = BytesOf(m)[k]
  BY <1>1, <1>2, ConnectionAssumption
<1>5. \A i \in 1 .. Len(taken) : taken'[i] = taken[i]
  BY <1>1, <1>2, ConnectionAssumption
<1> QED  BY <1>1, <1>2, <1>3, <1>4, <1>5

\* A sender's next message comes after all of its bytes that were taken.
LEMMA TakeInOrder ==
  ASSUME taken \in Seq(AllBytes), NEW m \in Messages, taken' = taken \o BytesOf(m),
         InOrder(taken), \A k \in 1 .. Len(taken) : taken[k][1] = m[1] => taken[k][2] < m[2]
  PROVE  InOrder(taken')
<1>1. /\ Len(taken) \in Nat /\ Len(taken') = Len(taken) + MsgSize
      /\ \A i \in 1 .. Len(taken) : taken'[i] = taken[i]
      /\ \A k \in 1 .. MsgSize : taken'[Len(taken) + k] = <<m[1], m[2], k>>
  BY TakeMessage
<1> SUFFICES ASSUME NEW i \in 1 .. Len(taken'), NEW j \in 1 .. Len(taken'),
                    i < j, taken'[i][1] = taken'[j][1]
             PROVE  Before(taken'[i], taken'[j])
  BY DEF InOrder
<1>2. CASE j <= Len(taken)
  <2>1. i \in 1 .. Len(taken) /\ j \in 1 .. Len(taken)
    BY <1>1, <1>2
  <2> QED  BY <1>1, <2>1 DEF InOrder
<1>3. CASE i <= Len(taken) /\ j > Len(taken)
  <2>1. i \in 1 .. Len(taken) /\ j - Len(taken) \in 1 .. MsgSize
    BY <1>1, <1>3, ConnectionAssumption
  <2>2. taken'[i] = taken[i] /\ taken'[j] = <<m[1], m[2], j - Len(taken)>>
    <3>1. j = Len(taken) + (j - Len(taken))
      BY <1>1
    <3> QED  BY <1>1, <2>1, <3>1
  <2>3. taken[i][1] = m[1] /\ taken'[i][2] = taken[i][2] /\ taken'[j][2] = m[2]
    BY <2>2
  <2>4. taken'[i][2] < taken'[j][2]
    BY <2>1, <2>3
  <2> QED  BY <2>4 DEF Before
<1>4. CASE i > Len(taken)
  <2>1. i - Len(taken) \in 1 .. MsgSize /\ j - Len(taken) \in 1 .. MsgSize
    BY <1>1, <1>4, ConnectionAssumption
  <2>2. /\ taken'[i] = <<m[1], m[2], i - Len(taken)>>
        /\ taken'[j] = <<m[1], m[2], j - Len(taken)>>
    <3>1. i = Len(taken) + (i - Len(taken)) /\ j = Len(taken) + (j - Len(taken))
      BY <1>1
    <3> QED  BY <1>1, <2>1, <3>1
  <2>3. i - Len(taken) < j - Len(taken)
    BY <1>1
  <2> QED  BY <2>2, <2>3 DEF Before
<1> QED  BY <1>1, <1>2, <1>3, <1>4

\* sendInLoop takes the whole message, or nothing when the connection is over.
LEMMA TakesWhole ==
  ASSUME NEW m, SendInLoop(m)
  PROVE  \/ state = "kDisconnected" /\ taken' = taken
         \/ taken' = taken \o BytesOf(m)
BY DEF SendInLoop, TakeNothing

LEMMA HandedType ==
  ASSUME IInv, NEW p \in Senders
  PROVE  Handed[p] \in Nat /\ (Loop \notin Threads /\ Handed[Loop] = sent[Loop])
<1>1. sent[p] \in Nat /\ (p \in Threads /\ caller[p] = "send" => sent[p] > 0)
  BY DEF IInv, TypeOK, CallInv
<1>2. Loop \in Senders /\ Loop \notin Threads
  BY ConnectionAssumption DEF Senders
<1> QED  BY <1>1, <1>2 DEF Handed

\* What a step may do to the messages: nothing, to all but RunFunctor, LoopSend,
\* QueueSend and functors that carry no message.
LEMMA OtherSteps ==
  ASSUME IInv, [Next]_connVars,
         ~RunFunctor, ~LoopSend, \A p \in Threads : ~QueueSend(p)
  PROVE  /\ taken' = taken
         /\ \A p \in Senders : Handed'[p] = Handed[p]
         /\ \/ queue' = queue
            \/ queue' = Append(queue, <<"shutdown">>)
            \/ queue' = Append(queue, <<"destroy">>)
<1>0. /\ caller \in [Threads -> {"idle", "send", "shutdown", "queueShutdown"}]
      /\ sent \in [Senders -> Nat]
  BY DEF IInv, TypeOK
<1>1. ASSUME NEW q \in Threads, Send(q)
      PROVE  \A p \in Senders : Handed'[p] = Handed[p]
  <2>1. /\ caller[q] = "idle" /\ caller' = [caller EXCEPT ![q] = "send"]
        /\ sent' = [sent EXCEPT ![q] = sent[q] + 1] /\ q \in Senders
    BY <1>1 DEF Send, Call, CountSend, Senders
  <2>2. Handed'[q] = Handed[q]
    BY <1>0, <2>1 DEF Handed
  <2>3. \A p \in Senders \ {q} : Handed'[p] = Handed[p]
    BY <1>0, <2>1 DEF Handed
  <2> QED  BY <2>2, <2>3
<1>2. ASSUME NEW q \in Threads, Shutdown(q) \/ SetDisconnecting(q) \/ QueueShutdown(q)
      PROVE  \A p \in Senders : Handed'[p] = Handed[p]
  <2>1. /\ sent' = sent /\ caller[q] # "send"
        /\ \E c \in {"idle", "shutdown", "queueShutdown"} : caller' = [caller EXCEPT ![q] = c]
    BY <1>2 DEF Shutdown, SetDisconnecting, QueueShutdown, Call
  <2> QED  BY <1>0, <2>1 DEF Handed
<1>3. \/ UNCHANGED <<sent, caller>>
      \/ \E q \in Threads : Send(q) \/ Shutdown(q) \/ SetDisconnecting(q) \/ QueueShutdown(q)
  BY DEF Next, LoopStep, CallStep, HandleClose, EndUser, EndDrained, HandleMessage, HandleError,
         HandleWrite, LoopShutdown, RemoveConnection, DropConnection, PeerCloses, PeerResets,
         connVars
<1>4. UNCHANGED <<sent, caller>> => \A p \in Senders : Handed'[p] = Handed[p]
  BY DEF Handed
<1>5. /\ taken' = taken
      /\ \/ queue' = queue
         \/ queue' = Append(queue, <<"shutdown">>)
         \/ queue' = Append(queue, <<"destroy">>)
  BY DEF Next, LoopStep, CallStep, HandleClose, EndUser, EndDrained, HandleMessage, HandleError,
         HandleWrite, LoopShutdown, RemoveConnection, DropConnection, PeerCloses, PeerResets,
         Send, Shutdown, SetDisconnecting, QueueShutdown, connVars, local
<1> QED  BY <1>1, <1>2, <1>3, <1>4, <1>5

LEMMA OrderInvStep ==
  ASSUME IInv, OrderInv, [Next]_connVars
  PROVE  OrderInv'
<1>0. /\ queue \in Seq(Functors) /\ taken \in Seq(AllBytes)
      /\ caller \in [Threads -> {"idle", "send", "shutdown", "queueShutdown"}]
      /\ sent \in [Senders -> Nat] /\ Threads \subseteq Senders /\ Loop \in Senders
      /\ Len(queue) \in Nat /\ Len(taken) \in Nat
  BY LenProperties DEF IInv, TypeOK, Senders
<1>b. \A k \in 1 .. Len(taken) : taken[k][1] \in Senders /\ taken[k][2] \in Nat
  <2>1. \A b \in AllBytes : b[1] \in Senders /\ b[2] \in Nat
    BY MessageFacts, ConnectionAssumption DEF AllBytes, BytesOf
  <2> QED  BY <1>0, <2>1, ElementOfSeq
<1>q. \A i \in 1 .. Len(queue) :
        /\ queue[i] \in Functors
        /\ IsSend(queue[i]) => queue[i][2] \in Messages
  <2>1. \A i \in 1 .. Len(queue) : queue[i] \in Functors
    BY <1>0, ElementOfSeq
  <2> QED  BY <2>1 DEF Functors, IsSend
<1>m. \A m \in Messages : m[1] \in Senders /\ m[2] \in Nat \ {0}
  BY MessageFacts, ConnectionAssumption
<1>1. CASE RunFunctor
  <2>1. queue # <<>> /\ queue' = Tail(queue) /\ UNCHANGED <<caller, sent>>
    BY <1>1 DEF RunFunctor
  <2>2. /\ Len(queue) \in Nat \ {0} /\ Len(queue') = Len(queue) - 1
        /\ Head(queue) = queue[1]
        /\ \A i \in 1 .. Len(queue') : queue'[i] = queue[i + 1]
    BY <1>0, <2>1, QueueTail
  <2>3. \A p \in Senders : Handed'[p] = Handed[p]
    BY <2>1 DEF Handed
  <2>4. \A i \in 1 .. Len(queue') : i + 1 \in 1 .. Len(queue)
    BY <2>2
  <2>5. QueueOrder'
    <3>1. ASSUME NEW i \in 1 .. Len(queue'), IsSend(queue'[i])
          PROVE  queue'[i][2][1] \in Threads /\ queue'[i][2][2] <= Handed'[queue'[i][2][1]]
      <4>1. /\ queue'[i] = queue[i + 1] /\ i + 1 \in 1 .. Len(queue)
            /\ queue'[i][2][1] \in Senders
        BY <1>q, <1>m, <2>2, <2>4, <3>1
      <4> QED  BY <2>3, <3>1, <4>1 DEF OrderInv, QueueOrder
    <3>2. ASSUME NEW i \in 1 .. Len(queue'), NEW j \in 1 .. Len(queue'),
                 i < j, IsSend(queue'[i]), IsSend(queue'[j]), queue'[i][2][1] = queue'[j][2][1]
          PROVE  queue'[i][2][2] < queue'[j][2][2]
      <4>1. i + 1 < j + 1 /\ queue'[i] = queue[i + 1] /\ queue'[j] = queue[j + 1]
        BY <2>2, <3>2
      <4> QED  BY <2>4, <3>2, <4>1 DEF OrderInv, QueueOrder
    <3> QED  BY <3>1, <3>2 DEF QueueOrder
  <2>6. CASE taken' = taken
    <3>1. TakenBefore'
      <4> SUFFICES ASSUME NEW k \in 1 .. Len(taken)
                   PROVE  /\ taken[k][2] <= Handed'[taken[k][1]]
                          /\ \A i \in 1 .. Len(queue') :
                               IsSend(queue'[i]) /\ queue'[i][2][1] = taken[k][1]
                                 => taken[k][2] < queue'[i][2][2]
        BY <2>6 DEF TakenBefore
      <4>1. Handed'[taken[k][1]] = Handed[taken[k][1]]
        BY <1>b, <2>3
      <4> QED  BY <2>2, <2>4, <4>1 DEF OrderInv, TakenBefore
    <3> QED  BY <2>5, <2>6, <3>1 DEF OrderInv, InOrder
  <2>7. CASE IsSend(Head(queue)) /\ taken' = taken \o BytesOf(Head(queue)[2])
    <3> DEFINE m == Head(queue)[2]
    <3>1. /\ m \in Messages /\ m = queue[1][2] /\ 1 \in 1 .. Len(queue) /\ m[1] \in Senders
          /\ m[2] <= Handed[m[1]]
          /\ \A k \in 1 .. Len(taken) : taken[k][1] = m[1] => taken[k][2] < m[2]
          /\ \A i \in 2 .. Len(queue) : IsSend(queue[i]) /\ queue[i][2][1] = m[1]
                                          => m[2] < queue[i][2][2]
      BY <1>q, <1>m, <2>2, <2>7 DEF OrderInv, QueueOrder, TakenBefore
    <3>2. taken' = taken \o BytesOf(m)
      BY <2>7
    <3> HIDE DEF m
    <3>3. /\ Len(taken') = Len(taken) + MsgSize
          /\ \A i \in 1 .. Len(taken) : taken'[i] = taken[i]
          /\ \A k \in 1 .. MsgSize : taken'[Len(taken) + k] = <<m[1], m[2], k>>
      BY <1>0, <3>1, <3>2, TakeMessage
    <3>4. InOrder(taken')
      BY <1>0, <3>1, <3>2, TakeInOrder DEF OrderInv
    <3>5. TakenBefore'
      <4> SUFFICES ASSUME NEW k \in 1 .. Len(taken')
                   PROVE  /\ taken'[k][2] <= Handed'[taken'[k][1]]
                          /\ \A i \in 1 .. Len(queue') :
                               IsSend(queue'[i]) /\ queue'[i][2][1] = taken'[k][1]
                                 => taken'[k][2] < queue'[i][2][2]
        BY DEF TakenBefore
      <4>1. CASE k <= Len(taken)
        <5>1. k \in 1 .. Len(taken) /\ taken'[k] = taken[k]
          BY <1>0, <3>3, <4>1
        <5>2. Handed'[taken[k][1]] = Handed[taken[k][1]]
          BY <1>b, <2>3, <5>1
        <5> QED  BY <2>2, <2>4, <5>1, <5>2 DEF OrderInv, TakenBefore
      <4>2. CASE k > Len(taken)
        <5>1. k - Len(taken) \in 1 .. MsgSize /\ k = Len(taken) + (k - Len(taken))
          BY <1>0, <3>3, <4>2, ConnectionAssumption
        <5>2. taken'[k][1] = m[1] /\ taken'[k][2] = m[2]
          BY <3>3, <5>1
        <5>3. \A i \in 1 .. Len(queue') : i + 1 \in 2 .. Len(queue) /\ queue'[i] = queue[i + 1]
          BY <2>2
        <5> QED  BY <2>3, <3>1, <5>2, <5>3
      <4> QED  BY <1>0, <3>3, <4>1, <4>2
    <3> QED  BY <2>5, <3>4, <3>5 DEF OrderInv
  <2>8. taken' = taken \/ (IsSend(Head(queue)) /\ taken' = taken \o BytesOf(Head(queue)[2]))
    BY <1>1, TakesWhole DEF RunFunctor, Establish, Destroy, IsSend
  <2> QED  BY <2>6, <2>7, <2>8
<1>2. CASE LoopSend
  <2> DEFINE m == NextMessage(Loop)
  <2>1. /\ m \in Messages /\ m[1] = Loop /\ m[2] = sent[Loop] + 1
        /\ UNCHANGED <<queue, caller>> /\ sent' = [sent EXCEPT ![Loop] = sent[Loop] + 1]
        /\ Loop \notin Threads
    BY <1>2, LoopMessage, ConnectionAssumption DEF LoopSend, NextMessage, CountSend
  <2>2. taken' = taken \o BytesOf(m)
    BY <1>2, TakesWhole DEF LoopSend
  <2> HIDE DEF m
  <2>3. /\ \A p \in Senders \ {Loop} : Handed'[p] = Handed[p]
        /\ Handed[Loop] = sent[Loop] /\ Handed'[Loop] = sent[Loop] + 1
    BY <1>0, <2>1 DEF Handed
  <2>4. \A k \in 1 .. Len(taken) : taken[k][1] = m[1] => taken[k][2] < m[2]
    BY <1>0, <1>b, <2>1, <2>3 DEF OrderInv, TakenBefore
  <2>5. /\ Len(taken') = Len(taken) + MsgSize
        /\ \A i \in 1 .. Len(taken) : taken'[i] = taken[i]
        /\ \A k \in 1 .. MsgSize : taken'[Len(taken) + k] = <<m[1], m[2], k>>
    BY <1>0, <2>1, <2>2, TakeMessage
  <2>6. InOrder(taken')
    BY <1>0, <2>1, <2>2, <2>4, TakeInOrder DEF OrderInv
  <2>7. QueueOrder'
    BY <1>0, <1>q, <1>m, <2>1, <2>3 DEF OrderInv, QueueOrder
  <2>8. TakenBefore'
    <3> SUFFICES ASSUME NEW k \in 1 .. Len(taken')
                 PROVE  /\ taken'[k][2] <= Handed'[taken'[k][1]]
                        /\ \A i \in 1 .. Len(queue) :
                             IsSend(queue[i]) /\ queue[i][2][1] = taken'[k][1]
                               => taken'[k][2] < queue[i][2][2]
      BY <2>1 DEF TakenBefore
    <3>1. CASE k <= Len(taken)
      <4>1. k \in 1 .. Len(taken) /\ taken'[k] = taken[k]
        BY <1>0, <2>5, <3>1
      <4>2. Handed[taken[k][1]] <= Handed'[taken[k][1]]
        <5> DEFINE q == taken[k][1]
        <5>1. q \in Senders /\ Handed[q] \in Nat
          BY <1>b, <4>1, HandedType
        <5> HIDE DEF q
        <5>2. Handed[q] <= Handed'[q]
          BY <1>0, <2>3, <5>1
        <5> QED  BY <5>2 DEF q
      <4>3. taken[k][2] <= Handed'[taken[k][1]]
        <5>1. taken[k][2] <= Handed[taken[k][1]] /\ Handed[taken[k][1]] \in Nat
          BY <1>b, <4>1, HandedType DEF OrderInv, TakenBefore
        <5>2. Handed'[taken[k][1]] \in Nat
          <6>1. taken[k][1] = Loop => Handed'[taken[k][1]] = sent[Loop] + 1
            BY <2>3
          <6>2. taken[k][1] # Loop => Handed'[taken[k][1]] = Handed[taken[k][1]]
            BY <1>b, <2>3, <4>1
          <6> QED  BY <1>0, <5>1, <6>1, <6>2
        <5> QED  BY <1>b, <4>1, <4>2, <5>1, <5>2
      <4> QED  BY <4>1, <4>3 DEF OrderInv, TakenBefore
    <3>2. CASE k > Len(taken)
      <4>1. k - Len(taken) \in 1 .. MsgSize /\ k = Len(taken) + (k - Len(taken))
        BY <1>0, <2>5, <3>2, ConnectionAssumption
      <4>2. taken'[k][1] = Loop /\ taken'[k][2] = sent[Loop] + 1
        BY <2>1, <2>5, <4>1
      <4>3. \A i \in 1 .. Len(queue) : IsSend(queue[i]) => queue[i][2][1] # Loop
        BY <2>1 DEF OrderInv, QueueOrder
      <4> QED  BY <1>0, <2>3, <4>2, <4>3
    <3> QED  BY <1>0, <2>5, <3>1, <3>2
  <2> QED  BY <2>6, <2>7, <2>8 DEF OrderInv
<1>3. ASSUME NEW p \in Threads, QueueSend(p)
      PROVE  OrderInv'
  <2> DEFINE f == <<"send", <<p, sent[p]>>>>
  <2>1. /\ caller[p] = "send" /\ caller' = [caller EXCEPT ![p] = "idle"]
        /\ UNCHANGED <<sent, taken>> /\ queue' = Append(queue, f) /\ p \in Senders
    BY <1>0, <1>3 DEF QueueSend, Call
  <2>2. f \in Functors /\ IsSend(f) /\ f[2][1] = p /\ f[2][2] = sent[p] /\ sent[p] \in Nat
    BY <1>0, <1>3, QueuedMessage DEF Functors, IsSend
  <2> HIDE DEF f
  <2>3. /\ Len(queue') = Len(queue) + 1
        /\ \A i \in 1 .. Len(queue) : queue'[i] = queue[i]
        /\ queue'[Len(queue) + 1] = f
    BY <1>0, <2>1, <2>2, QueueAppend
  <2>4. /\ \A q \in Senders \ {p} : Handed'[q] = Handed[q]
        /\ Handed[p] = sent[p] - 1 /\ Handed'[p] = sent[p]
    BY <1>0, <2>1 DEF Handed
  <2>5. \A q \in Senders : \A n \in Nat : n <= Handed[q] => n <= Handed'[q]
    BY <2>2, <2>4
  <2>6. QueueOrder'
    <3>1. ASSUME NEW i \in 1 .. Len(queue'), IsSend(queue'[i])
          PROVE  queue'[i][2][1] \in Threads /\ queue'[i][2][2] <= Handed'[queue'[i][2][1]]
      <4>1. CASE i = Len(queue) + 1
        BY <2>2, <2>3, <2>4, <4>1
      <4>2. CASE i # Len(queue) + 1
        <5>1. i \in 1 .. Len(queue) /\ queue'[i] = queue[i]
          BY <1>0, <2>3, <4>2
        <5> QED  BY <1>q, <1>m, <2>5, <3>1, <5>1 DEF OrderInv, QueueOrder
      <4> QED  BY <4>1, <4>2
    <3>2. ASSUME NEW i \in 1 .. Len(queue'), NEW j \in 1 .. Len(queue'),
                 i < j, IsSend(queue'[i]), IsSend(queue'[j]), queue'[i][2][1] = queue'[j][2][1]
          PROVE  queue'[i][2][2] < queue'[j][2][2]
      <4>1. i \in 1 .. Len(queue) /\ queue'[i] = queue[i]
        BY <1>0, <2>3, <3>2
      <4>2. CASE j = Len(queue) + 1
        <5>1. queue[i][2][2] <= Handed[p] /\ queue[i][2][2] \in Nat
          BY <1>q, <1>m, <2>2, <2>3, <3>2, <4>1, <4>2 DEF OrderInv, QueueOrder
        <5> QED  BY <2>2, <2>3, <2>4, <4>1, <4>2, <5>1
      <4>3. CASE j # Len(queue) + 1
        <5>1. j \in 1 .. Len(queue) /\ queue'[j] = queue[j]
          BY <1>0, <2>3, <4>3
        <5> QED  BY <3>2, <4>1, <5>1 DEF OrderInv, QueueOrder
      <4> QED  BY <4>2, <4>3
    <3> QED  BY <3>1, <3>2 DEF QueueOrder
  <2>7. TakenBefore'
    <3> SUFFICES ASSUME NEW k \in 1 .. Len(taken)
                 PROVE  /\ taken[k][2] <= Handed'[taken[k][1]]
                        /\ \A i \in 1 .. Len(queue') :
                             IsSend(queue'[i]) /\ queue'[i][2][1] = taken[k][1]
                               => taken[k][2] < queue'[i][2][2]
      BY <2>1 DEF TakenBefore
    <3>1. taken[k][2] <= Handed[taken[k][1]] /\ taken[k][1] \in Senders /\ taken[k][2] \in Nat
      BY <1>b DEF OrderInv, TakenBefore
    <3>2. taken[k][1] = p => taken[k][2] < sent[p]
      BY <2>2, <2>4, <3>1
    <3>3. ASSUME NEW i \in 1 .. Len(queue'), IsSend(queue'[i]), queue'[i][2][1] = taken[k][1]
          PROVE  taken[k][2] < queue'[i][2][2]
      <4>1. CASE i = Len(queue) + 1
        BY <2>2, <2>3, <3>2, <3>3, <4>1
      <4>2. CASE i # Len(queue) + 1
        <5>1. i \in 1 .. Len(queue) /\ queue'[i] = queue[i]
          BY <1>0, <2>3, <4>2
        <5> QED  BY <3>3, <5>1 DEF OrderInv, TakenBefore
      <4> QED  BY <4>1, <4>2
    <3> QED  BY <2>5, <3>1, <3>3
  <2> QED  BY <2>1, <2>6, <2>7 DEF OrderInv, InOrder
<1>4. CASE ~RunFunctor /\ ~LoopSend /\ \A p \in Threads : ~QueueSend(p)
  <2>1. /\ taken' = taken
        /\ \A p \in Senders : Handed'[p] = Handed[p]
        /\ \/ queue' = queue
           \/ queue' = Append(queue, <<"shutdown">>)
           \/ queue' = Append(queue, <<"destroy">>)
    BY <1>4, OtherSteps
  <2>2. /\ Len(queue') \in Nat
        /\ \A i \in 1 .. Len(queue') :
             IsSend(queue'[i]) => i \in 1 .. Len(queue) /\ queue'[i] = queue[i]
    <3>1. CASE queue' = queue
      BY <1>0, <3>1
    <3>2. CASE queue' # queue
      <4>1. PICK f \in Functors : ~IsSend(f) /\ queue' = Append(queue, f)
        BY <2>1, <3>2 DEF Functors, IsSend
      <4>2. /\ Len(queue') = Len(queue) + 1
            /\ \A i \in 1 .. Len(queue) : queue'[i] = queue[i]
            /\ queue'[Len(queue) + 1] = f
        BY <1>0, <4>1, QueueAppend
      <4> QED  BY <1>0, <4>1, <4>2
    <3> QED  BY <3>1, <3>2
  <2>3. QueueOrder'
    BY <1>q, <1>m, <2>1, <2>2 DEF OrderInv, QueueOrder
  <2>4. TakenBefore'
    BY <1>b, <2>1, <2>2 DEF OrderInv, TakenBefore
  <2> QED  BY <2>1, <2>3, <2>4 DEF OrderInv, InOrder
<1> QED  BY <1>1, <1>2, <1>3, <1>4

LEMMA AlwaysOrder == Spec => []OrderInv
<1>1. Init => OrderInv
  <2>1. ASSUME Init
        PROVE  /\ Len(queue) = 1 /\ queue[1] = <<"establish">> /\ Len(taken) = 0
    BY <2>1, EmptySeq DEF Init
  <2>2. ASSUME Init
        PROVE  \A i \in 1 .. Len(queue) : ~IsSend(queue[i])
    <3>1. queue[1] = <<"establish">> /\ 1 .. Len(queue) = {1}
      BY <2>1, <2>2
    <3>2. queue[1][1] = "establish"
      BY <3>1
    <3> QED  BY <3>1, <3>2 DEF IsSend
  <2>3. Init => QueueOrder
    BY <2>2 DEF QueueOrder
  <2>4. Init => TakenBefore /\ InOrder(taken)
    BY <2>1 DEF TakenBefore, InOrder
  <2> QED  BY <2>3, <2>4 DEF OrderInv
<1> QED  BY <1>1, AlwaysInv, OrderInvStep, PTL DEF Spec

\* On the wire no byte comes twice, no byte of a message overtakes an earlier one,
\* and no message of a sender an earlier one of the same sender: on the loop thread
\* send() may overtake the messages of other threads, never its own; a message is
\* never torn by another of its sender (TcpConnection.cpp:34-55, 152-211).
SendersInOrder == InOrder(wire)

LEMMA PrefixInOrder ==
  ASSUME NEW S, NEW s \in Seq(S), NEW t \in Seq(S), IsPrefixOf(s, t), InOrder(t)
  PROVE  InOrder(s)
<1>1. Len(s) \in Nat /\ Len(t) \in Nat /\ Len(s) <= Len(t)
  BY LenProperties DEF IsPrefixOf
<1>2. \A i \in 1 .. Len(s) : s[i] = t[i] /\ i \in 1 .. Len(t)
  <2>1. \A i \in 1 .. Len(s) : t[i] \in S
    BY <1>1, ElementOfSeq
  <2>2. \A i \in 1 .. Len(s) : SubSeq(t, 1, Len(s))[i] = t[i]
    BY <1>1, <2>1, SubSeqProperties
  <2> QED  BY <1>1, <2>2 DEF IsPrefixOf
<1> QED  BY <1>2 DEF InOrder

\* The order of each sender's calls is the order of its bytes in the stream
\* (TcpConnection.cpp:34-55, 168-211).
THEOREM SendersStayInOrder == Spec => []SendersInOrder
<1>1. IInv /\ OrderInv => SendersInOrder
  BY PrefixInOrder DEF IInv, TypeOK, StreamInOrder, OrderInv, SendersInOrder
<1> QED  BY <1>1, AlwaysInv, AlwaysOrder, PTL
-----------------------------------------------------------------------------
(* No message is skipped *)

\* The bytes of m have been taken, all of them.
Taken(m) == \A k \in 1 .. MsgSize : \E i \in 1 .. Len(taken) : taken[i] = BytesOf(m)[k]

\* Until the end of the connection has been seen.
Alive == closes = 0 /\ ~destroyed

\* While the connection lives, what has been handed over is queued or taken.
SkipInv ==
  /\ state = "kDisconnected" => ~Alive
  /\ Alive =>
       \A p \in Senders : \A n \in 1 .. Handed[p] :
         Waits(<<"send", <<p, n>>>>) \/ Taken(<<p, n>>)

\* The bytes of m are on their way, all of them: the kernel has accepted them or
\* they wait in outputBuffer_.
InStream(m) ==
  \A k \in 1 .. MsgSize :
    \E i \in 1 .. Len(wire \o output) : (wire \o output)[i] = BytesOf(m)[k]

\* While the connection lives and can carry data, what has been handed over is
\* queued or on its way.  From a shutdownWrite() or a reset on, sendInLoop drops
\* what it is given, also a message that was handed over before.
NothingSkipped ==
  Alive /\ ~Broken =>
    \A p \in Senders : \A n \in 1 .. Handed[p] :
      Waits(<<"send", <<p, n>>>>) \/ InStream(<<p, n>>)

LEMMA TakenStays ==
  ASSUME taken \in Seq(AllBytes), NEW m \in Messages, SendInLoop(m), state # "kDisconnected"
  PROVE  Taken(m)' /\ \A n : Taken(n) => Taken(n)'
<1>1. /\ Len(taken) \in Nat /\ Len(taken') = Len(taken) + MsgSize
      /\ \A i \in 1 .. Len(taken) : taken'[i] = taken[i]
      /\ \A k \in 1 .. MsgSize : taken'[Len(taken) + k] = <<m[1], m[2], k>>
  BY TakesWhole, TakeMessage
<1>2. Taken(m)'
  <2> SUFFICES ASSUME NEW k \in 1 .. MsgSize
               PROVE  \E i \in 1 .. Len(taken') : taken'[i] = BytesOf(m)[k]
    BY DEF Taken
  <2>1. Len(taken) + k \in 1 .. Len(taken') /\ taken'[Len(taken) + k] = BytesOf(m)[k]
    BY <1>1, ConnectionAssumption DEF BytesOf
  <2> QED  BY <2>1
<1>3. ASSUME NEW n, Taken(n)
      PROVE  Taken(n)'
  <2> SUFFICES ASSUME NEW k \in 1 .. MsgSize
               PROVE  \E i \in 1 .. Len(taken') : taken'[i] = BytesOf(n)[k]
    BY DEF Taken
  <2>1. PICK i \in 1 .. Len(taken) : taken[i] = BytesOf(n)[k]
    BY <1>3 DEF Taken
  <2>2. i \in 1 .. Len(taken') /\ taken'[i] = BytesOf(n)[k]
    BY <1>1, <2>1, ConnectionAssumption
  <2> QED  BY <2>2
<1> QED  BY <1>2, <1>3

LEMMA AliveStep ==
  ASSUME IInv, [Next]_connVars, Alive'
  PROVE  Alive /\ (state' = "kDisconnected" => state = "kDisconnected")
<1>1. closes \in Nat /\ destroyed \in BOOLEAN /\ closes' \in Nat
  BY NextInv DEF IInv, TypeOK
<1>2. CASE RunFunctor
  BY <1>2 DEF RunFunctor, Establish, Destroy, Alive
<1>3. CASE HandleClose
  BY <1>1, <1>3 DEF HandleClose, Alive
<1>4. CASE ~RunFunctor /\ ~HandleClose
  BY <1>4 DEF Next, LoopStep, CallStep, EndUser, EndDrained, HandleMessage, HandleError,
       HandleWrite, LoopSend, LoopShutdown, QueueSend, SetDisconnecting, QueueShutdown, Send,
       Shutdown, RemoveConnection, DropConnection, PeerCloses, PeerResets, connVars, local,
       world, Alive
<1> QED  BY <1>2, <1>3, <1>4

LEMMA SkipInvStep ==
  ASSUME IInv, SkipInv, [Next]_connVars
  PROVE  SkipInv'
<1>0. /\ queue \in Seq(Functors) /\ taken \in Seq(AllBytes)
      /\ caller \in [Threads -> {"idle", "send", "shutdown", "queueShutdown"}]
      /\ sent \in [Senders -> Nat] /\ Threads \subseteq Senders /\ Loop \in Senders
  BY DEF IInv, TypeOK, Senders
<1>1. state' = "kDisconnected" => ~Alive'
  BY AliveStep DEF SkipInv
<1> SUFFICES ASSUME Alive', NEW p \in Senders, NEW n \in 1 .. Handed'[p]
             PROVE  Waits(<<"send", <<p, n>>>>)' \/ Taken(<<p, n>>)'
  BY <1>1 DEF SkipInv
<1>2. Alive /\ state # "kDisconnected"
  BY AliveStep DEF SkipInv
<1>3. n \in 1 .. Handed[p] => Waits(<<"send", <<p, n>>>>) \/ Taken(<<p, n>>)
  BY <1>2 DEF SkipInv
<1>4. CASE RunFunctor
  <2>1. queue # <<>> /\ queue' = Tail(queue) /\ UNCHANGED <<caller, sent>>
    BY <1>4 DEF RunFunctor
  <2>2. /\ Head(queue) \in Functors
        /\ \A g : Waits(g) => g = Head(queue) \/ Waits(g)'
    BY <1>0, <2>1, QueueTail
  <2>3. n \in 1 .. Handed[p]
    BY <2>1 DEF Handed
  <2>4. CASE IsSend(Head(queue))
    <3>1. PICK m \in Messages : Head(queue) = <<"send", m>>
      BY <2>2, <2>4 DEF Functors, IsSend
    <3>2. SendInLoop(m)
      BY <1>4, <2>4, <3>1 DEF RunFunctor, IsSend
    <3>3. Taken(m)' /\ \A g : Taken(g) => Taken(g)'
      BY <1>0, <1>2, <3>2, TakenStays
    <3>4. <<"send", <<p, n>>>> = Head(queue) => <<p, n>> = m
      BY <3>1
    <3> QED  BY <1>3, <2>2, <2>3, <3>3, <3>4
  <2>5. CASE ~IsSend(Head(queue))
    <3>1. taken' = taken
      BY <1>4, <2>5 DEF RunFunctor, Establish, Destroy, IsSend
    <3>2. <<"send", <<p, n>>>> # Head(queue)
      BY <2>5 DEF IsSend
    <3> QED  BY <1>3, <2>2, <2>3, <3>1, <3>2 DEF Taken
  <2> QED  BY <2>4, <2>5
<1>5. CASE LoopSend
  <2>1. PICK m \in Messages : m = NextMessage(Loop)
    BY <1>5, LoopMessage
  <2>2. /\ SendInLoop(m) /\ m = <<Loop, sent[Loop] + 1>>
        /\ UNCHANGED <<queue, caller>> /\ sent' = [sent EXCEPT ![Loop] = sent[Loop] + 1]
        /\ Loop \notin Threads
    BY <1>5, <2>1, ConnectionAssumption DEF LoopSend, NextMessage, CountSend
  <2>3. Taken(m)' /\ \A g : Taken(g) => Taken(g)'
    BY <1>0, <1>2, <2>2, TakenStays
  <2>4. n \in 1 .. Handed[p] \/ (p = Loop /\ n = sent[Loop] + 1)
    BY <1>0, <2>2 DEF Handed
  <2>5. CASE n \in 1 .. Handed[p]
    BY <1>3, <2>3, <2>5, <2>2 DEF Waits
  <2>6. CASE p = Loop /\ n = sent[Loop] + 1
    <3>1. <<p, n>> = m
      BY <2>6, <2>2
    <3> QED  BY <2>3, <3>1
  <2> QED  BY <2>4, <2>5, <2>6
<1>6. ASSUME NEW q \in Threads, QueueSend(q)
      PROVE  Waits(<<"send", <<p, n>>>>)' \/ Taken(<<p, n>>)'
  <2>1. /\ caller[q] = "send" /\ caller' = [caller EXCEPT ![q] = "idle"]
        /\ UNCHANGED <<sent, taken>> /\ queue' = Append(queue, <<"send", <<q, sent[q]>>>>)
    BY <1>6 DEF QueueSend, Call
  <2>2. <<"send", <<q, sent[q]>>>> \in Functors
    BY <1>6, QueuedMessage DEF Functors
  <2>3. Waits(<<"send", <<q, sent[q]>>>>)' /\ \A g : Waits(g) => Waits(g)'
    BY <1>0, <2>1, <2>2, QueueAppend
  <2>4. n \in 1 .. Handed[p] \/ (p = q /\ n = sent[q])
    BY <1>0, <2>1 DEF Handed
  <2> QED  BY <1>3, <2>1, <2>3, <2>4 DEF Taken
<1>7. CASE ~RunFunctor /\ ~LoopSend /\ \A q \in Threads : ~QueueSend(q)
  <2>1. /\ taken' = taken /\ Handed'[p] = Handed[p]
        /\ \/ queue' = queue
           \/ queue' = Append(queue, <<"shutdown">>)
           \/ queue' = Append(queue, <<"destroy">>)
    BY <1>7, OtherSteps
  <2>2. \A g : Waits(g) => Waits(g)'
    <3>1. <<"shutdown">> \in Functors /\ <<"destroy">> \in Functors
      BY DEF Functors
    <3>2. queue' = queue => \A g : Waits(g) => Waits(g)'
      BY DEF Waits
    <3> QED  BY <1>0, <2>1, <3>1, <3>2, QueueAppend
  <2> QED  BY <1>3, <2>1, <2>2 DEF Taken
<1> QED  BY <1>4, <1>5, <1>6, <1>7

\* As long as the connection has not ended, nobody has shut down its write side and
\* the peer has not reset it, no interleaving of send(), shutdown() and the loop
\* leaves out a message: each that a thread has handed over waits in the loop's queue
\* or is, whole, in what the kernel accepted or outputBuffer_ keeps
\* (TcpConnection.cpp:34-55, 111-135, 168-211).
THEOREM NoMessageSkipped == Spec => []NothingSkipped
<1>1. Init => SkipInv
  BY DEF Init, SkipInv, Handed
<1>2. IInv /\ SkipInv => NothingSkipped
  <2> SUFFICES ASSUME IInv, SkipInv, Alive, ~Broken,
                      NEW p \in Senders, NEW n \in 1 .. Handed[p],
                      Taken(<<p, n>>)
               PROVE  InStream(<<p, n>>)
    BY DEF SkipInv, NothingSkipped
  <2>1. wire \o output = taken
    BY DEF IInv, StreamInOrder
  <2> QED  BY <2>1 DEF Taken, InStream
<1> QED  BY <1>1, <1>2, AlwaysInv, SkipInvStep, PTL DEF Spec
=============================================================================
