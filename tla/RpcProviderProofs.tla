--------------------------- MODULE RpcProviderProofs ---------------------------
(***************************************************************************)
(* Theorems about RpcProvider, for any number of frames of any sizes and   *)
(* kinds: type correctness, that the frames are dispatched in step with    *)
(* the stream, none past a rejected one and none left behind, that each is *)
(* answered once at most, that the input buffer is a queue of bytes, and,  *)
(* under fairness, that a frame whose turn it is is served.                *)
(***************************************************************************)
EXTENDS RpcProvider, SequenceTheorems, TLAPS

\* Frames end in the order of their numbers.
LEMMA EndsGrow ==
  ASSUME NEW i \in 0 .. N, NEW j \in 0 .. N, i < j
  PROVE  /\ End[i] \in Nat
         /\ End[j] \in Nat
         /\ End[i] + LenSize + Header[j] <= End[j]
         /\ End[i] < End[j]
         /\ Header[j] \in Nat
<1>1. j \in 1 .. N /\ i \in 0 .. j - 1
  BY StreamAssumption
<1> QED  BY <1>1, StreamAssumption

\* Two frames that start, or end, at the same byte are the same.
LEMMA EndsDiffer ==
  ASSUME NEW i \in 0 .. N, NEW j \in 0 .. N, End[i] = End[j]
  PROVE  i = j
<1>1. CASE i < j
  BY <1>1, EndsGrow
<1>2. CASE j < i
  BY <1>2, EndsGrow
<1> QED  BY <1>1, <1>2, StreamAssumption

LEMMA EndNat ==
  ASSUME NEW i \in 0 .. N
  PROVE  End[i] \in Nat
<1> QED  BY StreamAssumption

LEMMA FrameEnds ==
  ASSUME NEW n \in 1 .. N
  PROVE  /\ End[n - 1] \in Nat
         /\ End[n] \in Nat
         /\ End[n - 1] < End[n]
<1>1. n - 1 \in 0 .. N /\ n \in 0 .. N /\ n - 1 < n
  BY StreamAssumption
<1> QED  BY <1>1, EndsGrow
-----------------------------------------------------------------------------
(* Type correctness and the place in the stream *)

LEMMA ArrivedNat ==
  ASSUME TypeOK
  PROVE  arrived \in Nat /\ arrived <= End[N] /\ retrieved \in Nat
<1>1. End[N] \in Nat
  BY StreamAssumption
<1> QED  BY <1>1 DEF TypeOK

\* How many frames have been taken out of the buffer.
Retired == IF at = "called" THEN Len(dispatched) - 1 ELSE Len(dispatched)

\* The frame that is being served has wholly arrived, and what was dispatched is
\* an initial piece of the client's frames, all of them good.
StepInv ==
  /\ TypeOK
  /\ InStep
  /\ Len(dispatched) \in 0 .. N
  /\ at = "called" => Len(dispatched) # 0 /\ arrived >= End[Len(dispatched)]
  /\ \A k \in 1 .. Len(dispatched) : kind[k] = "good"

\* With nothing being served, the frame at the front of the buffer is the one
\* after those that were dispatched.
LEMMA StartsNext ==
  ASSUME StepInv, at = "parse", NEW i \in 1 .. N, Starts(i)
  PROVE  i = Len(dispatched) + 1 /\ retrieved = End[i - 1]
<1>1. retrieved = End[Len(dispatched)]
  BY DEF StepInv, InStep
<1>2. i - 1 \in 0 .. N /\ End[i - 1] = retrieved
  BY StreamAssumption DEF Starts
<1>3. i - 1 = Len(dispatched)
  BY <1>1, <1>2, EndsDiffer DEF StepInv
<1> QED  BY <1>2, <1>3 DEF StepInv

\* What retrieve leaves behind when the frame is served.
LEMMA RetireMoves ==
  ASSUME StepInv, Retire
  PROVE  retrieved' = End[Len(dispatched)]
<1> DEFINE n == Len(dispatched)
<1>1. at = "called" /\ n \in 1 .. N /\ dispatched[n] = n
  BY DEF Retire, StepInv, InStep, TypeOK
<1>2. retrieved = End[n - 1] /\ arrived >= End[n]
  BY <1>1 DEF StepInv, InStep
<1>3. /\ End[n - 1] \in Nat
      /\ End[n] \in Nat
      /\ End[n - 1] < End[n]
  BY <1>1, FrameEnds
<1>4. TotalSize(n) = End[n] - End[n - 1] /\ Readable = arrived - End[n - 1]
  BY <1>2 DEF TotalSize, Readable
<1>5. retrieved' = IF TotalSize(n) >= Readable THEN arrived ELSE retrieved + TotalSize(n)
  BY <1>1 DEF Retire, RetrieveFrame
<1>6. arrived \in Nat
  BY ArrivedNat DEF StepInv
<1> QED  BY <1>2, <1>3, <1>4, <1>5, <1>6

LEMMA StepInvInit == Init => StepInv
<1> SUFFICES ASSUME Init PROVE StepInv
  OBVIOUS
<1>1. /\ Len(<<>>) = 0
      /\ <<>> \in Seq(1 .. N)
      /\ N \in Nat /\ End[0] = 0 /\ End[N] \in Nat
  BY StreamAssumption
<1>2. TypeOK
  BY <1>1 DEF Init, TypeOK
<1> QED  BY <1>1, <1>2 DEF Init, StepInv, InStep

LEMMA StepInvNext == StepInv /\ [Next]_vars => StepInv'
<1> SUFFICES ASSUME StepInv, [Next]_vars PROVE StepInv'
  OBVIOUS
<1>0. End[N] \in Nat /\ Len(dispatched) \in Nat
  BY StreamAssumption DEF StepInv, TypeOK
<1>1. ASSUME NEW n \in 1 .. End[N], Receive(n) PROVE StepInv'
  BY <1>0, <1>1, StreamAssumption DEF Receive, StepInv, TypeOK, InStep
<1>2. CASE NeedMore
  BY <1>2 DEF NeedMore, StepInv, TypeOK, InStep
<1>3. ASSUME NEW i \in 1 .. N, Reject(i) PROVE StepInv'
  BY <1>3 DEF Reject, ShutDown, StepInv, TypeOK, InStep
<1>4. ASSUME NEW i \in 1 .. N, Dispatch(i) PROVE StepInv'
  <2>1. i = Len(dispatched) + 1 /\ retrieved = End[i - 1]
    BY <1>4, StartsNext DEF Dispatch
  <2>2. /\ dispatched' \in Seq(1 .. N)
        /\ Len(dispatched') = i
        /\ \A k \in 1 .. i : dispatched'[k] = IF k = i THEN i ELSE dispatched[k]
    BY <1>4, <2>1 DEF Dispatch, StepInv, TypeOK
  <2>3. arrived >= End[i]
    <3>1. End[i - 1] \in Nat /\ End[i] \in Nat /\ arrived \in Nat
      <4>1. i - 1 \in 0 .. N /\ i \in 0 .. N
        BY StreamAssumption
      <4> QED  BY <4>1, EndNat, ArrivedNat DEF StepInv
    <3>2. arrived - End[i - 1] >= End[i] - End[i - 1]
      BY <1>4, <2>1 DEF Dispatch, CanServe, IsWhole, Readable, TotalSize
    <3> QED  BY <3>1, <3>2
  <2>4. TypeOK'
    BY <1>4, <2>2 DEF Dispatch, StepInv, TypeOK
  <2>5. InStep'
    <3>1. \A k \in 1 .. Len(dispatched') : dispatched'[k] = k
      BY <2>1, <2>2 DEF StepInv, InStep
    <3>2. at' = "called" /\ retrieved' = End[Len(dispatched') - 1]
      BY <1>4, <2>1, <2>2 DEF Dispatch
    <3> QED  BY <3>1, <3>2 DEF InStep
  <2>6. \A k \in 1 .. Len(dispatched') : kind'[k] = "good"
    BY <1>4, <2>1, <2>2 DEF Dispatch, CanServe, StepInv
  <2>7. Len(dispatched') # 0 /\ arrived' >= End[Len(dispatched')]
    BY <1>4, <2>2, <2>3 DEF Dispatch
  <2> QED  BY <2>2, <2>4, <2>5, <2>6, <2>7 DEF StepInv
<1>5. CASE Retire
  <2>1. retrieved' = End[Len(dispatched)] /\ retrieved' \in 0 .. arrived'
    <3>1. retrieved' = End[Len(dispatched)]
      BY <1>5, RetireMoves
    <3>2. arrived' = arrived /\ arrived >= End[Len(dispatched)] /\ Len(dispatched) \in 0 .. N
      BY <1>5 DEF Retire, StepInv
    <3>3. arrived \in Nat /\ End[Len(dispatched)] \in Nat
      BY <3>2, EndNat, ArrivedNat DEF StepInv
    <3> QED  BY <3>1, <3>2, <3>3
  <2> QED  BY <1>5, <2>1 DEF Retire, StepInv, TypeOK, InStep
<1>6. ASSUME NEW i \in 1 .. N, Answer(i) PROVE StepInv'
  <2>1. answered' \in Seq(1 .. N)
    <3>1. answered \in Seq(1 .. N) /\ Append(answered, i) \in Seq(1 .. N)
      BY DEF StepInv, TypeOK
    <3>2. answered' = answered \/ answered' = Append(answered, i)
      BY <1>6 DEF Answer
    <3> QED  BY <3>1, <3>2
  <2> QED  BY <1>6, <2>1 DEF Answer, ShutDown, StepInv, TypeOK, InStep
<1>7. CASE Down
  BY <1>7 DEF Down, StepInv, TypeOK, InStep
<1>8. CASE UNCHANGED vars
  BY <1>8 DEF vars, StepInv, TypeOK, InStep
<1> QED  BY <1>1, <1>2, <1>3, <1>4, <1>5, <1>6, <1>7, <1>8 DEF Next, OnMessage

\* Every variable keeps its type; no more is retrieved than has arrived.
THEOREM TypeCorrect == Spec => []TypeOK
<1>1. StepInv => TypeOK
  BY DEF StepInv
<1> QED  BY <1>1, StepInvInit, StepInvNext, PTL DEF Spec

\* However the stream is cut, frames are dispatched in order, each once, and the
\* buffer starts where a frame starts.
THEOREM DispatchInStep == Spec => []InStep
<1>1. StepInv => InStep
  BY DEF StepInv
<1> QED  BY <1>1, StepInvInit, StepInvNext, PTL DEF Spec

\* No frame is served past a rejected one.
THEOREM RejectIsFinal == Spec => []NothingPastReject
<1>1. StepInv => NothingPastReject
  <2> SUFFICES ASSUME StepInv, NEW m \in DOMAIN dispatched, NEW j \in 1 .. dispatched[m]
               PROVE  kind[j] = "good"
    BY DEF NothingPastReject, Elems
  <2>1. m \in 1 .. Len(dispatched) /\ dispatched[m] = m
    BY DEF StepInv, InStep, TypeOK
  <2> QED  BY <2>1 DEF StepInv
<1> QED  BY <1>1, StepInvInit, StepInvNext, PTL DEF Spec
-----------------------------------------------------------------------------
(* No frame waits for the next one *)

LEMMA LeftBehindNext ==
  StepInv /\ NothingLeftBehind /\ [Next]_vars => NothingLeftBehind'
<1> SUFFICES ASSUME StepInv, NothingLeftBehind, [Next]_vars,
                    NEW i \in 1 .. N,
                    at' = "idle", i = Len(dispatched') + 1, kind'[i] = "good"
             PROVE  arrived' < End[i]
  BY StreamAssumption DEF NothingLeftBehind
<1>0. End[i - 1] \in Nat /\ End[i] \in Nat /\ arrived \in Nat
  <2>1. i - 1 \in 0 .. N /\ i \in 0 .. N
    BY StreamAssumption
  <2> QED  BY <2>1, EndNat, ArrivedNat DEF StepInv
<1>1. ASSUME NEW n \in 1 .. End[N], Receive(n) PROVE FALSE
  BY <1>1 DEF Receive
<1>2. CASE NeedMore
  <2>1. /\ at = "parse" /\ arrived' = arrived /\ kind[i] = "good"
        /\ i = Len(dispatched) + 1
    BY <1>2 DEF NeedMore
  <2>2. retrieved = End[i - 1]
    BY <2>1 DEF StepInv, InStep, TypeOK
  <2>3. End[i - 1] + LenSize + Header[i] <= End[i] /\ Header[i] \in Nat /\ LenSize \in Nat
    <3>1. i - 1 \in 0 .. N /\ i \in 0 .. N /\ i - 1 < i
      BY StreamAssumption
    <3>2. LenSize \in Nat
      BY StreamAssumption
    <3> QED  BY <3>1, <3>2, EndsGrow
  <2>4. CASE Readable < LenSize
    BY <1>0, <2>1, <2>2, <2>3, <2>4 DEF Readable
  <2>5. ASSUME NEW h \in 1 .. N, Starts(h), ~HasHeader(h) PROVE arrived' < End[i]
    <3>1. h = i
      BY <2>1, <2>5, StartsNext
    <3> QED  BY <1>0, <2>1, <2>2, <2>3, <2>5, <3>1 DEF HasHeader, Readable
  <2>6. ASSUME NEW h \in 1 .. N, Starts(h), ~IsWhole(h) PROVE arrived' < End[i]
    <3>1. h = i
      BY <2>1, <2>6, StartsNext
    <3> QED  BY <1>0, <2>1, <2>2, <2>6, <3>1 DEF IsWhole, Readable, TotalSize
  <2> QED  BY <1>2, <2>4, <2>5, <2>6 DEF NeedMore
<1>3. ASSUME NEW h \in 1 .. N, Reject(h) PROVE FALSE
  <2>1. h = Len(dispatched) + 1
    BY <1>3, StartsNext DEF Reject
  <2> QED  BY <1>3, <2>1 DEF Reject, MustReject
<1>4. ASSUME NEW h \in 1 .. N, Dispatch(h) PROVE FALSE
  BY <1>4 DEF Dispatch
<1>5. CASE Retire
  BY <1>5 DEF Retire
<1>6. ASSUME NEW h \in 1 .. N, Answer(h) PROVE arrived' < End[i]
  BY <1>6 DEF Answer, NothingLeftBehind
<1>7. CASE Down
  BY <1>7 DEF Down, NothingLeftBehind
<1>8. CASE UNCHANGED vars
  BY <1>8 DEF vars, NothingLeftBehind
<1> QED  BY <1>1, <1>2, <1>3, <1>4, <1>5, <1>6, <1>7, <1>8 DEF Next, OnMessage

\* When OnMessage returns it has served every frame that has wholly arrived.
THEOREM NoFrameWaits == Spec => []NothingLeftBehind
<1>1. Init => NothingLeftBehind
  <2> SUFFICES ASSUME Init, NEW i \in 1 .. N PROVE arrived < End[i]
    BY DEF NothingLeftBehind
  <2>1. 0 \in 0 .. N /\ i \in 0 .. N /\ 0 < i /\ End[0] = 0
    BY StreamAssumption
  <2>2. End[0] < End[i]
    BY <2>1, EndsGrow
  <2> QED  BY <2>1, <2>2 DEF Init
<1> QED  BY <1>1, LeftBehindNext, StepInvInit, StepInvNext, PTL DEF Spec
-----------------------------------------------------------------------------
(* The input buffer is a queue of bytes *)

\* The bytes of the stream behind the first a, n of them.
Piece(a, n) == [k \in 1 .. n |-> a + k]

BQ == INSTANCE ByteQueue WITH
        Strings <- {Piece(a, n) : a \in Nat, n \in Nat},
        Lengths <- Nat,
        content <- Piece(retrieved, Readable)

LEMMA PieceAppended ==
  ASSUME NEW a \in Nat, NEW m \in Nat, NEW n \in Nat
  PROVE  Piece(a, m + n) = Piece(a, m) \o Piece(a + m, n)
<1>1. Piece(a, m) \in Seq(Nat) /\ Piece(a + m, n) \in Seq(Nat) /\ Piece(a, m + n) \in Seq(Nat)
  BY DEF Piece
<1>2. Len(Piece(a, m)) = m /\ Len(Piece(a + m, n)) = n /\ Len(Piece(a, m + n)) = m + n
  BY DEF Piece
<1>3. \A k \in 1 .. m + n : Piece(a, m + n)[k] = (Piece(a, m) \o Piece(a + m, n))[k]
  BY <1>1, <1>2, ConcatProperties DEF Piece
<1>4. /\ Piece(a, m) \o Piece(a + m, n) \in Seq(Nat)
      /\ Len(Piece(a, m) \o Piece(a + m, n)) = m + n
  BY <1>1, <1>2, ConcatProperties
<1> QED  BY <1>1, <1>2, <1>3, <1>4, SeqEqual

LEMMA PieceTaken ==
  ASSUME NEW a \in Nat, NEW m \in Nat, NEW n \in 0 .. m
  PROVE  Piece(a + n, m - n) = SubSeq(Piece(a, m), n + 1, Len(Piece(a, m)))
<1>1. Piece(a, m) \in Seq(Nat) /\ Len(Piece(a, m)) = m
  BY DEF Piece
<1>2. Piece(a + n, m - n) \in Seq(Nat) /\ Len(Piece(a + n, m - n)) = m - n
  BY DEF Piece
<1>3. /\ SubSeq(Piece(a, m), n + 1, m) \in Seq(Nat)
      /\ Len(SubSeq(Piece(a, m), n + 1, m)) = m - n
      /\ \A k \in 1 .. m - n : SubSeq(Piece(a, m), n + 1, m)[k] = Piece(a, m)[n + k]
  BY <1>1
<1>4. \A k \in 1 .. m - n : Piece(a + n, m - n)[k] = Piece(a, m)[n + k]
  BY DEF Piece
<1> QED  BY <1>1, <1>2, <1>3, <1>4, SeqEqual

\* OnMessage and handleRead use the input buffer as a Buffer lets them: bytes go in
\* at one end, and a whole frame or all leave at the other
\* (TcpConnection.cpp:92-109, rpcprovider.cc:136-147, 213; Buffer.cpp).
THEOREM InputIsByteQueue == Spec => BQ!Spec
<1>1. Init => BQ!Init
  <2>1. Init => Readable = 0 /\ retrieved = 0
    BY DEF Init, Readable
  <2>2. Piece(0, 0) = <<>>
    BY DEF Piece
  <2> QED  BY <2>1, <2>2 DEF BQ!Init
<1>2. StepInv /\ [Next]_vars => [BQ!Next]_(Piece(retrieved, Readable))
  <2> SUFFICES ASSUME StepInv, [Next]_vars
               PROVE  \/ BQ!Next
                      \/ Piece(retrieved, Readable)' = Piece(retrieved, Readable)
    OBVIOUS
  <2>0. /\ arrived \in Nat /\ retrieved \in 0 .. arrived /\ Readable \in Nat
        /\ Readable = arrived - retrieved
    BY ArrivedNat DEF StepInv, TypeOK, Readable
  <2>1. ASSUME NEW n \in 1 .. End[N], Receive(n)
        PROVE  BQ!Next
    <3>1. retrieved' = retrieved /\ Readable' = Readable + n /\ n \in Nat
      BY <2>0, <2>1 DEF Receive, Readable
    <3>2. Piece(retrieved, Readable)'
            = Piece(retrieved, Readable) \o Piece(retrieved + Readable, n)
      BY <2>0, <3>1, PieceAppended DEF Piece
    <3>3. PICK a \in Nat : a = retrieved + Readable
      BY <2>0
    <3>4. BQ!Put(Piece(a, n))
      BY <3>2, <3>3 DEF BQ!Put
    <3> QED  BY <3>1, <3>4 DEF BQ!Next
  <2>2. CASE Retire
    <3> DEFINE n == Len(dispatched)
    <3>1. at = "called" /\ n \in 1 .. N /\ retrieved = End[n - 1] /\ arrived >= End[n]
      BY <2>2 DEF Retire, StepInv, InStep, TypeOK
    <3>2. retrieved' = End[n] /\ arrived' = arrived
      BY <2>2, RetireMoves DEF Retire
    <3>3. End[n - 1] \in Nat /\ End[n] \in Nat /\ End[n - 1] < End[n]
      BY <3>1, FrameEnds
    <3> DEFINE size == End[n] - End[n - 1]
    <3>4. size \in 0 .. Readable /\ retrieved' = retrieved + size /\ Readable' = Readable - size
      BY <2>0, <3>1, <3>2, <3>3 DEF Readable
    <3>5. Piece(retrieved, Readable)' = SubSeq(Piece(retrieved, Readable), size + 1,
                                                Len(Piece(retrieved, Readable)))
      BY <2>0, <3>4, PieceTaken DEF Piece
    <3>6. PICK k \in Nat : k = size
      BY <2>0, <3>4
    <3>7. BQ!Take(k)
      BY <3>5, <3>6 DEF BQ!Take
    <3> QED  BY <3>7 DEF BQ!Next
  <2>3. CASE UNCHANGED <<arrived, retrieved>>
    BY <2>3 DEF Piece, Readable
  <2>4. \/ \E n \in 1 .. End[N] : Receive(n)
        \/ Retire
        \/ UNCHANGED <<arrived, retrieved>>
    BY DEF Next, OnMessage, NeedMore, Reject, Dispatch, Answer, Down, vars
  <2> QED  BY <2>1, <2>2, <2>3, <2>4
<1> QED  BY <1>1, <1>2, StepInvInit, StepInvNext, PTL DEF Spec, BQ!Spec
-----------------------------------------------------------------------------
(* The closures *)

LEMMA ElemsAppend ==
  ASSUME NEW s \in Seq(1 .. N), NEW e \in 1 .. N
  PROVE  Elems(Append(s, e)) = Elems(s) \cup {e}
<1>1. DOMAIN s = 1 .. Len(s) /\ DOMAIN Append(s, e) = 1 .. Len(s) + 1 /\ Len(s) \in Nat
  OBVIOUS
<1>2. /\ \A k \in 1 .. Len(s) : Append(s, e)[k] = s[k]
      /\ Append(s, e)[Len(s) + 1] = e
  OBVIOUS
<1> QED  BY <1>1, <1>2 DEF Elems

\* No frame is answered twice, none that was not served, and none is forgotten
\* while the connection is up: on whatever thread and in whatever order the
\* closures run (rpcprovider.cc:16-41, 208, 217-229).
AnsweredOnce ==
  /\ \A j, k \in 1 .. Len(answered) : answered[j] = answered[k] => j = k
  /\ open \cup Elems(answered) \subseteq Elems(dispatched)
  /\ open \cap Elems(answered) = {}
  /\ state = "up" => Elems(dispatched) = open \cup Elems(answered)

LEMMA AnsweredNext == StepInv /\ AnsweredOnce /\ [Next]_vars => AnsweredOnce'
<1> SUFFICES ASSUME StepInv, AnsweredOnce, [Next]_vars PROVE AnsweredOnce'
  OBVIOUS
<1>0. /\ dispatched \in Seq(1 .. N) /\ answered \in Seq(1 .. N)
      /\ state \in {"up", "shut", "down"} /\ open \subseteq 1 .. N
  BY DEF StepInv, TypeOK
<1>1. ASSUME NEW i \in 1 .. N, Dispatch(i) PROVE AnsweredOnce'
  <2>1. i = Len(dispatched) + 1
    BY <1>1, StartsNext DEF Dispatch
  <2>2. i \notin Elems(dispatched)
    BY <1>0, <2>1 DEF StepInv, InStep, Elems
  <2>3. Elems(dispatched') = Elems(dispatched) \cup {i}
    BY <1>0, <1>1, ElemsAppend DEF Dispatch
  <2>4. open' = open \cup {i} /\ UNCHANGED <<answered, state>>
    BY <1>1 DEF Dispatch
  <2> QED  BY <2>2, <2>3, <2>4 DEF AnsweredOnce
<1>2. ASSUME NEW i \in 1 .. N, Answer(i) PROVE AnsweredOnce'
  <2>1. i \in open /\ open' = open \ {i} /\ UNCHANGED dispatched
    BY <1>2 DEF Answer
  <2>2. CASE UNCHANGED answered /\ state' # "up"
    BY <2>1, <2>2 DEF AnsweredOnce
  <2>3. CASE answered' = Append(answered, i) /\ UNCHANGED state
    <3>1. Elems(answered') = Elems(answered) \cup {i}
      BY <1>0, <2>3, ElemsAppend
    <3>2. /\ Len(answered') = Len(answered) + 1 /\ Len(answered) \in Nat
          /\ \A k \in 1 .. Len(answered) : answered'[k] = answered[k] /\ answered'[k] # i
          /\ answered'[Len(answered) + 1] = i
      <4>1. \A k \in 1 .. Len(answered) : answered[k] \in Elems(answered)
        BY <1>0 DEF Elems
      <4> QED  BY <1>0, <2>1, <2>3, <4>1 DEF AnsweredOnce
    <3>3. \A j, k \in 1 .. Len(answered') : answered'[j] = answered'[k] => j = k
      BY <3>2 DEF AnsweredOnce
    <3> QED  BY <2>1, <2>3, <3>1, <3>3 DEF AnsweredOnce
  <2> QED  BY <1>0, <1>2, <2>2, <2>3 DEF Answer, ShutDown
<1>3. CASE UNCHANGED <<dispatched, open, answered>> /\ (state' = state \/ state' # "up")
  BY <1>3 DEF AnsweredOnce
<1>4. \/ \E i \in 1 .. N : Dispatch(i) \/ Answer(i)
      \/ UNCHANGED <<dispatched, open, answered>> /\ (state' = state \/ state' # "up")
  BY <1>0 DEF Next, OnMessage, Receive, NeedMore, Reject, ShutDown, Retire, Down, vars
<1> QED  BY <1>1, <1>2, <1>3, <1>4

LEMMA StepAlways == Spec => []StepInv
BY StepInvInit, StepInvNext, PTL DEF Spec

\* Each frame that was served has one response, one closure that has still to run,
\* or no connection to be answered on.
THEOREM EachAnsweredOnce == Spec => []AnsweredOnce
<1>1. Init => AnsweredOnce
  BY DEF Init, AnsweredOnce, Elems
<1> QED  BY <1>1, AnsweredNext, StepAlways, PTL DEF Spec
-----------------------------------------------------------------------------
(* Every frame is served in its turn *)

\* The hypothesis of the next theorem: OnMessage can go on with a whole frame at
\* the front of the buffer, and a closure can run.
ProviderCanStep ==
  /\ at = "called" => ENABLED <<OnMessage>>_vars
  /\ \A i \in 1 .. N :
       /\ at = "parse" /\ Starts(i) /\ CanServe(i) => ENABLED <<OnMessage>>_vars
       /\ i \in open => ENABLED <<Answer(i)>>_vars

\* The frame i is next, or only the one before it is still to be retired.
Turn(i) == i = Len(dispatched) + 1 /\ arrived >= End[i] /\ kind[i] = "good"
BeforeTurn(i) == Turn(i) /\ at = "called"
InTurn(i) == Turn(i) /\ at = "parse"
Served1(i) == i \in Elems(dispatched)
Settled(i) == i \in Elems(answered) \/ state # "up"

\* A whole frame whose predecessors have been served is served, and then answered
\* unless the connection ended first: it does not wait for the client to send more
\* (rpcprovider.cc:134-147, 208-213, 217-229).
ServedInTurn ==
  \A i \in 1 .. N :
    /\ Turn(i) ~> Served1(i)
    /\ Served1(i) ~> Settled(i)

LEMMA TurnSteps ==
  ASSUME StepInv, NothingLeftBehind, [Next]_vars, NEW i \in 1 .. N
  PROVE  /\ BeforeTurn(i) => BeforeTurn(i)' \/ InTurn(i)'
         /\ InTurn(i) => InTurn(i)' \/ Served1(i)'
         /\ BeforeTurn(i) /\ OnMessage => InTurn(i)'
         /\ InTurn(i) /\ OnMessage => Served1(i)'
         /\ InTurn(i) => Starts(i) /\ CanServe(i)
         /\ Turn(i) => BeforeTurn(i) \/ InTurn(i)
<1> USE DEF Turn, BeforeTurn, InTurn
<1>0. /\ dispatched \in Seq(1 .. N) /\ at \in {"idle", "parse", "called"}
      /\ arrived \in Nat /\ End[i - 1] \in Nat /\ End[i] \in Nat
      /\ Header[i] \in Nat /\ LenSize \in Nat
      /\ End[i - 1] + LenSize + Header[i] <= End[i]
  <2>1. i - 1 \in 0 .. N /\ i \in 0 .. N /\ i - 1 < i
    BY StreamAssumption
  <2> QED  BY <2>1, EndsGrow, ArrivedNat, StreamAssumption DEF StepInv, TypeOK
<1>1. Turn(i) => at # "idle"
  BY <1>0 DEF NothingLeftBehind
<1>2. ASSUME InTurn(i)
      PROVE  /\ retrieved = End[i - 1] /\ Starts(i) /\ CanServe(i) /\ HasHeader(i)
             /\ ~(Readable < LenSize)
             /\ \A h \in 1 .. N : Starts(h) => h = i
  <2>1. retrieved = End[i - 1]
    BY <1>0, <1>2 DEF StepInv, InStep
  <2>2. \A h \in 1 .. N : Starts(h) => h = i
    BY <1>2, StartsNext
  <2>3. Readable = arrived - End[i - 1]
    BY <2>1 DEF Readable
  <2> QED  BY <1>0, <1>2, <2>1, <2>2, <2>3 DEF Starts, CanServe, IsWhole, HasHeader, TotalSize
<1>3. ASSUME InTurn(i), OnMessage
      PROVE  Served1(i)'
  <2>1. ~NeedMore
    BY <1>2, <1>3 DEF NeedMore, CanServe
  <2>2. ~Retire /\ \A h \in 1 .. N : ~Reject(h)
    BY <1>2, <1>3 DEF Retire, Reject, MustReject
  <2>3. Dispatch(i)
    BY <1>2, <1>3, <2>1, <2>2 DEF OnMessage, Dispatch
  <2> QED  BY <1>0, <2>3, ElemsAppend DEF Dispatch, Served1
<1>4. ASSUME BeforeTurn(i), OnMessage
      PROVE  InTurn(i)'
  BY <1>4 DEF OnMessage, NeedMore, Reject, Dispatch, Retire
<1>5. ASSUME Turn(i), ~OnMessage
      PROVE  /\ BeforeTurn(i) => BeforeTurn(i)'
             /\ InTurn(i) => InTurn(i)'
  BY <1>0, <1>1, <1>5 DEF Next, Receive, Answer, Down, vars
<1> QED  BY <1>0, <1>1, <1>2, <1>3, <1>4, <1>5

LEMMA ClosureSteps ==
  ASSUME StepInv, AnsweredOnce, [Next]_vars, NEW i \in 1 .. N
  PROVE  /\ i \in open => (i \in open)' \/ Settled(i)'
         /\ i \in open /\ Answer(i) => Settled(i)'
         /\ Served1(i) => i \in open \/ Settled(i)
<1> USE DEF Settled
<1>0. answered \in Seq(1 .. N) /\ state \in {"up", "shut", "down"}
  BY DEF StepInv, TypeOK
<1>1. ASSUME Answer(i)
      PROVE  Settled(i)'
  BY <1>0, <1>1, ElemsAppend DEF Answer, ShutDown
<1>2. ASSUME i \in open, ~Answer(i)
      PROVE  i \in open'
  <2>1. ASSUME NEW j \in 1 .. N, Answer(j)
        PROVE  i \in open'
    BY <1>2, <2>1 DEF Answer
  <2>2. CASE ~ \E j \in 1 .. N : Answer(j)
    BY <1>2, <2>2 DEF Next, OnMessage, Receive, NeedMore, Reject, Dispatch, Retire, Down, vars
  <2> QED  BY <2>1, <2>2
<1>3. Served1(i) => i \in open \/ Settled(i)
  BY DEF Served1, AnsweredOnce
<1> QED  BY <1>1, <1>2, <1>3

LEMMA FairClosure ==
  ASSUME NEW i \in 1 .. N
  PROVE  ClosuresFair => ClosureFair(i)
BY DEF ClosuresFair

\* However many frames have come at once.
THEOREM FramesServedInTurn == FairSpec /\ []ProviderCanStep => ServedInTurn
<1> DEFINE Cond == FairSpec /\ []ProviderCanStep
           Inv == StepInv /\ NothingLeftBehind /\ AnsweredOnce
<1>0. Cond => []Inv
  BY StepAlways, NoFrameWaits, EachAnsweredOnce, PTL DEF FairSpec
<1>1. ASSUME NEW i \in 1 .. N
      PROVE  Cond => (Turn(i) ~> Served1(i))
  <2>1. Inv /\ BeforeTurn(i) /\ [Next]_vars => BeforeTurn(i)' \/ InTurn(i)'
    BY TurnSteps
  <2>2. Inv /\ InTurn(i) /\ [Next]_vars => InTurn(i)' \/ Served1(i)'
    BY TurnSteps
  <2>3. Inv /\ BeforeTurn(i) /\ [Next]_vars /\ <<OnMessage>>_vars => InTurn(i)'
    BY TurnSteps
  <2>4. Inv /\ InTurn(i) /\ [Next]_vars /\ <<OnMessage>>_vars => Served1(i)'
    BY TurnSteps
  <2>5. Inv /\ ProviderCanStep /\ [Next]_vars /\ (BeforeTurn(i) \/ InTurn(i)) => ENABLED <<OnMessage>>_vars
    BY TurnSteps DEF ProviderCanStep, BeforeTurn, InTurn
  <2>6. Inv /\ [Next]_vars /\ Turn(i) => BeforeTurn(i) \/ InTurn(i)
    BY TurnSteps
  <2> QED  BY <1>0, <2>1, <2>2, <2>3, <2>4, <2>5, <2>6, PTL DEF FairSpec, Spec, Fairness
<1>2. ASSUME NEW i \in 1 .. N
      PROVE  Cond => (Served1(i) ~> Settled(i))
  <2>1. Inv /\ i \in open /\ [Next]_vars => (i \in open)' \/ Settled(i)'
    BY ClosureSteps
  <2>2. Inv /\ i \in open /\ [Next]_vars /\ <<Answer(i)>>_vars => Settled(i)'
    BY ClosureSteps
  <2>3. ProviderCanStep /\ i \in open => ENABLED <<Answer(i)>>_vars
    BY DEF ProviderCanStep
  <2>4. Inv /\ [Next]_vars /\ Served1(i) => i \in open \/ Settled(i)
    BY ClosureSteps
  <2>5. ClosuresFair => ClosureFair(i)
    BY FairClosure
  <2> QED  BY <1>0, <2>1, <2>2, <2>3, <2>4, <2>5, PTL DEF FairSpec, Spec, Fairness, ClosureFair
<1> QED  BY <1>1, <1>2 DEF ServedInTurn
=============================================================================
