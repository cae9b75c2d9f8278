---------------------------- MODULE TcpConnection ----------------------------
(***************************************************************************)
(* One TcpConnection of mymuduo on its loop thread, with the threads that  *)
(* call send() and shutdown() on it, the TcpServer that removes it, and    *)
(* the peer at the other end of the socket.                                *)
(*                                                                         *)
(* The loop is taken as what EventLoop.tla shows it to be, a queue of      *)
(* functors served in order (TaskQueue); between two functors it may       *)
(* dispatch events of the channel.  A handler runs to its end unless it    *)
(* calls back into user code.  send() and shutdown() of another thread     *)
(* read state_, then write it, then queue a functor: three steps.          *)
(***************************************************************************)
EXTENDS Naturals, Sequences, EPollPoller

CONSTANTS
  Threads,     \* threads other than the loop's that hold the connection
  Loop,        \* the loop thread
  Sends,       \* bound: how many send() calls each of them makes
  MsgSize,     \* bytes of a message
  MaxCloses    \* bound: runs of handleClose

Senders == Threads \cup {Loop}

ASSUME ConnectionAssumption ==
  /\ Loop \notin Threads
  /\ Sends \in [Senders -> Nat]
  /\ MsgSize \in Nat \ {0}
  /\ MaxCloses \in Nat

VARIABLES
  state,      \* state_
  chan,       \* channel_
  output,     \* outputBuffer_
  queue,      \* functors in the queue of the loop
  at,         \* the loop thread: "loop", in a callback of the user ("user"), or
              \* in the writeCompleteCallback_ that handleWrite calls ("drained")
  caller,     \* per outside thread: how far its send() or shutdown() is
  sent,       \* per sender: send() calls made
  removals,   \* removeConnectionInLoop functors queued in the base loop
  closes,     \* runs of handleClose so far
  destroyed,  \* connectDestroyed has run
  dropped,    \* ~TcpServer has queued connectDestroyed
  peer,       \* the other end and the socket's error: "up", "closed" (it sent
              \* FIN), "reset", "gone" (reset, the error already reported)
  wire,       \* bytes the kernel accepted
  fin,        \* shutdownWrite() was called
  taken       \* history: bytes of the messages sendInLoop took, in order

local == <<state, chan, output, queue, at>>
world == <<removals, closes, destroyed, dropped, peer>>
connVars == <<local, world, caller, sent, wire, fin, taken>>

States == {"kDisconnected", "kConnecting", "kConnected", "kDisconnecting"}

\* A message is named after its sender and its number; so are its bytes.
Messages == UNION {{<<p, i>> : i \in 1 .. Sends[p]} : p \in Senders}
BytesOf(m) == [k \in 1 .. MsgSize |-> <<m[1], m[2], k>>]
AllBytes == UNION {{BytesOf(m)[k] : k \in 1 .. MsgSize} : m \in Messages}

Functors == {<<"establish">>, <<"destroy">>, <<"shutdown">>}
              \cup {<<"send", m>> : m \in Messages}

TypeOK ==
  /\ state \in States
  /\ chan \in Channels
  /\ output \in Seq(AllBytes)
  /\ queue \in Seq(Functors)
  /\ at \in {"loop", "user", "drained"}
  /\ caller \in [Threads -> {"idle", "send", "shutdown", "queueShutdown"}]
  /\ sent \in [Senders -> Nat]
  /\ \A p \in Senders : sent[p] <= Sends[p]
  /\ removals \in 0 .. MaxCloses
  /\ closes \in 0 .. MaxCloses
  /\ destroyed \in BOOLEAN
  /\ dropped \in BOOLEAN
  /\ peer \in {"up", "closed", "reset", "gone"}
  /\ wire \in Seq(AllBytes)
  /\ fin \in BOOLEAN
  /\ taken \in Seq(AllBytes)

\* TcpServer::newConnection: constructed, connectEstablished in the queue.
Init ==
  /\ state = "kConnecting"
  /\ chan = NewChannel
  /\ output = <<>>
  /\ queue = <<<<"establish">>>>
  /\ at = "loop"
  /\ caller = [p \in Threads |-> "idle"]
  /\ sent = [p \in Senders |-> 0]
  /\ removals = 0
  /\ closes = 0
  /\ destroyed = FALSE
  /\ dropped = FALSE
  /\ peer = "up"
  /\ wire = <<>>
  /\ fin = FALSE
  /\ taken = <<>>
-----------------------------------------------------------------------------
(* The socket *)

\* A write fails with EPIPE or ECONNRESET.
Broken == fin \/ peer \in {"reset", "gone"}

\* epoll reports EPOLLHUP: no data can move in either direction.
HungUp == peer \in {"reset", "gone"} \/ (fin /\ peer = "closed")

First(s, k) == SubSeq(s, 1, k)
Rest(s, k) == SubSeq(s, k + 1, Len(s))

\* What one write of data does: the kernel takes the first k bytes; k = 0 stands
\* for EWOULDBLOCK and for an error that does not end the connection.  A broken
\* socket takes nothing and, with the failure, hands out its pending error.
Write(data, k) ==
  /\ k \in IF Broken THEN {0} ELSE 0 .. Len(data)
  /\ wire' = wire \o First(data, k)
  /\ peer' = IF peer = "reset" THEN "gone" ELSE peer
-----------------------------------------------------------------------------
(* sendInLoop and shutdownInLoop *)

TakeNothing == UNCHANGED <<chan, output, peer, wire, taken>>

\* Broken variant: EPOLLOUT is not asked for.
BufferedSilently(data) ==
  /\ output' = output \o data
  /\ chan' = chan

\* Keep what was not written and ask for EPOLLOUT.
Buffered(data) ==
  /\ output' = output \o data
  /\ chan' = IF data # <<>> /\ ~IsWriting(chan) THEN AbleWrite(chan) ELSE chan

\* Broken variant: writes past what waits in the buffer.
MayWriteDirectlyAlways == TRUE
MayWriteDirectly == ~IsWriting(chan) /\ output = <<>>

SendInLoop(m) ==
  \/ /\ state = "kDisconnected"
     /\ TakeNothing
  \/ /\ state # "kDisconnected"
     /\ taken' = taken \o BytesOf(m)
     /\ \/ /\ MayWriteDirectly
           /\ ~Broken
           /\ \E k \in 0 .. MsgSize :
                Write(BytesOf(m), k) /\ Buffered(Rest(BytesOf(m), k))
        \/ /\ MayWriteDirectly
           /\ Broken                       \* faultError: the message is dropped
           /\ Write(BytesOf(m), 0)
           /\ UNCHANGED <<chan, output>>
        \/ /\ ~MayWriteDirectly
           /\ Buffered(BytesOf(m))
           /\ UNCHANGED <<peer, wire>>

\* Then sendInLoop ends with the writeCompleteCallback_.
WrittenAtOnce(m) == wire' = wire \o BytesOf(m)

\* Broken variant: does not wait for the buffer.
ShutdownInLoopAtOnce == fin' = TRUE
ShutdownInLoop == fin' = (fin \/ ~IsWriting(chan))
-----------------------------------------------------------------------------
(* Functors of the loop's queue *)

Establish ==
  /\ state' = "kConnected"
  /\ chan' = AbleRead(chan)
  /\ at' = "user"                          \* connectionCallback_
  /\ UNCHANGED <<output, destroyed, peer, wire, fin, taken>>

\* Broken variant: connectDestroyed does not write state_.
DestroyKeepsState ==
  /\ chan' = RemoveChannel(DisableAll(chan))
  /\ destroyed' = TRUE
  /\ UNCHANGED <<state, output, at, peer, wire, fin, taken>>

\* state_ is left at kDisconnecting when a shutdown() got there first.
Destroy ==
  /\ state' = IF state = "kConnected" THEN "kDisconnected" ELSE state
  /\ chan' = RemoveChannel(DisableAll(chan))
  /\ destroyed' = TRUE
  /\ UNCHANGED <<output, at, peer, wire, fin, taken>>

RunFunctor ==
  /\ at = "loop"
  /\ queue # <<>>
  /\ queue' = Tail(queue)
  /\ LET f == Head(queue) IN
     \/ f[1] = "establish" /\ Establish
     \/ f[1] = "destroy" /\ Destroy
     \/ /\ f[1] = "send"
        /\ SendInLoop(f[2])
        /\ at' = IF WrittenAtOnce(f[2]) THEN "user" ELSE at
        /\ UNCHANGED <<state, destroyed, fin>>
     \/ /\ f[1] = "shutdown"
        /\ ShutdownInLoop
        /\ UNCHANGED <<state, chan, output, at, destroyed, peer, wire, taken>>
  /\ UNCHANGED <<removals, closes, dropped, caller, sent>>
-----------------------------------------------------------------------------
(* Events of the channel *)

\* A read that returns data: the user's messageCallback_ runs.
HandleMessage ==
  /\ at = "loop"
  /\ "read" \in chan.interest
  /\ peer = "up"
  /\ at' = "user"
  /\ UNCHANGED <<state, chan, output, queue, world, caller, sent, wire, fin, taken>>

\* A read that returns an error: it is logged, the connection stays.
HandleError ==
  /\ at = "loop"
  /\ "read" \in chan.interest
  /\ peer = "reset"
  /\ peer' = "gone"
  /\ UNCHANGED <<local, removals, closes, destroyed, dropped, caller, sent, wire, fin, taken>>

\* Either a read returns 0 or EPOLLHUP arrives without EPOLLIN.  The channel
\* keeps its interest: this happens again until connectDestroyed runs.
CloseSeen ==
  \/ "read" \in chan.interest /\ peer \in {"closed", "gone"}
  \/ chan.registered /\ "read" \notin chan.interest /\ HungUp

HandleClose ==
  /\ at = "loop"
  /\ CloseSeen
  /\ closes < MaxCloses
  /\ state' = "kDisconnected"
  /\ at' = "user"                          \* connectionCallback_
  /\ closes' = closes + 1
  /\ removals' = removals + 1              \* closeCallback_
  /\ UNCHANGED <<chan, output, queue, destroyed, dropped, peer, caller, sent, wire, fin, taken>>

\* EPOLLOUT.  When the buffer runs empty, interest in it ends and
\* writeCompleteCallback_ runs.
HandleWrite ==
  /\ at = "loop"
  /\ "write" \in chan.interest
  /\ \E k \in 0 .. Len(output) :
       /\ Write(output, k)
       /\ output' = Rest(output, k)
       /\ IF k > 0 /\ k = Len(output)
            THEN chan' = DisableWrite(chan) /\ at' = "drained"
            ELSE UNCHANGED <<chan, at>>
  /\ UNCHANGED <<state, queue, removals, closes, destroyed, dropped, caller, sent, fin, taken>>

EndUser ==
  /\ at = "user"
  /\ at' = "loop"
  /\ UNCHANGED <<state, chan, output, queue, world, caller, sent, wire, fin, taken>>

\* Broken variant: the shutdown() that waited is forgotten.
EndDrainedForgetsShutdown ==
  /\ at = "drained"
  /\ at' = "loop"
  /\ UNCHANGED <<state, chan, output, queue, world, caller, sent, wire, fin, taken>>

\* The rest of handleWrite: a shutdown() that waited for the buffer.
EndDrained ==
  /\ at = "drained"
  /\ at' = "loop"
  /\ IF state = "kDisconnecting" THEN ShutdownInLoop ELSE UNCHANGED fin
  /\ UNCHANGED <<state, chan, output, queue, world, caller, sent, wire, taken>>
-----------------------------------------------------------------------------
(* send() and shutdown() *)

NextMessage(p) == <<p, sent[p] + 1>>

CountSend(p) ==
  /\ sent[p] < Sends[p]
  /\ sent' = [sent EXCEPT ![p] = @ + 1]

\* From a callback, on the loop thread: everything happens on the spot, and so
\* overtakes what other threads have queued.
LoopSend ==
  /\ at # "loop"
  /\ state = "kConnected"
  /\ CountSend(Loop)
  /\ SendInLoop(NextMessage(Loop))
  /\ UNCHANGED <<state, queue, at, removals, closes, destroyed, dropped, caller, fin>>

LoopShutdown ==
  /\ at # "loop"
  /\ state = "kConnected"
  /\ state' = "kDisconnecting"
  /\ ShutdownInLoop
  /\ UNCHANGED <<chan, output, queue, at, world, caller, sent, wire, taken>>

Call(p, from, to) ==
  /\ caller[p] = from
  /\ caller' = [caller EXCEPT ![p] = to]

Send(p) ==
  /\ state = "kConnected"
  /\ Call(p, "idle", "send")
  /\ CountSend(p)
  /\ UNCHANGED <<local, world, wire, fin, taken>>

QueueSend(p) ==
  /\ Call(p, "send", "idle")
  /\ queue' = Append(queue, <<"send", <<p, sent[p]>>>>)
  /\ UNCHANGED <<state, chan, output, at, world, sent, wire, fin, taken>>

\* Broken variant: a shutdown() before connectEstablished is accepted.
ShutdownUnlessDown(p) ==
  /\ state # "kDisconnected"
  /\ Call(p, "idle", "shutdown")
  /\ UNCHANGED <<local, world, sent, wire, fin, taken>>

Shutdown(p) ==
  /\ state = "kConnected"
  /\ Call(p, "idle", "shutdown")
  /\ UNCHANGED <<local, world, sent, wire, fin, taken>>

\* state_ may have changed since it was read: kDisconnected is overwritten.
SetDisconnecting(p) ==
  /\ Call(p, "shutdown", "queueShutdown")
  /\ state' = "kDisconnecting"
  /\ UNCHANGED <<chan, output, queue, at, world, sent, wire, fin, taken>>

QueueShutdown(p) ==
  /\ Call(p, "queueShutdown", "idle")
  /\ queue' = Append(queue, <<"shutdown">>)
  /\ UNCHANGED <<state, chan, output, at, world, sent, wire, fin, taken>>
-----------------------------------------------------------------------------
(* TcpServer and the peer *)

\* removeConnectionInLoop in the base loop.
RemoveConnection ==
  /\ removals > 0
  /\ ~dropped
  /\ removals' = removals - 1
  /\ queue' = Append(queue, <<"destroy">>)
  /\ UNCHANGED <<state, chan, output, at, closes, destroyed, dropped, peer, caller, sent,
                 wire, fin, taken>>

\* ~TcpServer, after the base loop has ended, with the connection still in its
\* table: removeConnectionInLoop has not run.
DropConnection ==
  /\ ~dropped
  /\ removals = closes
  /\ dropped' = TRUE
  /\ queue' = Append(queue, <<"destroy">>)
  /\ UNCHANGED <<state, chan, output, at, removals, closes, destroyed, peer, caller, sent,
                 wire, fin, taken>>

PeerCloses ==
  /\ peer = "up"
  /\ peer' = "closed"
  /\ UNCHANGED <<local, removals, closes, destroyed, dropped, caller, sent, wire, fin, taken>>

PeerResets ==
  /\ peer \in {"up", "closed"}
  /\ peer' = "reset"
  /\ UNCHANGED <<local, removals, closes, destroyed, dropped, caller, sent, wire, fin, taken>>
-----------------------------------------------------------------------------
LoopStep == RunFunctor \/ HandleClose \/ EndUser \/ EndDrained

CallStep(p) == QueueSend(p) \/ SetDisconnecting(p) \/ QueueShutdown(p)

Next ==
  \/ LoopStep
  \/ HandleMessage \/ HandleError \/ HandleWrite
  \/ LoopSend \/ LoopShutdown
  \/ \E p \in Threads : CallStep(p) \/ Send(p) \/ Shutdown(p)
  \/ RemoveConnection \/ DropConnection
  \/ PeerCloses \/ PeerResets

Spec == Init /\ [][Next]_connVars

\* A socket whose peer reads becomes writable, and a write then takes a byte.
WriteProgress == HandleWrite /\ Len(wire') > Len(wire)

\* Functors are served however many events keep the loop busy, since each round
\* of loop() ends with doPendingFunctions (QueuedRuns of EventLoop.tla): strong
\* fairness.  Callbacks and calls return.
Fairness ==
  /\ SF_connVars(RunFunctor)
  /\ WF_connVars(EndUser \/ EndDrained)
  /\ SF_connVars(WriteProgress)
  /\ \A p \in Threads : WF_connVars(CallStep(p))

FairSpec == Spec /\ Fairness
-----------------------------------------------------------------------------
(* Properties *)

\* What epoll knows of the channel is what the connection believes, through any
\* order of enabling, disabling, removing and, after a second connectDestroyed,
\* adding again; and until connectDestroyed it is asked for EPOLLOUT exactly while
\* bytes wait in the output buffer: asked for nothing they would never leave, asked
\* for too much the loop would spin (TcpConnection.cpp:117-122 and 203-210,
\* EPollPoller.cpp:46-84).
WriteInterest ==
  /\ Coherent(chan)
  /\ ~destroyed => ("write" \in chan.interest <=> output # <<>>)

\* The peer sees the messages in the order in which sendInLoop took them,
\* without gap, however they were written: directly, in parts or from the
\* buffer (TcpConnection.cpp:168-211).
IsPrefixOf(s, t) == Len(s) <= Len(t) /\ s = SubSeq(t, 1, Len(s))

StreamInOrder ==
  /\ IsPrefixOf(wire, taken)
  /\ ~Broken => wire \o output = taken

\* The write side is shut down only when nothing waits in the output buffer
\* (TcpConnection.cpp:213-220: "outputBuffer_ 清空后 shutdownWrite").
FinAfterDrain == [][fin' /\ ~fin => output = <<>> \/ destroyed]_connVars

\* A shutdown() is not forgotten: it takes effect once the buffer has drained,
\* unless the connection ends first (TcpConnection.cpp:57-65 and 127-130).
ShutdownTakesEffect ==
  state = "kDisconnecting" ~> fin \/ peer # "up" \/ destroyed

\* A shutdown() or the end of a connection is never undone, in whichever order
\* shutdown(), connectEstablished, handleClose and connectDestroyed write state_.
Down == state \in {"kDisconnecting", "kDisconnected"}
NeverUpAgain == [][Down => Down']_connVars

\* epoll holds the raw pointer of a channel that connectDestroyed has taken out,
\* and the server has let go of the connection.
Dangling == destroyed /\ chan.registered

\* A connection that is over stays out of epoll but for one interleaving: a
\* shutdown() that read state_ before the end writes kDisconnecting over
\* kDisconnected, or has written it before connectDestroyed, which then leaves it,
\* and a send() whose functor waits behind connectDestroyed finds kDisconnecting
\* and asks for EPOLLOUT.  Nothing else takes state_ back from kDisconnected, and
\* no functor, event or callback revives the channel in another way
\* (TcpConnection.cpp:57-62, 80-90, 168-211).
OnlyShutdownRevives ==
  [][/\ state = "kDisconnected" /\ state' # "kDisconnected" =>
          \E p \in Threads : caller[p] = "shutdown" /\ caller'[p] # "shutdown"
     /\ Dangling' /\ ~Dangling =>
          /\ state = "kDisconnecting"
          /\ queue # <<>> /\ Head(queue)[1] = "send" /\ queue' = Tail(queue)]_connVars
=============================================================================
