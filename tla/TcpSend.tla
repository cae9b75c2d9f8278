------------------------------- MODULE TcpSend --------------------------------
(***************************************************************************)
(* Another thread calls TcpConnection::send while the connection is being  *)
(* removed.  send tests state_ and hands sendInLoop to the IO loop in a    *)
(* functor that holds the raw this; the caller has a reference of its own  *)
(* as long as the call lasts.  The removal is that of TcpServer.           *)
(***************************************************************************)
EXTENDS TcpServer

CONSTANT Senders      \* threads that are not the loop of a connection

VARIABLES
  sender,   \* per thread: <<place in send, the connection it was called for>>
  kept      \* per loop: connections held by functors of the batch that have run

sendVars == <<vars, sender, kept>>

SendTypeOK ==
  /\ sender \in [Senders -> {"out"} \X {Acceptor} \cup {"test", "queue"} \X Conns]
  /\ kept \in [Loops -> SUBSET Conns]

SendInit ==
  /\ Init
  /\ sender = [t \in Senders |-> <<"out", Acceptor>>]
  /\ kept = [l \in Loops |-> {}]
-----------------------------------------------------------------------------
Goes(t, place, c) == sender' = [sender EXCEPT ![t] = <<place, c>>]

\* The caller gets a TcpConnectionPtr, as from the connection callback.
CallSend(t, c) ==
  /\ sender[t][1] = "out"
  /\ c \in map /\ state[c] = "kConnected"
  /\ Goes(t, "test", c)
  /\ UNCHANGED <<vars, kept>>

TestState(t) ==
  /\ sender[t][1] = "test"
  /\ LET c == sender[t][2]
     IN IF state[c] = "kConnected" THEN Goes(t, "queue", c) ELSE Goes(t, "out", Acceptor)
  /\ UNCHANGED <<vars, kept>>

\* runInLoop of another thread; then the call is over and the reference dropped.
QueueSend(t) ==
  /\ sender[t][1] = "queue"
  /\ LET c == sender[t][2] IN pending' = Queued(pending, home[c], <<"send", c>>)
  /\ Goes(t, "out", Acceptor)
  /\ UNCHANGED <<server, poolVars, listening, toldToQuit, phase, quit, active, batch, connVars, kept>>

Send(t) == (\E c \in Conns : CallSend(t, c)) \/ TestState(t) \/ QueueSend(t)

\* sendInLoop, by way of the raw pointer; what it does is in TcpConnection.
RunSend(l) ==
  /\ phase[l] = "run"
  /\ batch[l] # <<>> /\ Head(batch[l])[1] = "send"
  /\ batch' = [batch EXCEPT ![l] = Tail(@)]
  /\ UNCHANGED <<server, poolVars, listening, toldToQuit, phase, quit, active, pending, connVars,
                 sender, kept>>

\* The vector of doPendingFunctions frees its functors when all have run.
ServerStep ==
  /\ Next
  /\ kept' = [l \in Loops |->
                IF phase'[l] # "run" THEN {}
                ELSE IF phase[l] = "run" /\ batch'[l] # batch[l]
                  THEN kept[l] \cup {Head(batch[l])[2]}
                  ELSE kept[l]]
  /\ UNCHANGED sender

SendNext ==
  \/ ServerStep
  \/ \E t \in Senders : Send(t)
  \/ \E l \in Loops : RunSend(l)

SendSpec == SendInit /\ [][SendNext]_sendVars
-----------------------------------------------------------------------------
(* Properties *)

Held(c) ==
  \/ Alive(c)
  \/ \E l \in Loops : c \in kept[l]
  \/ \E t \in Senders : sender[t][2] = c

\* The comment of send calls it the thread-safe way to send (TcpConnection.cpp:41):
\* when its functor runs, the connection behind the raw this still exists.
SendFindsConnection ==
  \A l \in Loops, c \in Conns :
    phase[l] = "run" /\ batch[l] # <<>> /\ Head(batch[l]) = <<"send", c>> => Held(c)
=============================================================================
