------------------------------ MODULE TcpServer ------------------------------
(***************************************************************************)
(* A TcpServer with its Acceptor in the base loop and a pool of IO loops.  *)
(* Connections are accepted in the base loop, live in the loop that the    *)
(* pool chose, and are removed by a relay: handleClose in the IO loop,     *)
(* removeConnectionInLoop in the base loop, connectDestroyed in the IO     *)
(* loop again.  Each hand-over is a functor that holds a reference to the  *)
(* connection; a Channel is a raw pointer in epoll and in activeChannels_. *)
(*                                                                         *)
(* A loop goes through the phases of EventLoop.tla; that it wakes up for   *)
(* its functors and its quit flag is shown there, so here the poll simply  *)
(* returns.  The server is built, started and destroyed by the thread of   *)
(* the base loop, as in examples/echo_server.cpp: start() before loop(),   *)
(* the destructor after it.                                                *)
(***************************************************************************)
EXTENDS Naturals, Sequences, FiniteSets

CONSTANTS
  Base,        \* the base loop
  Pool,        \* the IO loops that can be started, in order
  Conns,       \* the connections that clients open
  Acceptor,    \* acceptChannel_
  MaxCloses    \* bound: runs of handleClose per connection

IoLoops == {Pool[i] : i \in DOMAIN Pool}
Loops == {Base} \cup IoLoops

ASSUME ServerAssumption ==
  /\ Pool \in Seq(IoLoops)
  /\ Base \notin IoLoops
  /\ \A i, j \in DOMAIN Pool : Pool[i] = Pool[j] => i = j
  /\ Acceptor \notin Conns
  /\ MaxCloses \in Nat \ {0}

VARIABLES
  server,      \* the life of the TcpServer object
  numThreads,  \* numThreads_ of the pool
  next,        \* next_ of the pool
  listening,   \* the acceptor listens
  toldToQuit,  \* threads of the pool whose destructor has called quit()
  phase,       \* per loop: where its thread is
  quit,        \* per loop: quit_
  active,      \* per loop: activeChannels_ still to be handled
  pending,     \* per loop: pendingFunctions_
  batch,       \* per loop: functors taken by doPendingFunctions
  map,         \* connections_
  home,        \* per connection: its loop
  state,       \* per connection: state_; "none" before accept
  registered,  \* connections whose channel is in epoll
  hungUp,      \* connections whose peer has closed
  closes,      \* per connection: runs of handleClose
  destroyed    \* history: connections for which connectDestroyed ran

poolVars == <<numThreads, next>>
loopVars == <<phase, quit, active, pending, batch>>
connVars == <<map, home, state, registered, hungUp, closes, destroyed>>
vars == <<server, poolVars, listening, toldToQuit, loopVars, connVars>>

\* Functors that are bound to a TcpConnectionPtr.
Owning == {"establish", "remove", "destroy"}
Functors == Owning \X Conns

TypeOK ==
  /\ server \in {"built", "started", "dropping", "joining", "gone"}
  /\ numThreads \in 0 .. Len(Pool)
  /\ next \in Nat /\ (numThreads > 0 => next < numThreads)
  /\ listening \in BOOLEAN
  /\ toldToQuit \in 0 .. Len(Pool)
  /\ phase \in [Loops -> {"off", "enter", "test", "poll", "handle", "run", "exited"}]
  /\ quit \in [Loops -> BOOLEAN]
  /\ active \in [Loops -> SUBSET (Conns \cup {Acceptor})]
  /\ pending \in [Loops -> Seq(Functors)]
  /\ batch \in [Loops -> Seq(Functors)]
  /\ map \subseteq Conns
  /\ home \in [Conns -> Loops]
  /\ state \in [Conns -> {"none", "kConnecting", "kConnected", "kDisconnected"}]
  /\ registered \subseteq Conns
  /\ hungUp \subseteq Conns
  /\ closes \in [Conns -> 0 .. MaxCloses]
  /\ destroyed \subseteq Conns

\* The constructor and setThreadNum.
Init ==
  /\ server = "built"
  /\ numThreads \in 0 .. Len(Pool)
  /\ next = 0
  /\ listening = FALSE
  /\ toldToQuit = 0
  /\ phase = [l \in Loops |-> IF l = Base THEN "enter" ELSE "off"]
  /\ quit = [l \in Loops |-> FALSE]
  /\ active = [l \in Loops |-> {}]
  /\ pending = [l \in Loops |-> <<>>]
  /\ batch = [l \in Loops |-> <<>>]
  /\ map = {}
  /\ home = [c \in Conns |-> Base]
  /\ state = [c \in Conns |-> "none"]
  /\ registered = {}
  /\ hungUp = {}
  /\ closes = [c \in Conns |-> 0]
  /\ destroyed = {}

Started == {Pool[i] : i \in 1 .. numThreads}
-----------------------------------------------------------------------------
(* connectEstablished and connectDestroyed *)

ConnectEstablished(c) ==
  /\ state' = [state EXCEPT ![c] = "kConnected"]
  /\ registered' = registered \cup {c}

ConnectDestroyed(c) ==
  /\ state' = [state EXCEPT ![c] = IF @ = "kConnected" THEN "kDisconnected" ELSE @]
  /\ registered' = registered \ {c}
  /\ destroyed' = destroyed \cup {c}

Queued(q, l, f) == [q EXCEPT ![l] = Append(@, f)]
-----------------------------------------------------------------------------
(* TcpServer *)

\* start(): each thread has published its loop and is about to call loop().
Start ==
  /\ server = "built"
  /\ phase[Base] = "enter"
  /\ server' = "started"
  /\ listening' = TRUE
  /\ phase' = [l \in Loops |-> IF l \in Started THEN "enter" ELSE phase[l]]
  /\ UNCHANGED <<poolVars, toldToQuit, quit, active, pending, batch, connVars>>

\* getNextLoop: round robin over the pool; without a pool, the base loop.
NextLoop == IF numThreads = 0 THEN Base ELSE Pool[next + 1]
\* Broken variants: the index stays; it wraps one too late.
FollowingNever == 0
FollowingWrapsLate ==
  IF numThreads = 0 THEN next ELSE IF next >= numThreads THEN 0 ELSE next + 1
Following ==
  IF numThreads = 0 THEN next ELSE IF next + 1 >= numThreads THEN 0 ELSE next + 1

\* Acceptor::handleRead and newConnection, in the base loop.  runInLoop calls
\* connectEstablished on the spot when the connection lives in this loop.
NewConnection(c) ==
  /\ state[c] = "none"
  /\ home' = [home EXCEPT ![c] = NextLoop]
  /\ next' = Following
  /\ map' = map \cup {c}
  /\ IF NextLoop = Base
       THEN /\ ConnectEstablished(c)
            /\ UNCHANGED pending
       ELSE /\ state' = [state EXCEPT ![c] = "kConnecting"]
            /\ pending' = Queued(pending, NextLoop, <<"establish", c>>)
            /\ UNCHANGED registered

\* Broken variant: the table's reference goes, the channel stays in epoll.
RemoveInLoopForgetsDestroy(c, q) ==
  /\ map' = map \ {c}
  /\ pending' = q

\* removeConnectionInLoop.  connectDestroyed is queued, never called here, even
\* if this is the loop of the connection: one of its handlers may be running.
RemoveInLoop(c, q) ==
  /\ map' = map \ {c}
  /\ pending' = Queued(q, home[c], <<"destroy", c>>)
-----------------------------------------------------------------------------
(* The loops *)

LoopEnter(l) ==
  /\ phase[l] = "enter"
  /\ l = Base => server = "started"
  /\ phase' = [phase EXCEPT ![l] = "test"]
  /\ quit' = [quit EXCEPT ![l] = FALSE]
  /\ UNCHANGED <<server, poolVars, listening, toldToQuit, active, pending, batch, connVars>>

TestQuit(l) ==
  /\ phase[l] = "test"
  /\ phase' = [phase EXCEPT ![l] = IF quit[l] THEN "exited" ELSE "poll"]
  /\ UNCHANGED <<server, poolVars, listening, toldToQuit, quit, active, pending, batch, connVars>>

\* What epoll_wait can return: the connections whose peer has closed are ready,
\* any other may be, for a message.
Poll(l) ==
  /\ phase[l] = "poll"
  /\ phase' = [phase EXCEPT ![l] = "handle"]
  /\ LET mine == {c \in registered : home[c] = l}
         accepting == IF l = Base /\ listening THEN {Acceptor} ELSE {}
     IN \E ready \in SUBSET (mine \cup accepting) :
          /\ mine \cap hungUp \subseteq ready
          /\ active' = [active EXCEPT ![l] = ready]
  /\ UNCHANGED <<server, poolVars, listening, toldToQuit, quit, pending, batch, connVars>>

Taken(l, ch) ==
  /\ phase[l] = "handle"
  /\ ch \in active[l]
  /\ active' = [active EXCEPT ![l] = @ \ {ch}]
  /\ UNCHANGED <<server, numThreads, listening, toldToQuit, phase, quit, batch>>

HandleAccept(c) ==
  /\ Taken(Base, Acceptor)
  /\ NewConnection(c)
  /\ UNCHANGED <<hungUp, closes, destroyed>>

\* accept() finds that the client has gone.
AcceptFails ==
  /\ Taken(Base, Acceptor)
  /\ UNCHANGED <<next, pending, connVars>>

HandleMessage(l, c) ==
  /\ Taken(l, c)
  /\ c \notin hungUp
  /\ UNCHANGED <<next, pending, connVars>>

\* Broken variant: no closeCallback_.
HandleCloseTellsNobody(l, c) ==
  /\ Taken(l, c)
  /\ c \in hungUp
  /\ closes[c] < MaxCloses
  /\ closes' = [closes EXCEPT ![c] = @ + 1]
  /\ state' = [state EXCEPT ![c] = "kDisconnected"]
  /\ UNCHANGED <<next, pending, map, home, registered, hungUp, destroyed>>

\* handleClose and, through closeCallback_, removeConnection: in the base loop
\* removeConnectionInLoop is called at once, otherwise it is queued there.
HandleClose(l, c) ==
  /\ Taken(l, c)
  /\ c \in hungUp
  /\ closes[c] < MaxCloses
  /\ closes' = [closes EXCEPT ![c] = @ + 1]
  /\ state' = [state EXCEPT ![c] = "kDisconnected"]
  /\ IF l = Base
       THEN RemoveInLoop(c, pending)
       ELSE pending' = Queued(pending, Base, <<"remove", c>>) /\ UNCHANGED map
  /\ UNCHANGED <<next, home, registered, hungUp, destroyed>>

\* The bound is reached: the event is not looked at again.
CloseAgain(l, c) ==
  /\ Taken(l, c)
  /\ c \in hungUp
  /\ closes[c] = MaxCloses
  /\ UNCHANGED <<next, pending, connVars>>

BeginPending(l) ==
  /\ phase[l] = "handle"
  /\ active[l] = {}
  /\ phase' = [phase EXCEPT ![l] = "run"]
  /\ batch' = [batch EXCEPT ![l] = pending[l]]
  /\ pending' = [pending EXCEPT ![l] = <<>>]
  /\ UNCHANGED <<server, poolVars, listening, toldToQuit, quit, active, connVars>>

RunFunctor(l) ==
  /\ phase[l] = "run"
  /\ batch[l] # <<>>
  /\ batch' = [batch EXCEPT ![l] = Tail(@)]
  /\ LET f == Head(batch[l])
         c == f[2]
     IN \/ /\ f[1] = "establish"
           /\ ConnectEstablished(c)
           /\ UNCHANGED <<map, pending, destroyed>>
        \/ /\ f[1] = "remove"
           /\ RemoveInLoop(c, pending)
           /\ UNCHANGED <<state, registered, destroyed>>
        \/ /\ f[1] = "destroy"
           /\ ConnectDestroyed(c)
           /\ UNCHANGED <<map, pending>>
  /\ UNCHANGED <<server, poolVars, listening, toldToQuit, phase, quit, active, home, hungUp, closes>>

EndPending(l) ==
  /\ phase[l] = "run"
  /\ batch[l] = <<>>
  /\ phase' = [phase EXCEPT ![l] = "test"]
  /\ UNCHANGED <<server, poolVars, listening, toldToQuit, quit, active, pending, batch, connVars>>

PeerCloses(c) ==
  /\ state[c] # "none"
  /\ c \notin hungUp
  /\ hungUp' = hungUp \cup {c}
  /\ UNCHANGED <<server, poolVars, listening, toldToQuit, loopVars, map, home, state, registered,
                 closes, destroyed>>
-----------------------------------------------------------------------------
(* The end *)

\* The application stops the base loop.
QuitBase ==
  /\ server = "started"
  /\ phase[Base] \notin {"enter", "exited"}
  /\ quit' = [quit EXCEPT ![Base] = TRUE]
  /\ UNCHANGED <<server, poolVars, listening, toldToQuit, phase, active, pending, batch, connVars>>

BeginDrop ==
  /\ server = "started"
  /\ phase[Base] = "exited"
  /\ server' = "dropping"
  /\ UNCHANGED <<poolVars, listening, toldToQuit, loopVars, connVars>>

\* ~TcpServer, one connection of the table: runInLoop of connectDestroyed.
DropConnection(c) ==
  /\ server = "dropping"
  /\ c \in map
  /\ map' = map \ {c}
  /\ IF home[c] = Base
       THEN ConnectDestroyed(c) /\ UNCHANGED pending
       ELSE /\ pending' = Queued(pending, home[c], <<"destroy", c>>)
            /\ UNCHANGED <<state, registered, destroyed>>
  /\ UNCHANGED <<server, poolVars, listening, toldToQuit, phase, quit, active, batch, home, hungUp, closes>>

EndDrop ==
  /\ server = "dropping"
  /\ map = {}
  /\ server' = "joining"
  /\ UNCHANGED <<poolVars, listening, toldToQuit, loopVars, connVars>>

Joined(n) == \A i \in 1 .. n : phase[Pool[i]] = "exited"

\* Broken variant: join() without quit().
QuitThreadSilently ==
  /\ server = "joining"
  /\ toldToQuit < numThreads
  /\ Joined(toldToQuit)
  /\ toldToQuit' = toldToQuit + 1
  /\ UNCHANGED <<server, poolVars, listening, loopVars, connVars>>

\* ~EventLoopThread of the pool's threads, one after the other: quit(), then
\* join(), which waits for the thread to leave loop().
QuitThread ==
  /\ server = "joining"
  /\ toldToQuit < numThreads
  /\ Joined(toldToQuit)
  /\ toldToQuit' = toldToQuit + 1
  /\ quit' = [quit EXCEPT ![Pool[toldToQuit + 1]] = TRUE]
  /\ UNCHANGED <<server, poolVars, listening, phase, active, pending, batch, connVars>>

JoinLast ==
  /\ server = "joining"
  /\ toldToQuit = numThreads
  /\ Joined(numThreads)
  /\ server' = "gone"
  /\ UNCHANGED <<poolVars, listening, toldToQuit, loopVars, connVars>>
-----------------------------------------------------------------------------
LoopStep(l) ==
  \/ LoopEnter(l) \/ TestQuit(l) \/ Poll(l)
  \/ \E c \in Conns : HandleMessage(l, c) \/ HandleClose(l, c) \/ CloseAgain(l, c)
  \/ BeginPending(l) \/ RunFunctor(l) \/ EndPending(l)

Accept == (\E c \in Conns : HandleAccept(c)) \/ AcceptFails

Destructor ==
  BeginDrop \/ (\E c \in Conns : DropConnection(c)) \/ EndDrop \/ QuitThread \/ JoinLast

Next ==
  \/ Start
  \/ \E l \in Loops : LoopStep(l)
  \/ Accept
  \/ \E c \in Conns : PeerCloses(c)
  \/ QuitBase
  \/ Destructor

Spec == Init /\ [][Next]_vars

\* The threads of the loops and the destructor go on; clients and the
\* application do what they like.
Fairness ==
  /\ \A l \in Loops : WF_vars(LoopStep(l))
  /\ WF_vars(Accept)
  /\ WF_vars(Destructor)

FairSpec == Spec /\ Fairness
-----------------------------------------------------------------------------
(* Properties *)

\* A functor in q that holds a reference to the connection.
About(c, q) == \E i \in DOMAIN q : q[i] \in Owning \X {c}

\* Somebody holds a TcpConnectionPtr: the table, or a functor.  (The vector of
\* doPendingFunctions keeps its functors to the end; here each is released when
\* it has run, which makes the property stronger.)
Alive(c) == c \in map \/ \E l \in Loops : About(c, pending[l]) \/ About(c, batch[l])

\* The raw Channel pointers in epoll and in activeChannels_ always belong to a
\* live connection, across the relay between the loops and for as long as the
\* loop still polls (TcpServer.cpp:81-94, EventLoop.cpp:41-44).
NoDanglingChannel ==
  \A l \in Loops, c \in Conns :
    \/ c \in active[l]
    \/ c \in registered /\ home[c] = l /\ phase[l] # "exited"
    => Alive(c)

\* Round robin: no IO loop gets two connections more than another
\* (EventLoopThreadPool.cpp:36-49).
Assigned(l) == {c \in Conns : state[c] # "none" /\ home[c] = l}

Balanced ==
  \A k, l \in Started : Cardinality(Assigned(k)) <= Cardinality(Assigned(l)) + 1

\* A connection whose peer has closed leaves epoll by way of the relay, unless
\* the server is being stopped (TcpServer.cpp:81-94).
ClosedIsDestroyed ==
  \A c \in Conns : c \in hungUp \cap registered ~> c \in destroyed \/ quit[Base]

\* The destructor comes to its end, provided that every thread had entered
\* loop() when it began: a quit() before that is forgotten by loop() and join()
\* waits for ever (EventLoopThread.cpp:14-22, EventLoop.cpp:36).
DestructorReturns ==
  (server = "dropping" /\ \A l \in Started : phase[l] # "enter") ~> server = "gone"

\* No connection is forgotten on the relay or by the destructor: one that was
\* accepted and is not destroyed is still held by the table or by a functor that
\* will take it on.  What the end of the server leaves undestroyed is exactly what
\* sits in the queue of a loop that has left (TcpServer.cpp:36-45, 81-94).
NobodyForgotten ==
  \A c \in Conns : state[c] # "none" => c \in destroyed \/ Alive(c)
=============================================================================
