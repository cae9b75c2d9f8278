--------------------------- MODULE TcpServerProofs ----------------------------
(***************************************************************************)
(* Theorems about TcpServer, for any pool and any set of connections, not  *)
(* bounded in number: type correctness, no dangling Channel, nobody        *)
(* forgotten on the relay, the round robin and what the destructor leaves  *)
(* behind.  About TcpSend, for any number of callers: when a send misses   *)
(* its connection.                                                         *)
(***************************************************************************)
EXTENDS TcpSend, SequenceTheorems, FiniteSetTheorems, TLAPS

-----------------------------------------------------------------------------
(* Queues *)

\* The functors that loop l has still to run, in order.
Todo(l) == batch[l] \o pending[l]

LEMMA AppendAt ==
  ASSUME NEW S, NEW q \in Seq(S), NEW f \in S
  PROVE  /\ Append(q, f) \in Seq(S)
         /\ DOMAIN q = 1 .. Len(q)
         /\ DOMAIN Append(q, f) = 1 .. Len(q) + 1
         /\ Len(q) \in Nat
         /\ \A i \in 1 .. Len(q) : Append(q, f)[i] = q[i]
         /\ Append(q, f)[Len(q) + 1] = f
BY AppendProperties, LenProperties

LEMMA TailAt ==
  ASSUME NEW S, NEW q \in Seq(S), q # <<>>
  PROVE  /\ Tail(q) \in Seq(S)
         /\ Head(q) = q[1] /\ Head(q) \in S
         /\ 1 \in DOMAIN q
         /\ DOMAIN q = 1 .. Len(q)
         /\ DOMAIN Tail(q) = 1 .. Len(q) - 1
         /\ Len(q) \in Nat \ {0}
         /\ \A i \in 1 .. Len(q) - 1 : Tail(q)[i] = q[i + 1]
BY HeadTailProperties, LenProperties, EmptySeq

LEMMA ConcatAppend ==
  ASSUME NEW S, NEW s \in Seq(S), NEW t \in Seq(S), NEW f \in S
  PROVE  s \o Append(t, f) = Append(s \o t, f)
  OBVIOUS

LEMMA ConcatTail ==
  ASSUME NEW S, NEW s \in Seq(S), NEW t \in Seq(S), s # <<>>
  PROVE  /\ Head(s \o t) = Head(s)
         /\ Tail(s \o t) = Tail(s) \o t
         /\ s \o t # <<>>
  OBVIOUS

\* An element of batch \o pending is an element of one of them.
LEMMA ConcatAbout ==
  ASSUME NEW S, NEW s \in Seq(S), NEW t \in Seq(S), NEW i \in DOMAIN (s \o t)
  PROVE  \/ \E j \in DOMAIN s : s[j] = (s \o t)[i]
         \/ \E j \in DOMAIN t : t[j] = (s \o t)[i]
<1>1. /\ DOMAIN (s \o t) = 1 .. Len(s) + Len(t)
      /\ DOMAIN s = 1 .. Len(s) /\ DOMAIN t = 1 .. Len(t)
      /\ Len(s) \in Nat /\ Len(t) \in Nat
  BY ConcatProperties, LenProperties
<1>2. (s \o t)[i] = IF i <= Len(s) THEN s[i] ELSE t[i - Len(s)]
  BY <1>1, ConcatProperties
<1>3. CASE i <= Len(s)
  BY <1>1, <1>2, <1>3
<1>4. CASE ~(i <= Len(s))
  <2>1. i - Len(s) \in 1 .. Len(t)
    BY <1>1, <1>4
  <2> QED  BY <1>1, <1>2, <1>4, <2>1
<1> QED  BY <1>3, <1>4
-----------------------------------------------------------------------------
(* Type correctness *)

LEMMA LoopsFacts ==
  /\ Base \in Loops
  /\ IoLoops \subseteq Loops
  /\ Len(Pool) \in Nat
  /\ DOMAIN Pool = 1 .. Len(Pool)
  /\ \A i \in 1 .. Len(Pool) : Pool[i] \in IoLoops /\ Pool[i] \in Loops /\ Pool[i] # Base
<1>1. Pool \in Seq(IoLoops)
  BY ServerAssumption
<1>2. Len(Pool) \in Nat /\ DOMAIN Pool = 1 .. Len(Pool)
  BY <1>1, LenProperties
<1> QED  BY <1>2, ServerAssumption DEF Loops, IoLoops

\* The loop that the pool chooses for a connection, and where next_ goes then.
LEMMA RoundRobin ==
  ASSUME numThreads \in 0 .. Len(Pool), next \in Nat, numThreads > 0 => next < numThreads
  PROVE  /\ NextLoop \in Loops
         /\ NextLoop = Base <=> numThreads = 0
         /\ Following \in Nat
         /\ numThreads > 0 => /\ Following < numThreads
                              /\ next + 1 \in 1 .. numThreads
                              /\ NextLoop = Pool[next + 1]
<1>1. CASE numThreads = 0
  BY <1>1, LoopsFacts DEF NextLoop, Following
<1>2. CASE numThreads > 0
  <2>1. next + 1 \in 1 .. Len(Pool)
    BY <1>2, LoopsFacts
  <2> QED  BY <1>2, <2>1, LoopsFacts DEF NextLoop, Following
<1>3. numThreads \in Nat
  BY LoopsFacts
<1> QED  BY <1>1, <1>2, <1>3

LEMMA QueuedType ==
  ASSUME NEW q \in [Loops -> Seq(Functors)], NEW k \in Loops, NEW f \in Functors
  PROVE  /\ Queued(q, k, f) \in [Loops -> Seq(Functors)]
         /\ Queued(q, k, f)[k] = Append(q[k], f)
         /\ \A l \in Loops \ {k} : Queued(q, k, f)[l] = q[l]
<1>1. Append(q[k], f) \in Seq(Functors)
  BY AppendProperties
<1> QED  BY <1>1 DEF Queued

\* The steps that start, stop and destroy the server.
LEMMA TypeLife ==
  ASSUME TypeOK, Start \/ QuitBase \/ Destructor
  PROVE  TypeOK'
<1> USE DEF TypeOK
<1>1. CASE Start \/ QuitBase \/ BeginDrop \/ EndDrop \/ JoinLast
  BY <1>1, LoopsFacts DEF Start, QuitBase, BeginDrop, EndDrop, JoinLast, poolVars, loopVars, connVars
<1>2. ASSUME NEW c \in Conns, DropConnection(c) PROVE TypeOK'
  <2>1. <<"destroy", c>> \in Functors /\ home[c] \in Loops
    BY DEF Functors, Owning
  <2>2. Queued(pending, home[c], <<"destroy", c>>) \in [Loops -> Seq(Functors)]
    BY <2>1, QueuedType
  <2> QED  BY <1>2, <2>2 DEF DropConnection, ConnectDestroyed, poolVars
<1>3. CASE QuitThread
  <2>1. toldToQuit + 1 \in 0 .. Len(Pool)
    BY <1>3, LoopsFacts DEF QuitThread
  <2> QED  BY <1>3, <2>1 DEF QuitThread, poolVars, connVars
<1> QED  BY <1>1, <1>2, <1>3 DEF Destructor

\* The steps of a loop that leave the connections alone.
LEMMA TypeLoop ==
  ASSUME TypeOK, NEW l \in Loops,
         \/ LoopEnter(l) \/ TestQuit(l) \/ Poll(l) \/ BeginPending(l) \/ EndPending(l)
  PROVE  TypeOK'
<1> USE DEF TypeOK
<1>1. CASE LoopEnter(l) \/ TestQuit(l) \/ EndPending(l)
  BY <1>1 DEF LoopEnter, TestQuit, EndPending, poolVars, connVars
<1>2. CASE Poll(l)
  <2>1. PICK ready : /\ ready \in SUBSET (Conns \cup {Acceptor})
                     /\ active' = [active EXCEPT ![l] = ready]
    BY <1>2 DEF Poll
  <2> QED  BY <1>2, <2>1 DEF Poll, poolVars, connVars
<1>3. CASE BeginPending(l)
  <2>1. <<>> \in Seq(Functors)
    BY EmptySeq
  <2> QED  BY <1>3, <2>1 DEF BeginPending, poolVars, connVars
<1> QED  BY <1>1, <1>2, <1>3

LEMMA TakenType ==
  ASSUME TypeOK, NEW l \in Loops, NEW ch, Taken(l, ch)
  PROVE  active' \in [Loops -> SUBSET (Conns \cup {Acceptor})]
BY DEF TypeOK, Taken

\* The events of the base loop's acceptor and of a connection's channel.
LEMMA TypeEvent ==
  ASSUME TypeOK, NEW l \in Loops,
         \/ Accept
         \/ \E c \in Conns : HandleMessage(l, c) \/ HandleClose(l, c) \/ CloseAgain(l, c)
         \/ \E c \in Conns : PeerCloses(c)
  PROVE  TypeOK'
<1> USE DEF TypeOK
<1>1. ASSUME NEW c \in Conns, HandleAccept(c) PROVE TypeOK'
  <2>1. NextLoop \in Loops /\ Following \in Nat /\ (numThreads > 0 => Following < numThreads)
    BY RoundRobin
  <2>2. <<"establish", c>> \in Functors
    BY DEF Functors, Owning
  <2>3. Queued(pending, NextLoop, <<"establish", c>>) \in [Loops -> Seq(Functors)]
    BY <2>1, <2>2, QueuedType
  <2>4. /\ next' \in Nat /\ (numThreads' > 0 => next' < numThreads')
        /\ pending' \in [Loops -> Seq(Functors)]
        /\ home' \in [Conns -> Loops]
        /\ map' \subseteq Conns
        /\ registered' \subseteq Conns
    BY <1>1, <2>1, <2>3 DEF HandleAccept, NewConnection, Taken, ConnectEstablished
  <2>5. state' \in [Conns -> {"none", "kConnecting", "kConnected", "kDisconnected"}]
    BY <1>1 DEF HandleAccept, NewConnection, ConnectEstablished
  <2>6. active' \in [Loops -> SUBSET (Conns \cup {Acceptor})]
    BY <1>1 DEF HandleAccept, Taken
  <2> QED  BY <1>1, <2>4, <2>5, <2>6 DEF HandleAccept, Taken
<1>2. CASE AcceptFails
  BY <1>2 DEF AcceptFails, Taken, connVars
<1>3. ASSUME NEW c \in Conns, HandleMessage(l, c) \/ CloseAgain(l, c) PROVE TypeOK'
  <2>1. active' \in [Loops -> SUBSET (Conns \cup {Acceptor})]
    BY <1>3, TakenType DEF HandleMessage, CloseAgain
  <2>2. UNCHANGED <<server, poolVars, listening, toldToQuit, phase, quit, batch, pending, connVars>>
    BY <1>3 DEF HandleMessage, CloseAgain, Taken, poolVars
  <2> QED  BY <2>1, <2>2 DEF poolVars, connVars
<1>4. ASSUME NEW c \in Conns, HandleClose(l, c) PROVE TypeOK'
  <2>1. /\ <<"destroy", c>> \in Functors /\ <<"remove", c>> \in Functors
        /\ home[c] \in Loops /\ Base \in Loops
    BY LoopsFacts DEF Functors, Owning
  <2>2. pending' \in [Loops -> Seq(Functors)]
    <3>1. /\ Queued(pending, home[c], <<"destroy", c>>) \in [Loops -> Seq(Functors)]
          /\ Queued(pending, Base, <<"remove", c>>) \in [Loops -> Seq(Functors)]
      BY <2>1, QueuedType
    <3> QED  BY <1>4, <3>1 DEF HandleClose, RemoveInLoop
  <2>3. map' \subseteq Conns
    BY <1>4 DEF HandleClose, RemoveInLoop
  <2>4. closes' \in [Conns -> 0 .. MaxCloses]
    <3>1. closes[c] + 1 \in 0 .. MaxCloses
      BY <1>4, ServerAssumption DEF HandleClose
    <3> QED  BY <1>4, <3>1 DEF HandleClose
  <2>5. active' \in [Loops -> SUBSET (Conns \cup {Acceptor})]
    BY <1>4 DEF HandleClose, Taken
  <2> QED  BY <1>4, <2>2, <2>3, <2>4, <2>5 DEF HandleClose, Taken
<1>5. ASSUME NEW c \in Conns, PeerCloses(c) PROVE TypeOK'
  BY <1>5 DEF PeerCloses, poolVars, loopVars
<1> QED  BY <1>1, <1>2, <1>3, <1>4, <1>5 DEF Accept

LEMMA TypeFunctor ==
  ASSUME TypeOK, NEW l \in Loops, RunFunctor(l)
  PROVE  TypeOK'
<1> USE DEF TypeOK
<1>1. /\ batch[l] \in Seq(Functors)
      /\ Head(batch[l]) \in Functors /\ Tail(batch[l]) \in Seq(Functors)
  BY TailAt DEF RunFunctor
<1>2. batch' \in [Loops -> Seq(Functors)]
  BY <1>1 DEF RunFunctor
<1>3. PICK c \in Conns : c = Head(batch[l])[2]
  BY <1>1 DEF Functors
<1>4. <<"destroy", c>> \in Functors /\ home[c] \in Loops
  BY DEF Functors, Owning
<1>5. pending' \in [Loops -> Seq(Functors)]
  <2>1. Queued(pending, home[c], <<"destroy", c>>) \in [Loops -> Seq(Functors)]
    BY <1>4, QueuedType
  <2> QED  BY <1>3, <2>1 DEF RunFunctor, RemoveInLoop
<1>6. /\ map' \subseteq Conns /\ registered' \subseteq Conns /\ destroyed' \subseteq Conns
      /\ state' \in [Conns -> {"none", "kConnecting", "kConnected", "kDisconnected"}]
  BY <1>3 DEF RunFunctor, RemoveInLoop, ConnectEstablished, ConnectDestroyed
<1> QED  BY <1>2, <1>5, <1>6 DEF RunFunctor, poolVars

\* The type invariant of the server, its pool and its connections
\* (TcpServer.cpp:15-94, EventLoopThreadPool.cpp:7-49).
THEOREM ServerTypeCorrect == Spec => []TypeOK
<1>1. Init => TypeOK
  <2> SUFFICES ASSUME Init PROVE TypeOK
    OBVIOUS
  <2>1. <<>> \in Seq(Functors)
    BY EmptySeq
  <2>2. numThreads > 0 => next < numThreads
    BY LoopsFacts DEF Init
  <2>3. \A l \in Loops : active[l] = {} /\ pending[l] = <<>> /\ batch[l] = <<>>
    BY DEF Init
  <2>4. /\ active \in [Loops -> SUBSET (Conns \cup {Acceptor})]
        /\ pending \in [Loops -> Seq(Functors)]
        /\ batch \in [Loops -> Seq(Functors)]
    BY <2>1, <2>3 DEF Init
  <2>5. /\ phase \in [Loops -> {"off", "enter", "test", "poll", "handle", "run", "exited"}]
        /\ quit \in [Loops -> BOOLEAN]
        /\ home \in [Conns -> Loops]
        /\ closes \in [Conns -> 0 .. MaxCloses]
    BY LoopsFacts, ServerAssumption DEF Init
  <2>6. /\ server \in {"built", "started", "dropping", "joining", "gone"}
        /\ numThreads \in 0 .. Len(Pool)
        /\ next \in Nat
        /\ toldToQuit \in 0 .. Len(Pool)
    BY LoopsFacts DEF Init
  <2>8. listening \in BOOLEAN
    BY Zenon DEF Init
  <2>7. /\ map \subseteq Conns /\ registered \subseteq Conns
        /\ hungUp \subseteq Conns /\ destroyed \subseteq Conns
        /\ state \in [Conns -> {"none", "kConnecting", "kConnected", "kDisconnected"}]
    BY DEF Init
  <2> QED  BY <2>2, <2>4, <2>5, <2>6, <2>7, <2>8 DEF TypeOK
<1>2. TypeOK /\ [Next]_vars => TypeOK'
  <2> SUFFICES ASSUME TypeOK, [Next]_vars PROVE TypeOK'
    OBVIOUS
  <2>1. CASE Start \/ QuitBase \/ Destructor
    BY <2>1, TypeLife
  <2>2. ASSUME NEW l \in Loops, LoopStep(l) PROVE TypeOK'
    BY <2>2, TypeLoop, TypeEvent, TypeFunctor DEF LoopStep
  <2>3. CASE Accept \/ \E c \in Conns : PeerCloses(c)
    BY <2>3, TypeEvent, LoopsFacts
  <2>4. CASE UNCHANGED vars
    BY <2>4 DEF TypeOK, vars, poolVars, loopVars, connVars
  <2> QED  BY <2>1, <2>2, <2>3, <2>4 DEF Next
<1> QED  BY <1>1, <1>2, PTL DEF Spec
-----------------------------------------------------------------------------
(* Phases *)

\* Channels are active only while the loop handles events, and then they are
\* registered; functors are in a batch only while it runs them; before start()
\* no loop runs, and the base loop has left when the destructor runs.
PhaseInv ==
  /\ \A l \in Loops : /\ phase[l] # "handle" => active[l] = {}
                      /\ phase[l] # "run" => batch[l] = <<>>
                      /\ \A c \in Conns : c \in active[l] => c \in registered /\ home[c] = l
  /\ server = "built" => \A l \in Loops : phase[l] \in {"off", "enter"}
  /\ server = "built" => \A l \in IoLoops : phase[l] = "off"
  /\ server \in {"dropping", "joining", "gone"} => phase[Base] = "exited"

\* Where a functor may wait.
FunctorOK(l, f) ==
  /\ state[f[2]] # "none"
  /\ f[1] = "remove" => l = Base /\ home[f[2]] # Base
  /\ f[1] # "remove" => l = home[f[2]]
  /\ f[1] = "establish" => /\ l # Base
                           /\ f[2] \notin registered
                           /\ f[2] \notin destroyed

QueueInv == \A l \in Loops : \A i \in DOMAIN Todo(l) : FunctorOK(l, Todo(l)[i])

\* connectEstablished comes once, and before every connectDestroyed.
Established(q) ==
  \A i, j \in DOMAIN q :
    q[i][1] = "establish" /\ i # j /\ q[j][2] = q[i][2] => q[j][1] = "destroy" /\ i < j

OrderInv == \A l \in Loops : Established(Todo(l))

\* A connection that is on the relay is in the table, or its connectDestroyed is
\* queued in its loop, or has run.
ToDestroy(c) == \E i \in DOMAIN Todo(home[c]) : Todo(home[c])[i] = <<"destroy", c>>

ConnInv ==
  \A c \in Conns :
    /\ c \in map \cup registered \cup destroyed => state[c] # "none"
    /\ c \in destroyed => c \notin registered
    /\ state[c] # "none" => c \in map \/ c \in destroyed \/ ToDestroy(c)

RelayInv == QueueInv /\ OrderInv /\ ConnInv
-----------------------------------------------------------------------------
(* What a step does to the queues *)

LEMMA TodoType ==
  ASSUME TypeOK, NEW l \in Loops
  PROVE  /\ Todo(l) \in Seq(Functors)
         /\ batch[l] \in Seq(Functors) /\ pending[l] \in Seq(Functors)
         /\ Len(Todo(l)) \in Nat
         /\ DOMAIN Todo(l) = 1 .. Len(Todo(l))
         /\ \A i \in DOMAIN Todo(l) : /\ Todo(l)[i] \in Functors
                                      /\ Todo(l)[i][2] \in Conns
                                      /\ Todo(l)[i] = <<Todo(l)[i][1], Todo(l)[i][2]>>
<1>1. batch[l] \in Seq(Functors) /\ pending[l] \in Seq(Functors)
  BY DEF TypeOK
<1>2. Todo(l) \in Seq(Functors)
  BY <1>1, ConcatProperties DEF Todo
<1>3. Len(Todo(l)) \in Nat /\ DOMAIN Todo(l) = 1 .. Len(Todo(l))
  BY <1>2, LenProperties
<1>4. \A i \in DOMAIN Todo(l) : Todo(l)[i] \in Functors
  BY <1>2, <1>3, ElementOfSeq
<1> QED  BY <1>1, <1>2, <1>3, <1>4 DEF Functors

LEMMA TodoQueued ==
  ASSUME TypeOK, NEW k \in Loops, NEW f \in Functors,
         batch' = batch, pending' = Queued(pending, k, f)
  PROVE  /\ Todo(k)' = Append(Todo(k), f)
         /\ \A l \in Loops : l # k => Todo(l)' = Todo(l)
<1>0. pending \in [Loops -> Seq(Functors)] /\ batch \in [Loops -> Seq(Functors)]
  BY DEF TypeOK
<1>1. /\ pending'[k] = Append(pending[k], f)
      /\ \A l \in Loops \ {k} : pending'[l] = pending[l]
  BY <1>0 DEF Queued
<1>2. batch[k] \o Append(pending[k], f) = Append(batch[k] \o pending[k], f)
  <2>1. pending[k] \in Seq(Functors) /\ batch[k] \in Seq(Functors) /\ f \in Functors
    BY <1>0
  <2>2. \A s, t \in Seq(Functors) : \A e \in Functors :
          s \o Append(t, e) = Append(s \o t, e)
    BY ConcatAppend
  <2> QED  BY <2>1, <2>2, Zenon
<1>3. Todo(k)' = Append(Todo(k), f)
  BY <1>1, <1>2 DEF Todo
<1>4. ASSUME NEW l \in Loops, l # k
      PROVE  Todo(l)' = Todo(l)
  BY <1>1, <1>4 DEF Todo
<1> QED  BY <1>3, <1>4

LEMMA TodoHead ==
  ASSUME TypeOK, NEW l \in Loops, batch[l] # <<>>
  PROVE  /\ Head(batch[l]) = Todo(l)[1] /\ 1 \in DOMAIN Todo(l)
         /\ Todo(l) # <<>>
         /\ Tail(batch[l]) \o pending[l] = Tail(Todo(l))
<1>1. batch[l] \in Seq(Functors) /\ pending[l] \in Seq(Functors) /\ Todo(l) \in Seq(Functors)
  BY TodoType
<1>2. /\ Head(Todo(l)) = Head(batch[l])
      /\ Tail(Todo(l)) = Tail(batch[l]) \o pending[l]
      /\ Todo(l) # <<>>
  BY <1>1, ConcatTail DEF Todo
<1>3. Head(Todo(l)) = Todo(l)[1] /\ 1 \in DOMAIN Todo(l)
  BY <1>1, <1>2, TailAt
<1> QED  BY <1>2, <1>3

\* The steps that leave the relay alone.
LEMMA RelaySame ==
  ASSUME TypeOK, RelayInv, \A l \in Loops : Todo(l)' = Todo(l),
         \A c \in Conns : state[c] # "none" <=> state'[c] # "none",
         UNCHANGED <<map, home, registered, destroyed>>
  PROVE  RelayInv'
<1>1. QueueInv'
  BY TodoType DEF RelayInv, QueueInv, FunctorOK
<1>2. OrderInv'
  BY DEF RelayInv, OrderInv, Established
<1>3. ConnInv'
  BY DEF RelayInv, ConnInv, ToDestroy, TypeOK
<1> QED  BY <1>1, <1>2, <1>3 DEF RelayInv

\* A connectDestroyed is queued in the loop of the connection, which leaves the
\* table: removeConnectionInLoop, and the destructor for an IO loop.
LEMMA RelayDestroyQueued ==
  ASSUME TypeOK, RelayInv, NEW c \in Conns, state[c] # "none",
         Todo(home[c])' = Append(Todo(home[c]), <<"destroy", c>>),
         \A l \in Loops : l # home[c] => Todo(l)' = Todo(l),
         map' = map \ {c},
         \A d \in Conns : state[d] # "none" <=> state'[d] # "none",
         UNCHANGED <<home, registered, destroyed>>
  PROVE  RelayInv'
<1> DEFINE h == home[c]
           f == <<"destroy", c>>
<1>0. h \in Loops /\ f \in Functors /\ f[1] = "destroy" /\ f[2] = c
  BY DEF TypeOK, Functors, Owning
<1>1. /\ DOMAIN Todo(h) = 1 .. Len(Todo(h)) /\ Len(Todo(h)) \in Nat
      /\ DOMAIN (Todo(h)') = 1 .. Len(Todo(h)) + 1
      /\ \A i \in 1 .. Len(Todo(h)) : Todo(h)'[i] = Todo(h)[i]
      /\ Todo(h)'[Len(Todo(h)) + 1] = f
  BY <1>0, TodoType, AppendAt
<1>2. QueueInv'
  <2> SUFFICES ASSUME NEW l \in Loops, NEW i \in DOMAIN (Todo(l)')
               PROVE  FunctorOK(l, Todo(l)[i])'
    BY DEF QueueInv
  <2>1. CASE l # h
    BY <2>1, TodoType DEF RelayInv, QueueInv, FunctorOK
  <2>2. CASE l = h /\ i \in 1 .. Len(Todo(h))
    BY <1>1, <2>2, TodoType DEF RelayInv, QueueInv, FunctorOK
  <2>3. CASE l = h /\ i = Len(Todo(h)) + 1
    BY <1>0, <1>1, <2>3 DEF FunctorOK
  <2> QED  BY <1>1, <2>1, <2>2, <2>3
<1>3. OrderInv'
  <2> SUFFICES ASSUME NEW l \in Loops, NEW i \in DOMAIN (Todo(l)'), NEW j \in DOMAIN (Todo(l)'),
                      Todo(l)'[i][1] = "establish", i # j, Todo(l)'[j][2] = Todo(l)'[i][2]
               PROVE  Todo(l)'[j][1] = "destroy" /\ i < j
    BY DEF OrderInv, Established
  <2>1. CASE l # h
    BY <2>1 DEF RelayInv, OrderInv, Established
  <2>2. CASE l = h
    <3>1. i \in 1 .. Len(Todo(h))
      BY <1>0, <1>1, <2>2
    <3>2. CASE j \in 1 .. Len(Todo(h))
      BY <1>1, <2>2, <3>1, <3>2 DEF RelayInv, OrderInv, Established
    <3>3. CASE j = Len(Todo(h)) + 1
      BY <1>0, <1>1, <2>2, <3>1, <3>3
    <3> QED  BY <1>1, <2>2, <3>2, <3>3
  <2> QED  BY <2>1, <2>2
<1>4. ConnInv'
  <2> SUFFICES ASSUME NEW d \in Conns
               PROVE  /\ d \in map' \cup registered' \cup destroyed' => state'[d] # "none"
                      /\ d \in destroyed' => d \notin registered'
                      /\ state'[d] # "none" => d \in map' \/ d \in destroyed' \/ ToDestroy(d)'
    BY DEF ConnInv
  <2>1. ToDestroy(c)'
    BY <1>0, <1>1 DEF ToDestroy
  <2>2. ToDestroy(d) => ToDestroy(d)'
    <3>1. home[d] \in Loops
      BY DEF TypeOK
    <3>2. CASE home[d] = h
      <4>1. SUFFICES ASSUME NEW i \in 1 .. Len(Todo(h)), Todo(h)[i] = <<"destroy", d>>
                     PROVE  ToDestroy(d)'
        BY <1>1, <3>2 DEF ToDestroy
      <4>2. i \in DOMAIN (Todo(h)') /\ Todo(h)'[i] = <<"destroy", d>>
        BY <1>1, <4>1
      <4> QED  BY <3>2, <4>2 DEF ToDestroy
    <3>3. CASE home[d] # h
      BY <3>1, <3>3 DEF ToDestroy
    <3> QED  BY <3>2, <3>3
  <2> QED  BY <2>1, <2>2 DEF RelayInv, ConnInv
<1> QED  BY <1>2, <1>3, <1>4 DEF RelayInv

\* handleClose in an IO loop: removeConnectionInLoop is queued in the base loop.
LEMMA RelayRemoveQueued ==
  ASSUME TypeOK, RelayInv, NEW c \in Conns, state[c] # "none", home[c] # Base,
         Todo(Base)' = Append(Todo(Base), <<"remove", c>>),
         \A l \in Loops : l # Base => Todo(l)' = Todo(l),
         \A d \in Conns : state[d] # "none" <=> state'[d] # "none",
         UNCHANGED <<map, home, registered, destroyed>>
  PROVE  RelayInv'
<1> DEFINE f == <<"remove", c>>
<1>0. Base \in Loops /\ f \in Functors /\ f[1] = "remove" /\ f[2] = c
  BY LoopsFacts DEF Functors, Owning
<1>1. /\ DOMAIN Todo(Base) = 1 .. Len(Todo(Base)) /\ Len(Todo(Base)) \in Nat
      /\ DOMAIN (Todo(Base)') = 1 .. Len(Todo(Base)) + 1
      /\ \A i \in 1 .. Len(Todo(Base)) : Todo(Base)'[i] = Todo(Base)[i]
      /\ Todo(Base)'[Len(Todo(Base)) + 1] = f
  BY <1>0, TodoType, AppendAt
<1>2. QueueInv'
  <2> SUFFICES ASSUME NEW l \in Loops, NEW i \in DOMAIN (Todo(l)')
               PROVE  FunctorOK(l, Todo(l)[i])'
    BY DEF QueueInv
  <2>1. CASE l # Base
    BY <2>1, TodoType DEF RelayInv, QueueInv, FunctorOK
  <2>2. CASE l = Base /\ i \in 1 .. Len(Todo(Base))
    BY <1>1, <2>2, TodoType DEF RelayInv, QueueInv, FunctorOK
  <2>3. CASE l = Base /\ i = Len(Todo(Base)) + 1
    BY <1>0, <1>1, <2>3 DEF FunctorOK
  <2> QED  BY <1>1, <2>1, <2>2, <2>3
<1>3. OrderInv'
  <2> SUFFICES ASSUME NEW l \in Loops, NEW i \in DOMAIN (Todo(l)'), NEW j \in DOMAIN (Todo(l)'),
                      Todo(l)'[i][1] = "establish", i # j, Todo(l)'[j][2] = Todo(l)'[i][2]
               PROVE  Todo(l)'[j][1] = "destroy" /\ i < j
    BY DEF OrderInv, Established
  <2>1. CASE l # Base
    BY <2>1 DEF RelayInv, OrderInv, Established
  <2>2. CASE l = Base
    <3>1. i \in 1 .. Len(Todo(Base)) /\ Todo(Base)[i][1] = "establish"
      BY <1>0, <1>1, <2>2
    <3>2. FALSE
      BY <1>0, <1>1, <3>1 DEF RelayInv, QueueInv, FunctorOK
    <3> QED  BY <3>2
  <2> QED  BY <2>1, <2>2
<1>4. ConnInv'
  <2> SUFFICES ASSUME NEW d \in Conns
               PROVE  ToDestroy(d) => ToDestroy(d)'
    BY DEF ConnInv, RelayInv
  <2>1. home[d] \in Loops
    BY DEF TypeOK
  <2>2. CASE home[d] = Base
    <3>1. SUFFICES ASSUME NEW i \in 1 .. Len(Todo(Base)), Todo(Base)[i] = <<"destroy", d>>
                   PROVE  ToDestroy(d)'
      BY <1>1, <2>2 DEF ToDestroy
    <3>2. i \in DOMAIN (Todo(Base)') /\ Todo(Base)'[i] = <<"destroy", d>>
      BY <1>1, <3>1
    <3> QED  BY <2>2, <3>2 DEF ToDestroy
  <2>3. CASE home[d] # Base
    BY <2>1, <2>3 DEF ToDestroy
  <2> QED  BY <2>2, <2>3
<1> QED  BY <1>2, <1>3, <1>4 DEF RelayInv

\* newConnection for an IO loop: connectEstablished is queued there.
LEMMA RelayEstablishQueued ==
  ASSUME TypeOK, RelayInv, NEW c \in Conns, state[c] = "none",
         NEW k \in Loops, k # Base,
         home' = [home EXCEPT ![c] = k],
         state' = [state EXCEPT ![c] = "kConnecting"],
         Todo(k)' = Append(Todo(k), <<"establish", c>>),
         \A l \in Loops : l # k => Todo(l)' = Todo(l),
         map' = map \cup {c},
         UNCHANGED <<registered, destroyed>>
  PROVE  RelayInv'
<1> DEFINE f == <<"establish", c>>
<1>0. f \in Functors /\ f[1] = "establish" /\ f[2] = c
  BY DEF Functors, Owning
<1>1. /\ DOMAIN Todo(k) = 1 .. Len(Todo(k)) /\ Len(Todo(k)) \in Nat
      /\ DOMAIN (Todo(k)') = 1 .. Len(Todo(k)) + 1
      /\ \A i \in 1 .. Len(Todo(k)) : Todo(k)'[i] = Todo(k)[i]
      /\ Todo(k)'[Len(Todo(k)) + 1] = f
  BY <1>0, TodoType, AppendAt
<1>2. \A l \in Loops : \A i \in DOMAIN Todo(l) : Todo(l)[i][2] # c
  BY DEF RelayInv, QueueInv, FunctorOK
<1>3. /\ home'[c] = k /\ state'[c] = "kConnecting"
      /\ \A d \in Conns : d # c => home'[d] = home[d] /\ state'[d] = state[d]
      /\ c \notin registered /\ c \notin destroyed
  BY DEF TypeOK, RelayInv, ConnInv
<1>4. QueueInv'
  <2> SUFFICES ASSUME NEW l \in Loops, NEW i \in DOMAIN (Todo(l)')
               PROVE  FunctorOK(l, Todo(l)[i])'
    BY DEF QueueInv
  <2>1. CASE i \in DOMAIN Todo(l) /\ Todo(l)'[i] = Todo(l)[i]
    <3>1. Todo(l)[i][2] \in Conns /\ Todo(l)[i][2] # c
      BY <1>2, <2>1, TodoType
    <3> QED  BY <1>3, <2>1, <3>1 DEF RelayInv, QueueInv, FunctorOK
  <2>2. CASE l = k /\ i = Len(Todo(k)) + 1
    BY <1>0, <1>1, <1>3, <2>2 DEF FunctorOK
  <2> QED  BY <1>1, <2>1, <2>2
<1>5. OrderInv'
  <2> SUFFICES ASSUME NEW l \in Loops, NEW i \in DOMAIN (Todo(l)'), NEW j \in DOMAIN (Todo(l)'),
                      Todo(l)'[i][1] = "establish", i # j, Todo(l)'[j][2] = Todo(l)'[i][2]
               PROVE  Todo(l)'[j][1] = "destroy" /\ i < j
    BY DEF OrderInv, Established
  <2>1. CASE l # k
    BY <2>1 DEF RelayInv, OrderInv, Established
  <2>2. CASE l = k
    <3>1. i \in 1 .. Len(Todo(k)) /\ j \in 1 .. Len(Todo(k))
      BY <1>0, <1>1, <1>2, <2>2
    <3> QED  BY <1>1, <2>2, <3>1 DEF RelayInv, OrderInv, Established
  <2> QED  BY <2>1, <2>2
<1>6. ConnInv'
  <2> SUFFICES ASSUME NEW d \in Conns
               PROVE  /\ d \in map' \cup registered' \cup destroyed' => state'[d] # "none"
                      /\ d \in destroyed' => d \notin registered'
                      /\ state'[d] # "none" => d \in map' \/ d \in destroyed' \/ ToDestroy(d)'
    BY DEF ConnInv
  <2>1. CASE d = c
    BY <1>3, <2>1
  <2>2. CASE d # c
    <3>1. ASSUME ToDestroy(d) PROVE ToDestroy(d)'
      <4>1. home[d] \in Loops /\ home'[d] = home[d]
        BY <1>3, <2>2 DEF TypeOK
      <4>2. PICK i \in DOMAIN Todo(home[d]) : Todo(home[d])[i] = <<"destroy", d>>
        BY <3>1 DEF ToDestroy
      <4>3. CASE home[d] = k
        <5>1. i \in DOMAIN (Todo(k)') /\ Todo(k)'[i] = <<"destroy", d>>
          BY <1>1, <4>2, <4>3
        <5> QED  BY <4>1, <4>3, <5>1 DEF ToDestroy
      <4>4. CASE home[d] # k
        BY <4>1, <4>2, <4>4 DEF ToDestroy
      <4> QED  BY <4>3, <4>4
    <3> QED  BY <1>3, <2>2, <3>1 DEF RelayInv, ConnInv
  <2> QED  BY <2>1, <2>2
<1> QED  BY <1>4, <1>5, <1>6 DEF RelayInv

\* newConnection for the base loop: connectEstablished on the spot.
LEMMA RelayEstablishedAtOnce ==
  ASSUME TypeOK, RelayInv, NEW c \in Conns, state[c] = "none",
         home' = [home EXCEPT ![c] = Base],
         state' = [state EXCEPT ![c] = "kConnected"],
         \A l \in Loops : Todo(l)' = Todo(l),
         map' = map \cup {c}, registered' = registered \cup {c}, destroyed' = destroyed
  PROVE  RelayInv'
<1>1. \A l \in Loops : \A i \in DOMAIN Todo(l) : Todo(l)[i][2] # c
  BY DEF RelayInv, QueueInv, FunctorOK
<1>2. /\ home'[c] = Base /\ state'[c] = "kConnected"
      /\ \A d \in Conns : d # c => home'[d] = home[d] /\ state'[d] = state[d]
      /\ c \notin destroyed
  BY DEF TypeOK, RelayInv, ConnInv
<1>3. QueueInv'
  <2> SUFFICES ASSUME NEW l \in Loops, NEW i \in DOMAIN Todo(l)
               PROVE  FunctorOK(l, Todo(l)[i])'
    BY DEF QueueInv
  <2>1. Todo(l)[i][2] \in Conns /\ Todo(l)[i][2] # c /\ Todo(l)'[i] = Todo(l)[i]
    BY <1>1, TodoType
  <2> QED  BY <1>2, <2>1 DEF RelayInv, QueueInv, FunctorOK
<1>4. OrderInv'
  BY DEF RelayInv, OrderInv, Established
<1>5. ConnInv'
  <2> SUFFICES ASSUME NEW d \in Conns
               PROVE  /\ d \in map' \cup registered' \cup destroyed' => state'[d] # "none"
                      /\ d \in destroyed' => d \notin registered'
                      /\ state'[d] # "none" => d \in map' \/ d \in destroyed' \/ ToDestroy(d)'
    BY DEF ConnInv
  <2>1. CASE d = c
    BY <1>2, <2>1
  <2>2. CASE d # c
    <3>1. home[d] \in Loops /\ home'[d] = home[d]
      BY <1>2, <2>2 DEF TypeOK
    <3>2. ToDestroy(d) => ToDestroy(d)'
      BY <3>1 DEF ToDestroy
    <3> QED  BY <1>2, <2>2, <3>2 DEF RelayInv, ConnInv
  <2> QED  BY <2>1, <2>2
<1> QED  BY <1>3, <1>4, <1>5 DEF RelayInv

\* The destructor, for a connection of the base loop.
LEMMA RelayDestroyedAtOnce ==
  ASSUME TypeOK, RelayInv, NEW c \in Conns, state[c] # "none", home[c] = Base,
         \A l \in Loops : Todo(l)' = Todo(l),
         \A d \in Conns : state[d] # "none" <=> state'[d] # "none",
         map' = map \ {c}, registered' = registered \ {c}, destroyed' = destroyed \cup {c},
         home' = home
  PROVE  RelayInv'
<1>1. QueueInv'
  <2> SUFFICES ASSUME NEW l \in Loops, NEW i \in DOMAIN Todo(l)
               PROVE  FunctorOK(l, Todo(l)[i])'
    BY DEF QueueInv
  <2>1. /\ Todo(l)[i][2] \in Conns /\ Todo(l)'[i] = Todo(l)[i]
        /\ FunctorOK(l, Todo(l)[i])
    BY TodoType DEF RelayInv, QueueInv
  <2> QED  BY <2>1 DEF FunctorOK
<1>2. OrderInv'
  BY DEF RelayInv, OrderInv, Established
<1>3. ConnInv'
  <2> SUFFICES ASSUME NEW d \in Conns
               PROVE  /\ d \in map' \cup registered' \cup destroyed' => state'[d] # "none"
                      /\ d \in destroyed' => d \notin registered'
                      /\ state'[d] # "none" => d \in map' \/ d \in destroyed' \/ ToDestroy(d)'
    BY DEF ConnInv
  <2>1. ToDestroy(d) => ToDestroy(d)'
    BY DEF ToDestroy, TypeOK
  <2> QED  BY <2>1 DEF RelayInv, ConnInv
<1> QED  BY <1>1, <1>2, <1>3 DEF RelayInv

\* A queue that has lost its first functor.
LEMMA TodoTailAt ==
  ASSUME TypeOK, NEW l \in Loops, Todo(l) # <<>>, Todo(l)' = Tail(Todo(l))
  PROVE  /\ DOMAIN Todo(l) = 1 .. Len(Todo(l)) /\ Len(Todo(l)) \in Nat \ {0}
         /\ DOMAIN (Todo(l)') = 1 .. Len(Todo(l)) - 1
         /\ \A i \in DOMAIN (Todo(l)') : i + 1 \in DOMAIN Todo(l) /\ Todo(l)'[i] = Todo(l)[i + 1]
         /\ \A i \in DOMAIN Todo(l) : i # 1 => i - 1 \in DOMAIN (Todo(l)')
                                              /\ Todo(l)'[i - 1] = Todo(l)[i]
<1>1. Todo(l) \in Seq(Functors)
  BY TodoType
<1> QED  BY <1>1, TailAt

LEMMA TailEstablished ==
  ASSUME TypeOK, NEW l \in Loops, Todo(l) # <<>>, Todo(l)' = Tail(Todo(l)),
         Established(Todo(l))
  PROVE  Established(Todo(l))'
<1> SUFFICES ASSUME NEW i \in DOMAIN (Todo(l)'), NEW j \in DOMAIN (Todo(l)'),
                    Todo(l)'[i][1] = "establish", i # j, Todo(l)'[j][2] = Todo(l)'[i][2]
             PROVE  Todo(l)'[j][1] = "destroy" /\ i < j
  BY DEF Established
<1>1. /\ i + 1 \in DOMAIN Todo(l) /\ Todo(l)'[i] = Todo(l)[i + 1]
      /\ j + 1 \in DOMAIN Todo(l) /\ Todo(l)'[j] = Todo(l)[j + 1]
      /\ i \in Nat /\ j \in Nat
  BY TodoTailAt
<1>2. i + 1 # j + 1 /\ (i + 1 < j + 1 <=> i < j)
  BY <1>1
<1> QED  BY <1>1, <1>2 DEF Established

\* The functor of connectEstablished runs.
LEMMA RelayRunEstablish ==
  ASSUME TypeOK, RelayInv, NEW l \in Loops, NEW c \in Conns,
         Todo(l) # <<>>, Todo(l)[1] = <<"establish", c>>, Todo(l)' = Tail(Todo(l)),
         \A k \in Loops : k # l => Todo(k)' = Todo(k),
         \A d \in Conns : state[d] # "none" <=> state'[d] # "none",
         registered' = registered \cup {c},
         UNCHANGED <<map, home, destroyed>>
  PROVE  RelayInv'
<1>1. 1 \in DOMAIN Todo(l) /\ Todo(l)[1][1] = "establish" /\ Todo(l)[1][2] = c
  BY TodoTailAt
<1>2. state[c] # "none" /\ l = home[c] /\ c \notin destroyed
  BY <1>1 DEF RelayInv, QueueInv, FunctorOK
<1>3. \A i \in DOMAIN Todo(l) : i # 1 /\ Todo(l)[i][2] = c => Todo(l)[i][1] = "destroy"
  BY <1>1 DEF RelayInv, OrderInv, Established
<1>4. QueueInv'
  <2> SUFFICES ASSUME NEW k \in Loops, NEW i \in DOMAIN (Todo(k)')
               PROVE  FunctorOK(k, Todo(k)[i])'
    BY DEF QueueInv
  <2>1. CASE k = l
    <3>1. /\ i + 1 \in DOMAIN Todo(l) /\ Todo(l)'[i] = Todo(l)[i + 1] /\ i + 1 # 1
          /\ FunctorOK(l, Todo(l)[i + 1]) /\ Todo(l)[i + 1][2] \in Conns
      BY <2>1, TodoTailAt, TodoType DEF RelayInv, QueueInv
    <3>2. Todo(l)[i + 1][1] = "establish" => Todo(l)[i + 1][2] # c
      BY <1>3, <3>1
    <3> QED  BY <2>1, <3>1, <3>2 DEF FunctorOK
  <2>2. CASE k # l
    <3>1. /\ Todo(k)'[i] = Todo(k)[i] /\ FunctorOK(k, Todo(k)[i]) /\ Todo(k)[i][2] \in Conns
      BY <2>2, TodoType DEF RelayInv, QueueInv
    <3> QED  BY <1>2, <2>2, <3>1 DEF FunctorOK
  <2> QED  BY <2>1, <2>2
<1>5. OrderInv'
  <2> SUFFICES ASSUME NEW k \in Loops PROVE Established(Todo(k))'
    BY DEF OrderInv
  <2> QED  BY TailEstablished DEF RelayInv, OrderInv, Established
<1>6. ConnInv'
  <2> SUFFICES ASSUME NEW d \in Conns, ToDestroy(d)
               PROVE  ToDestroy(d)'
    BY <1>2 DEF ConnInv, RelayInv
  <2>1. home[d] \in Loops
    BY DEF TypeOK
  <2>2. PICK i \in DOMAIN Todo(home[d]) : Todo(home[d])[i] = <<"destroy", d>>
    BY DEF ToDestroy
  <2>3. CASE home[d] = l
    <3>1. i # 1
      BY <1>1, <2>2, <2>3
    <3>2. i - 1 \in DOMAIN (Todo(l)') /\ Todo(l)'[i - 1] = <<"destroy", d>>
      BY <2>2, <2>3, <3>1, TodoTailAt
    <3> QED  BY <2>3, <3>2 DEF ToDestroy
  <2>4. CASE home[d] # l
    BY <2>1, <2>2, <2>4 DEF ToDestroy
  <2> QED  BY <2>3, <2>4
<1> QED  BY <1>4, <1>5, <1>6 DEF RelayInv

\* The functor of connectDestroyed runs.
LEMMA RelayRunDestroy ==
  ASSUME TypeOK, RelayInv, NEW l \in Loops, NEW c \in Conns,
         Todo(l) # <<>>, Todo(l)[1] = <<"destroy", c>>, Todo(l)' = Tail(Todo(l)),
         \A k \in Loops : k # l => Todo(k)' = Todo(k),
         \A d \in Conns : state[d] # "none" <=> state'[d] # "none",
         registered' = registered \ {c}, destroyed' = destroyed \cup {c},
         UNCHANGED <<map, home>>
  PROVE  RelayInv'
<1>1. 1 \in DOMAIN Todo(l) /\ Todo(l)[1][1] = "destroy" /\ Todo(l)[1][2] = c
  BY TodoTailAt
<1>2. state[c] # "none" /\ l = home[c]
  BY <1>1 DEF RelayInv, QueueInv, FunctorOK
<1>3. ASSUME NEW i \in DOMAIN Todo(l), i # 1, Todo(l)[i][2] = c
      PROVE  Todo(l)[i][1] # "establish"
  <2>1. i \in Nat \ {0} /\ ~(i < 1)
    BY TodoTailAt
  <2> QED  BY <1>1, <1>3, <2>1 DEF RelayInv, OrderInv, Established
<1>4. QueueInv'
  <2> SUFFICES ASSUME NEW k \in Loops, NEW i \in DOMAIN (Todo(k)')
               PROVE  FunctorOK(k, Todo(k)[i])'
    BY DEF QueueInv
  <2>1. CASE k = l
    <3>1. /\ i + 1 \in DOMAIN Todo(l) /\ Todo(l)'[i] = Todo(l)[i + 1] /\ i + 1 # 1
          /\ FunctorOK(l, Todo(l)[i + 1]) /\ Todo(l)[i + 1][2] \in Conns
      BY <2>1, TodoTailAt, TodoType DEF RelayInv, QueueInv
    <3>2. Todo(l)[i + 1][1] = "establish" => Todo(l)[i + 1][2] # c
      BY <1>3, <3>1
    <3> QED  BY <2>1, <3>1, <3>2 DEF FunctorOK
  <2>2. CASE k # l
    <3>1. /\ Todo(k)'[i] = Todo(k)[i] /\ FunctorOK(k, Todo(k)[i]) /\ Todo(k)[i][2] \in Conns
      BY <2>2, TodoType DEF RelayInv, QueueInv
    <3> QED  BY <1>2, <2>2, <3>1 DEF FunctorOK
  <2> QED  BY <2>1, <2>2
<1>5. OrderInv'
  <2> SUFFICES ASSUME NEW k \in Loops PROVE Established(Todo(k))'
    BY DEF OrderInv
  <2> QED  BY TailEstablished DEF RelayInv, OrderInv, Established
<1>6. ConnInv'
  <2> SUFFICES ASSUME NEW d \in Conns, d # c, ToDestroy(d)
               PROVE  ToDestroy(d)'
    BY <1>2 DEF ConnInv, RelayInv
  <2>1. home[d] \in Loops
    BY DEF TypeOK
  <2>2. PICK i \in DOMAIN Todo(home[d]) : Todo(home[d])[i] = <<"destroy", d>>
    BY DEF ToDestroy
  <2>3. CASE home[d] = l
    <3>1. i # 1
      BY <1>1, <2>2, <2>3
    <3>2. i - 1 \in DOMAIN (Todo(l)') /\ Todo(l)'[i - 1] = <<"destroy", d>>
      BY <2>2, <2>3, <3>1, TodoTailAt
    <3> QED  BY <2>3, <3>2 DEF ToDestroy
  <2>4. CASE home[d] # l
    BY <2>1, <2>2, <2>4 DEF ToDestroy
  <2> QED  BY <2>3, <2>4
<1> QED  BY <1>4, <1>5, <1>6 DEF RelayInv
\* connectDestroyed is queued behind everything else.
LEMMA DestroyLast ==
  ASSUME NEW q \in Seq(Functors), NEW c \in Conns, Established(q)
  PROVE  Established(Append(q, <<"destroy", c>>))
<1> DEFINE f == <<"destroy", c>>
<1>0. f \in Functors /\ f[1] = "destroy"
  BY DEF Functors, Owning
<1> SUFFICES ASSUME NEW i \in DOMAIN Append(q, f), NEW j \in DOMAIN Append(q, f),
                    Append(q, f)[i][1] = "establish", i # j, Append(q, f)[j][2] = Append(q, f)[i][2]
             PROVE  Append(q, f)[j][1] = "destroy" /\ i < j
  BY DEF Established
<1>1. /\ DOMAIN q = 1 .. Len(q) /\ Len(q) \in Nat
      /\ DOMAIN Append(q, f) = 1 .. Len(q) + 1
      /\ \A n \in 1 .. Len(q) : Append(q, f)[n] = q[n]
      /\ Append(q, f)[Len(q) + 1] = f
  BY <1>0, AppendAt
<1>2. i \in 1 .. Len(q)
  BY <1>0, <1>1
<1>3. CASE j \in 1 .. Len(q)
  BY <1>1, <1>2, <1>3 DEF Established
<1>4. CASE j = Len(q) + 1
  BY <1>0, <1>1, <1>2, <1>4
<1> QED  BY <1>1, <1>3, <1>4

\* The functor of removeConnectionInLoop runs in the base loop.
LEMMA RelayRunRemove ==
  ASSUME TypeOK, RelayInv, NEW c \in Conns, state[c] # "none",
         NEW h \in Loops, h = home[c], h # Base,
         Todo(Base) # <<>>, Todo(Base)[1] = <<"remove", c>>, Todo(Base)' = Tail(Todo(Base)),
         Todo(h)' = Append(Todo(h), <<"destroy", c>>),
         \A k \in Loops : k # Base /\ k # h => Todo(k)' = Todo(k),
         map' = map \ {c},
         UNCHANGED <<state, home, registered, destroyed>>
  PROVE  RelayInv'
<1> DEFINE f == <<"destroy", c>>
<1>0. Base \in Loops /\ f \in Functors /\ f[1] = "destroy" /\ f[2] = c
  BY LoopsFacts DEF Functors, Owning
<1>1. /\ DOMAIN Todo(h) = 1 .. Len(Todo(h)) /\ Len(Todo(h)) \in Nat
      /\ DOMAIN (Todo(h)') = 1 .. Len(Todo(h)) + 1
      /\ \A i \in 1 .. Len(Todo(h)) : Todo(h)'[i] = Todo(h)[i]
      /\ Todo(h)'[Len(Todo(h)) + 1] = f
  BY <1>0, TodoType, AppendAt
<1>2. QueueInv'
  <2> SUFFICES ASSUME NEW k \in Loops, NEW i \in DOMAIN (Todo(k)')
               PROVE  FunctorOK(k, Todo(k)[i])'
    BY DEF QueueInv
  <2>1. ASSUME NEW j \in DOMAIN Todo(k), Todo(k)'[i] = Todo(k)[j]
        PROVE  FunctorOK(k, Todo(k)[i])'
    BY <2>1 DEF RelayInv, QueueInv, FunctorOK
  <2>2. CASE k = Base
    BY <1>0, <2>1, <2>2, TodoTailAt
  <2>3. CASE k = h
    <3>1. CASE i = Len(Todo(h)) + 1
      BY <1>0, <1>1, <2>3, <3>1 DEF FunctorOK
    <3>2. CASE i \in 1 .. Len(Todo(h))
      BY <1>1, <2>1, <2>3, <3>2
    <3> QED  BY <1>1, <2>3, <3>1, <3>2
  <2>4. CASE k # Base /\ k # h
    BY <2>1, <2>4
  <2> QED  BY <2>2, <2>3, <2>4
<1>3. OrderInv'
  <2> SUFFICES ASSUME NEW k \in Loops PROVE Established(Todo(k))'
    BY DEF OrderInv
  <2>1. CASE k = Base
    BY <1>0, <2>1, TailEstablished DEF RelayInv, OrderInv
  <2>2. CASE k = h
    <3>1. Established(Append(Todo(h), f))
      BY TodoType, DestroyLast DEF RelayInv, OrderInv
    <3>2. Established(Todo(h))'
      BY <3>1 DEF Established
    <3> QED  BY <2>2, <3>2
  <2>3. CASE k # Base /\ k # h
    BY <2>3 DEF RelayInv, OrderInv, Established
  <2> QED  BY <2>1, <2>2, <2>3
<1>4. ConnInv'
  <2>1. ToDestroy(c)'
    <3>1. home'[c] = h
      OBVIOUS
    <3>2. Len(Todo(h)) + 1 \in DOMAIN (Todo(h)') /\ Todo(h)'[Len(Todo(h)) + 1] = f
      BY <1>1
    <3> QED  BY <3>1, <3>2 DEF ToDestroy
  <2> SUFFICES ASSUME NEW d \in Conns, d # c, ToDestroy(d)
               PROVE  ToDestroy(d)'
    BY <2>1 DEF ConnInv, RelayInv
  <2>2. home[d] \in Loops
    BY DEF TypeOK
  <2>3. PICK i \in DOMAIN Todo(home[d]) : Todo(home[d])[i] = <<"destroy", d>>
    BY DEF ToDestroy
  <2>4. CASE home[d] = Base
    <3>1. i # 1
      BY <2>3, <2>4
    <3>2. i - 1 \in DOMAIN (Todo(Base)') /\ Todo(Base)'[i - 1] = <<"destroy", d>>
      BY <1>0, <2>3, <2>4, <3>1, TodoTailAt
    <3> QED  BY <2>4, <3>2 DEF ToDestroy
  <2>5. CASE home[d] = h
    <3>1. i \in DOMAIN (Todo(h)') /\ Todo(h)'[i] = <<"destroy", d>>
      BY <1>1, <2>3, <2>5
    <3> QED  BY <2>5, <3>1 DEF ToDestroy
  <2>6. CASE home[d] # Base /\ home[d] # h
    BY <2>2, <2>3, <2>6 DEF ToDestroy
  <2> QED  BY <2>4, <2>5, <2>6
<1> QED  BY <1>2, <1>3, <1>4 DEF RelayInv
-----------------------------------------------------------------------------
(* The steps *)

\* Which functor runs, and what the queue of its loop becomes.
LEMMA FunctorRuns ==
  ASSUME TypeOK, NEW l \in Loops, RunFunctor(l)
  PROVE  \E c \in Conns :
           /\ Todo(l) # <<>> /\ Todo(l)[1] = Head(batch[l]) /\ 1 \in DOMAIN Todo(l)
           /\ batch' = [batch EXCEPT ![l] = Tail(@)]
           /\ Head(batch[l])[2] = c
           /\ UNCHANGED home
           /\ \/ /\ Todo(l)[1] = <<"establish", c>>
                 /\ ConnectEstablished(c)
                 /\ UNCHANGED <<map, pending, destroyed>>
              \/ /\ Todo(l)[1] = <<"remove", c>>
                 /\ RemoveInLoop(c, pending)
                 /\ UNCHANGED <<state, registered, destroyed>>
              \/ /\ Todo(l)[1] = <<"destroy", c>>
                 /\ ConnectDestroyed(c)
                 /\ UNCHANGED <<map, pending>>
<1>1. batch[l] \in Seq(Functors) /\ batch[l] # <<>> /\ Head(batch[l]) \in Functors
  BY TailAt DEF RunFunctor, TypeOK
<1>2. PICK c \in Conns : c = Head(batch[l])[2] /\ Head(batch[l]) = <<Head(batch[l])[1], c>>
  BY <1>1 DEF Functors
<1>3. Todo(l) # <<>> /\ Todo(l)[1] = Head(batch[l]) /\ 1 \in DOMAIN Todo(l)
  BY <1>1, TodoHead
<1> QED  BY <1>2, <1>3 DEF RunFunctor

LEMMA PhaseStep ==
  ASSUME TypeOK, PhaseInv, RelayInv, Next
  PROVE  PhaseInv'
<1>0. Base \in Loops /\ IoLoops \subseteq Loops /\ Acceptor \notin Conns
      /\ \A l \in Loops : l = Base \/ l \in IoLoops
  BY LoopsFacts, ServerAssumption DEF Loops
<1>1. CASE Start
  <2>1. \A l \in Loops : active[l] = {} /\ batch[l] = <<>>
    BY <1>1 DEF Start, PhaseInv
  <2>2. server' = "started" /\ UNCHANGED <<active, batch, registered, home>>
    BY <1>1 DEF Start, connVars
  <2> QED  BY <2>1, <2>2 DEF PhaseInv
<1>2. ASSUME NEW l \in Loops, LoopEnter(l) \/ TestQuit(l) \/ EndPending(l)
      PROVE  PhaseInv'
  <2>1. UNCHANGED <<server, active, batch, registered, home>>
    BY <1>2 DEF LoopEnter, TestQuit, EndPending, connVars
  <2>2. \E p \in {"test", "poll", "exited"} : phase' = [phase EXCEPT ![l] = p]
    BY <1>2 DEF LoopEnter, TestQuit, EndPending
  <2>3. active[l] = {} /\ batch[l] = <<>>
    BY <1>2 DEF LoopEnter, TestQuit, EndPending, PhaseInv
  <2>4. server # "built"
    BY <1>0, <1>2 DEF LoopEnter, TestQuit, EndPending, PhaseInv
  <2>5. phase[l] # "exited"
    BY <1>2 DEF LoopEnter, TestQuit, EndPending
  <2> QED  BY <2>1, <2>2, <2>3, <2>4, <2>5 DEF PhaseInv, TypeOK
<1>3. ASSUME NEW l \in Loops, Poll(l)
      PROVE  PhaseInv'
  <2>1. UNCHANGED <<server, batch, registered, home>> /\ phase' = [phase EXCEPT ![l] = "handle"]
    BY <1>3 DEF Poll, connVars
  <2>2. PICK ready : /\ active' = [active EXCEPT ![l] = ready]
                     /\ ready \subseteq {c \in registered : home[c] = l} \cup {Acceptor}
    BY <1>3 DEF Poll
  <2>3. server # "built" /\ phase[l] # "exited" /\ batch[l] = <<>>
    BY <1>0, <1>3 DEF Poll, PhaseInv
  <2> QED  BY <1>0, <2>1, <2>2, <2>3 DEF PhaseInv, TypeOK
<1>4. ASSUME NEW l \in Loops, BeginPending(l)
      PROVE  PhaseInv'
  <2>1. /\ UNCHANGED <<server, active, registered, home>>
        /\ phase' = [phase EXCEPT ![l] = "run"] /\ batch' = [batch EXCEPT ![l] = pending[l]]
        /\ active[l] = {} /\ phase[l] = "handle"
    BY <1>4 DEF BeginPending, connVars
  <2>2. server # "built"
    BY <1>0, <2>1 DEF PhaseInv
  <2> QED  BY <2>1, <2>2 DEF PhaseInv, TypeOK
<1>5. ASSUME NEW l \in Loops, NEW ch, Taken(l, ch),
             \A c \in Conns : c \in registered => c \in registered' /\ home'[c] = home[c]
      PROVE  PhaseInv'
  BY <1>5 DEF Taken, PhaseInv, TypeOK
<1>6. ASSUME NEW c \in Conns, HandleAccept(c)
      PROVE  PhaseInv'
  <2>1. c \notin registered
    BY <1>6 DEF HandleAccept, NewConnection, RelayInv, ConnInv
  <2>2. registered \subseteq registered' /\ home' = [home EXCEPT ![c] = NextLoop]
    BY <1>6 DEF HandleAccept, NewConnection, ConnectEstablished
  <2>3. Taken(Base, Acceptor)
    BY <1>6 DEF HandleAccept
  <2> QED  BY <1>0, <1>5, <2>1, <2>2, <2>3 DEF TypeOK
<1>7. CASE AcceptFails
  BY <1>0, <1>5, <1>7 DEF AcceptFails, connVars
<1>8. ASSUME NEW l \in Loops, NEW c \in Conns,
             HandleMessage(l, c) \/ HandleClose(l, c) \/ CloseAgain(l, c)
      PROVE  PhaseInv'
  <2>1. Taken(l, c) /\ UNCHANGED <<registered, home>>
    BY <1>8 DEF HandleMessage, HandleClose, CloseAgain, connVars
  <2> QED  BY <1>5, <2>1
<1>9. ASSUME NEW l \in Loops, RunFunctor(l)
      PROVE  PhaseInv'
  <2>1. PICK c \in Conns :
           /\ 1 \in DOMAIN Todo(l)
           /\ UNCHANGED home
           /\ registered' = registered \cup {c} \/ registered' = registered
              \/ (registered' = registered \ {c} /\ Todo(l)[1] = <<"destroy", c>>)
    BY <1>9, FunctorRuns DEF ConnectEstablished, ConnectDestroyed
  <2>2. /\ UNCHANGED <<server, active, phase>> /\ phase[l] = "run"
        /\ \A k \in Loops : k # l => batch'[k] = batch[k]
    BY <1>9 DEF RunFunctor, TypeOK
  <2>3. active[l] = {}
    BY <2>2 DEF PhaseInv
  <2>4. \A k \in Loops, d \in Conns : d \in active[k] => d \in registered'
    <3>1. CASE registered' = registered \ {c} /\ Todo(l)[1] = <<"destroy", c>>
      <4>1. home[c] = l
        BY <2>1, <3>1 DEF RelayInv, QueueInv, FunctorOK
      <4> QED  BY <2>3, <3>1, <4>1 DEF PhaseInv
    <3>2. CASE registered' = registered \cup {c} \/ registered' = registered
      BY <3>2 DEF PhaseInv
    <3> QED  BY <2>1, <3>1, <3>2
  <2> QED  BY <2>1, <2>2, <2>4 DEF PhaseInv
<1>10. ASSUME NEW c \in Conns, DropConnection(c)
       PROVE  PhaseInv'
  <2>1. /\ UNCHANGED <<server, active, batch, phase, home>> /\ phase[Base] = "exited"
        /\ server = "dropping"
    BY <1>10 DEF DropConnection, PhaseInv
  <2>2. registered' = registered \/ (registered' = registered \ {c} /\ home[c] = Base)
    BY <1>10 DEF DropConnection, ConnectDestroyed
  <2>3. active[Base] = {}
    BY <1>0, <2>1 DEF PhaseInv
  <2>4. \A k \in Loops, d \in Conns : d \in active[k] => d \in registered'
    BY <2>2, <2>3 DEF PhaseInv
  <2> QED  BY <2>1, <2>4 DEF PhaseInv
<1>11. CASE QuitBase \/ BeginDrop \/ EndDrop \/ QuitThread \/ JoinLast
            \/ \E c \in Conns : PeerCloses(c)
  <2>1. UNCHANGED <<phase, active, batch, registered, home>>
    BY <1>11 DEF QuitBase, BeginDrop, EndDrop, QuitThread, JoinLast, PeerCloses, loopVars, connVars
  <2>2. \/ server' = server
        \/ server' \in {"dropping", "joining", "gone"} /\ phase[Base] = "exited"
    BY <1>11 DEF QuitBase, BeginDrop, EndDrop, QuitThread, JoinLast, PeerCloses, PhaseInv
  <2> QED  BY <2>1, <2>2 DEF PhaseInv
<1> QED  BY <1>1, <1>2, <1>3, <1>4, <1>6, <1>7, <1>8, <1>9, <1>10, <1>11
         DEF Next, LoopStep, Accept, Destructor

LEMMA RelayAccept ==
  ASSUME TypeOK, RelayInv, NEW c \in Conns, HandleAccept(c)
  PROVE  RelayInv'
<1>1. /\ state[c] = "none" /\ batch' = batch
      /\ home' = [home EXCEPT ![c] = NextLoop]
      /\ map' = map \cup {c}
      /\ destroyed' = destroyed
  BY DEF HandleAccept, NewConnection, Taken
<1>2. NextLoop \in Loops
  BY RoundRobin DEF TypeOK
<1>3. CASE NextLoop = Base
  <2>1. /\ state' = [state EXCEPT ![c] = "kConnected"]
        /\ registered' = registered \cup {c} /\ pending' = pending
    BY <1>3 DEF HandleAccept, NewConnection, ConnectEstablished
  <2>2. \A l \in Loops : Todo(l)' = Todo(l)
    BY <1>1, <2>1 DEF Todo
  <2> QED  BY <1>1, <1>3, <2>1, <2>2, RelayEstablishedAtOnce
<1>4. CASE NextLoop # Base
  <2>1. /\ state' = [state EXCEPT ![c] = "kConnecting"]
        /\ registered' = registered
        /\ pending' = Queued(pending, NextLoop, <<"establish", c>>)
    BY <1>4 DEF HandleAccept, NewConnection
  <2>2. PICK k \in Loops : k = NextLoop
    BY <1>2
  <2>3. /\ Todo(k)' = Append(Todo(k), <<"establish", c>>)
        /\ \A l \in Loops : l # k => Todo(l)' = Todo(l)
    <3>1. <<"establish", c>> \in Functors
      BY DEF Functors, Owning
    <3>2. pending' = Queued(pending, k, <<"establish", c>>)
      BY <2>1, <2>2
    <3> QED  BY <1>1, <3>1, <3>2, TodoQueued
  <2> QED  BY <1>1, <1>4, <2>1, <2>2, <2>3, RelayEstablishQueued
<1> QED  BY <1>3, <1>4

LEMMA RelayClose ==
  ASSUME TypeOK, PhaseInv, RelayInv, NEW l \in Loops, NEW c \in Conns, HandleClose(l, c)
  PROVE  RelayInv'
<1>1. /\ home[c] = l /\ state[c] # "none"
      /\ state' = [state EXCEPT ![c] = "kDisconnected"]
      /\ UNCHANGED <<batch, home, registered, destroyed>>
  <2>1. c \in registered /\ home[c] = l
    BY DEF HandleClose, Taken, PhaseInv
  <2> QED  BY <2>1 DEF HandleClose, Taken, RelayInv, ConnInv
<1>2. \A d \in Conns : state[d] # "none" <=> state'[d] # "none"
  BY <1>1 DEF TypeOK
<1>3. CASE l = Base
  <2>1. map' = map \ {c} /\ pending' = Queued(pending, l, <<"destroy", c>>)
    BY <1>1, <1>3 DEF HandleClose, RemoveInLoop
  <2>2. <<"destroy", c>> \in Functors
    BY DEF Functors, Owning
  <2>3. /\ Todo(l)' = Append(Todo(l), <<"destroy", c>>)
        /\ \A k \in Loops : k # l => Todo(k)' = Todo(k)
    BY <1>1, <2>1, <2>2, TodoQueued
  <2> QED  BY <1>1, <1>2, <2>1, <2>3, RelayDestroyQueued
<1>4. CASE l # Base
  <2>1. map' = map /\ pending' = Queued(pending, Base, <<"remove", c>>)
    BY <1>4 DEF HandleClose
  <2>2. <<"remove", c>> \in Functors /\ Base \in Loops
    BY LoopsFacts DEF Functors, Owning
  <2>3. /\ Todo(Base)' = Append(Todo(Base), <<"remove", c>>)
        /\ \A k \in Loops : k # Base => Todo(k)' = Todo(k)
    BY <1>1, <2>1, <2>2, TodoQueued
  <2> QED  BY <1>1, <1>2, <1>4, <2>1, <2>3, RelayRemoveQueued
<1> QED  BY <1>3, <1>4

LEMMA RelayFunctor ==
  ASSUME TypeOK, PhaseInv, RelayInv, NEW l \in Loops, RunFunctor(l)
  PROVE  RelayInv'
<1>1. PICK c \in Conns :
        /\ Todo(l) # <<>> /\ 1 \in DOMAIN Todo(l)
        /\ batch' = [batch EXCEPT ![l] = Tail(@)]
        /\ UNCHANGED home
        /\ \/ /\ Todo(l)[1] = <<"establish", c>>
              /\ ConnectEstablished(c)
              /\ UNCHANGED <<map, pending, destroyed>>
           \/ /\ Todo(l)[1] = <<"remove", c>>
              /\ RemoveInLoop(c, pending)
              /\ UNCHANGED <<state, registered, destroyed>>
           \/ /\ Todo(l)[1] = <<"destroy", c>>
              /\ ConnectDestroyed(c)
              /\ UNCHANGED <<map, pending>>
  BY FunctorRuns
<1>2. FunctorOK(l, Todo(l)[1])
  BY <1>1 DEF RelayInv, QueueInv
<1>3. Tail(batch[l]) \o pending[l] = Tail(Todo(l))
  BY TodoHead DEF RunFunctor
<1>4. /\ batch'[l] = Tail(batch[l])
      /\ \A k \in Loops : k # l => batch'[k] = batch[k]
  BY <1>1 DEF TypeOK
<1>5. ASSUME pending' = pending
      PROVE  /\ Todo(l)' = Tail(Todo(l))
             /\ \A k \in Loops : k # l => Todo(k)' = Todo(k)
  BY <1>3, <1>4, <1>5 DEF Todo
<1>6. CASE Todo(l)[1] = <<"establish", c>> /\ ConnectEstablished(c)
           /\ UNCHANGED <<map, pending, destroyed>>
  <2>1. /\ registered' = registered \cup {c}
        /\ \A d \in Conns : state[d] # "none" <=> state'[d] # "none"
    BY <1>2, <1>6 DEF ConnectEstablished, FunctorOK, TypeOK
  <2> QED  BY <1>1, <1>5, <1>6, <2>1, RelayRunEstablish
<1>7. CASE Todo(l)[1] = <<"destroy", c>> /\ ConnectDestroyed(c) /\ UNCHANGED <<map, pending>>
  <2>1. /\ registered' = registered \ {c} /\ destroyed' = destroyed \cup {c}
        /\ \A d \in Conns : state[d] # "none" <=> state'[d] # "none"
    BY <1>7 DEF ConnectDestroyed, TypeOK
  <2> QED  BY <1>1, <1>5, <1>7, <2>1, RelayRunDestroy
<1>8. CASE Todo(l)[1] = <<"remove", c>> /\ RemoveInLoop(c, pending)
           /\ UNCHANGED <<state, registered, destroyed>>
  <2>1. l = Base /\ home[c] # Base /\ state[c] # "none"
    BY <1>2, <1>8 DEF FunctorOK
  <2>2. PICK h \in Loops : h = home[c]
    BY DEF TypeOK
  <2>3. map' = map \ {c} /\ pending' = Queued(pending, h, <<"destroy", c>>)
    BY <1>8, <2>2 DEF RemoveInLoop
  <2>4. /\ pending'[h] = Append(pending[h], <<"destroy", c>>)
        /\ \A k \in Loops : k # h => pending'[k] = pending[k]
    BY <2>3 DEF Queued, TypeOK
  <2>5. Todo(l)' = Tail(Todo(l))
    BY <1>3, <1>4, <2>1, <2>2, <2>4 DEF Todo
  <2>6. Todo(h)' = Append(Todo(h), <<"destroy", c>>)
    <3>1. <<"destroy", c>> \in Functors
      BY DEF Functors, Owning
    <3>2. batch[h] \in Seq(Functors) /\ pending[h] \in Seq(Functors)
      BY TodoType
    <3>3. \A s, t \in Seq(Functors) : \A e \in Functors :
            s \o Append(t, e) = Append(s \o t, e)
      BY ConcatAppend
    <3>4. batch'[h] = batch[h]
      BY <1>4, <2>1, <2>2
    <3>5. batch[h] \o Append(pending[h], <<"destroy", c>>)
            = Append(batch[h] \o pending[h], <<"destroy", c>>)
      BY <3>1, <3>2, <3>3, Zenon
    <3> QED  BY <2>4, <3>4, <3>5 DEF Todo
  <2>7. \A k \in Loops : k # l /\ k # h => Todo(k)' = Todo(k)
    BY <1>4, <2>4 DEF Todo
  <2> QED  BY <1>1, <1>8, <2>1, <2>2, <2>3, <2>5, <2>6, <2>7, RelayRunRemove
<1> QED  BY <1>1, <1>6, <1>7, <1>8

LEMMA RelayDrop ==
  ASSUME TypeOK, RelayInv, NEW c \in Conns, DropConnection(c)
  PROVE  RelayInv'
<1>1. /\ map' = map \ {c} /\ state[c] # "none"
      /\ UNCHANGED <<batch, home>>
  BY DEF DropConnection, RelayInv, ConnInv
<1>2. CASE home[c] = Base
  <2>1. /\ registered' = registered \ {c} /\ destroyed' = destroyed \cup {c}
        /\ pending' = pending
        /\ \A d \in Conns : state[d] # "none" <=> state'[d] # "none"
    BY <1>2 DEF DropConnection, ConnectDestroyed, TypeOK
  <2>2. \A l \in Loops : Todo(l)' = Todo(l)
    BY <1>1, <2>1 DEF Todo
  <2> QED  BY <1>1, <1>2, <2>1, <2>2, RelayDestroyedAtOnce
<1>3. CASE home[c] # Base
  <2>1. /\ pending' = Queued(pending, home[c], <<"destroy", c>>)
        /\ UNCHANGED <<state, registered, destroyed>>
    BY <1>3 DEF DropConnection
  <2>2. PICK h \in Loops : h = home[c]
    BY DEF TypeOK
  <2>3. pending' = Queued(pending, h, <<"destroy", c>>) /\ <<"destroy", c>> \in Functors
    BY <2>1, <2>2 DEF Functors, Owning
  <2>4. /\ Todo(h)' = Append(Todo(h), <<"destroy", c>>)
        /\ \A l \in Loops : l # h => Todo(l)' = Todo(l)
    BY <1>1, <2>3, TodoQueued
  <2> QED  BY <1>1, <2>1, <2>2, <2>4, RelayDestroyQueued
<1> QED  BY <1>2, <1>3

\* Every step keeps the relay in order.
LEMMA RelayStep ==
  ASSUME TypeOK, PhaseInv, RelayInv, Next
  PROVE  RelayInv'
<1>1. ASSUME UNCHANGED <<batch, pending, connVars>>
      PROVE  RelayInv'
  <2>1. \A l \in Loops : Todo(l)' = Todo(l)
    BY <1>1 DEF Todo
  <2> QED  BY <1>1, <2>1, RelaySame DEF connVars
<1>2. CASE Start \/ QuitBase \/ BeginDrop \/ EndDrop \/ QuitThread \/ JoinLast
  BY <1>1, <1>2 DEF Start, QuitBase, BeginDrop, EndDrop, QuitThread, JoinLast, loopVars
<1>3. ASSUME NEW l \in Loops, LoopEnter(l) \/ TestQuit(l) \/ Poll(l) \/ EndPending(l)
      PROVE  RelayInv'
  BY <1>1, <1>3 DEF LoopEnter, TestQuit, Poll, EndPending
<1>4. ASSUME NEW l \in Loops, BeginPending(l)
      PROVE  RelayInv'
  <2>1. /\ batch[l] = <<>> /\ batch' = [batch EXCEPT ![l] = pending[l]]
        /\ pending' = [pending EXCEPT ![l] = <<>>]
    BY <1>4 DEF BeginPending, PhaseInv
  <2>2. UNCHANGED connVars
    BY <1>4 DEF BeginPending
  <2>3. Todo(l)' = Todo(l)
    <3>1. pending[l] \in Seq(Functors)
      BY TodoType
    <3>2. <<>> \o pending[l] = pending[l] /\ pending[l] \o <<>> = pending[l]
      BY <3>1, ConcatEmptySeq
    <3> QED  BY <2>1, <3>2 DEF Todo, TypeOK
  <2>4. \A k \in Loops : k # l => Todo(k)' = Todo(k)
    BY <2>1 DEF Todo, TypeOK
  <2> QED  BY <2>2, <2>3, <2>4, RelaySame DEF connVars
<1>5. ASSUME NEW l \in Loops, NEW c \in Conns, HandleMessage(l, c) \/ CloseAgain(l, c)
      PROVE  RelayInv'
  BY <1>1, <1>5 DEF HandleMessage, CloseAgain, Taken
<1>6. CASE AcceptFails
  BY <1>1, <1>6 DEF AcceptFails, Taken
<1>7. ASSUME NEW c \in Conns, PeerCloses(c)
      PROVE  RelayInv'
  <2>1. UNCHANGED <<batch, pending, map, home, state, registered, destroyed>>
    BY <1>7 DEF PeerCloses, loopVars
  <2>2. \A l \in Loops : Todo(l)' = Todo(l)
    BY <2>1 DEF Todo
  <2> QED  BY <2>1, <2>2, RelaySame
<1> QED  BY <1>2, <1>3, <1>4, <1>5, <1>6, <1>7, RelayAccept, RelayClose, RelayFunctor, RelayDrop
         DEF Next, LoopStep, Accept, Destructor
-----------------------------------------------------------------------------
(* No connection is forgotten, no channel dangles *)

ServerInv == TypeOK /\ PhaseInv /\ RelayInv

LEMMA ServerInvariant == Spec => []ServerInv
<1>1. Init => PhaseInv /\ RelayInv
  <2> SUFFICES ASSUME Init PROVE PhaseInv /\ RelayInv
    OBVIOUS
  <2>1. \A l \in Loops : /\ active[l] = {} /\ batch[l] = <<>> /\ pending[l] = <<>>
                         /\ phase[l] = IF l = Base THEN "enter" ELSE "off"
    BY DEF Init
  <2>2. \A l \in Loops : DOMAIN Todo(l) = {}
    <3>1. <<>> \in Seq(Functors) /\ DOMAIN <<>> = {}
      BY EmptySeq
    <3>2. <<>> \o <<>> = <<>>
      BY <3>1, ConcatEmptySeq
    <3> QED  BY <2>1, <3>1, <3>2 DEF Todo
  <2>3. PhaseInv
    BY <2>1, LoopsFacts, ServerAssumption DEF Init, PhaseInv
  <2>4. QueueInv /\ OrderInv
    BY <2>2 DEF QueueInv, OrderInv, Established
  <2>5. ConnInv
    BY DEF Init, ConnInv
  <2> QED  BY <2>3, <2>4, <2>5 DEF RelayInv
<1>2. TypeOK /\ PhaseInv /\ RelayInv /\ [Next]_vars => PhaseInv' /\ RelayInv'
  <2> SUFFICES ASSUME TypeOK, PhaseInv, RelayInv, [Next]_vars PROVE PhaseInv' /\ RelayInv'
    OBVIOUS
  <2>1. CASE Next
    BY <2>1, PhaseStep, RelayStep
  <2>2. CASE UNCHANGED vars
    <3>1. UNCHANGED <<batch, pending, map, home, state, registered, destroyed>>
      BY <2>2 DEF vars, loopVars, connVars
    <3>2. \A l \in Loops : Todo(l)' = Todo(l)
      BY <3>1 DEF Todo
    <3>3. PhaseInv'
      BY <2>2 DEF vars, loopVars, connVars, PhaseInv
    <3> QED  BY <3>1, <3>2, <3>3, RelaySame
  <2> QED  BY <2>1, <2>2
<1> QED  BY <1>1, <1>2, ServerTypeCorrect, PTL DEF Spec, ServerInv

\* A functor that is still to run is in the queue or in the batch.
LEMMA ToDestroyAlive ==
  ASSUME TypeOK, NEW c \in Conns, ToDestroy(c)
  PROVE  Alive(c)
<1>1. home[c] \in Loops
  BY DEF TypeOK
<1>2. PICK k \in DOMAIN Todo(home[c]) : Todo(home[c])[k] = <<"destroy", c>>
  BY DEF ToDestroy
<1>3. batch[home[c]] \in Seq(Functors) /\ pending[home[c]] \in Seq(Functors)
  BY <1>1, TodoType
<1>4. \/ \E j \in DOMAIN batch[home[c]] : batch[home[c]][j] = <<"destroy", c>>
      \/ \E j \in DOMAIN pending[home[c]] : pending[home[c]][j] = <<"destroy", c>>
  <2>1. \A s, t \in Seq(Functors) : \A i \in DOMAIN (s \o t) :
          \/ \E j \in DOMAIN s : s[j] = (s \o t)[i]
          \/ \E j \in DOMAIN t : t[j] = (s \o t)[i]
    BY ConcatAbout
  <2>2. PICK m \in DOMAIN (batch[home[c]] \o pending[home[c]]) :
          (batch[home[c]] \o pending[home[c]])[m] = <<"destroy", c>>
    BY <1>2 DEF Todo
  <2>3. \/ \E j \in DOMAIN batch[home[c]] :
             batch[home[c]][j] = (batch[home[c]] \o pending[home[c]])[m]
        \/ \E j \in DOMAIN pending[home[c]] :
             pending[home[c]][j] = (batch[home[c]] \o pending[home[c]])[m]
    BY <1>3, <2>1, Zenon
  <2> QED  BY <2>2, <2>3
<1>5. <<"destroy", c>> \in Owning \X {c}
  BY DEF Owning
<1>6. About(c, batch[home[c]]) \/ About(c, pending[home[c]])
  BY <1>4, <1>5 DEF About
<1> QED  BY <1>1, <1>6 DEF Alive

\* Nobody is forgotten on the relay (TcpServer.cpp:36-45, 81-94).
THEOREM ServerForgetsNobody == Spec => []NobodyForgotten
<1>1. ServerInv => NobodyForgotten
  <2> SUFFICES ASSUME ServerInv, NEW c \in Conns, state[c] # "none", c \notin destroyed
               PROVE  Alive(c)
    BY DEF NobodyForgotten
  <2>1. c \in map \/ ToDestroy(c)
    BY DEF ServerInv, RelayInv, ConnInv
  <2> QED  BY <2>1, ToDestroyAlive DEF ServerInv, Alive
<1> QED  BY <1>1, ServerInvariant, PTL

\* The raw Channel pointers always belong to a live connection
\* (TcpServer.cpp:81-94, EventLoop.cpp:41-44).
THEOREM ServerChannelsLive == Spec => []NoDanglingChannel
<1>1. ServerInv => NoDanglingChannel
  <2> SUFFICES ASSUME ServerInv, NEW l \in Loops, NEW c \in Conns, c \in active[l] \/ c \in registered
               PROVE  Alive(c)
    BY DEF NoDanglingChannel
  <2>1. c \in registered
    BY DEF ServerInv, PhaseInv
  <2>2. c \notin destroyed /\ state[c] # "none"
    BY <2>1 DEF ServerInv, RelayInv, ConnInv
  <2>3. c \in map \/ ToDestroy(c)
    BY <2>2 DEF ServerInv, RelayInv, ConnInv
  <2> QED  BY <2>3, ToDestroyAlive DEF ServerInv, Alive
<1> QED  BY <1>1, ServerInvariant, PTL
-----------------------------------------------------------------------------
(* Round robin *)

\* The threads before next_ have one connection more than those from it on.
BalanceInv ==
  /\ \A l \in Loops : IsFiniteSet(Assigned(l))
  /\ \E n \in Nat : \A i \in 1 .. numThreads :
       Cardinality(Assigned(Pool[i])) = IF i <= next THEN n + 1 ELSE n

\* Only newConnection assigns a connection, and nothing takes it away.
LEMMA OnlyAcceptAssigns ==
  ASSUME TypeOK, PhaseInv, RelayInv, [Next]_vars, ~\E c \in Conns : HandleAccept(c)
  PROVE  /\ UNCHANGED <<numThreads, next, home>>
         /\ \A d \in Conns : state[d] # "none" <=> state'[d] # "none"
<1>1. CASE Start \/ QuitBase \/ BeginDrop \/ EndDrop \/ QuitThread \/ JoinLast \/ UNCHANGED vars
  BY <1>1 DEF Start, QuitBase, BeginDrop, EndDrop, QuitThread, JoinLast, vars, poolVars, connVars
<1>2. ASSUME NEW l \in Loops,
             LoopEnter(l) \/ TestQuit(l) \/ Poll(l) \/ BeginPending(l) \/ EndPending(l)
      PROVE  UNCHANGED <<numThreads, next, home, state>>
  BY <1>2 DEF LoopEnter, TestQuit, Poll, BeginPending, EndPending, poolVars, connVars
<1>3. ASSUME NEW l \in Loops, NEW c \in Conns,
             HandleMessage(l, c) \/ CloseAgain(l, c) \/ PeerCloses(c)
      PROVE  UNCHANGED <<numThreads, next, home, state>>
  BY <1>3 DEF HandleMessage, CloseAgain, PeerCloses, Taken, poolVars, connVars
<1>4. ASSUME NEW l \in Loops, NEW c \in Conns, HandleClose(l, c)
      PROVE  /\ UNCHANGED <<numThreads, next, home>>
             /\ \A d \in Conns : state[d] # "none" <=> state'[d] # "none"
  <2>1. state[c] # "none"
    BY <1>4 DEF HandleClose, Taken, PhaseInv, RelayInv, ConnInv
  <2> QED  BY <1>4, <2>1 DEF HandleClose, Taken, TypeOK
<1>5. ASSUME NEW l \in Loops, RunFunctor(l)
      PROVE  /\ UNCHANGED <<numThreads, next, home>>
             /\ \A d \in Conns : state[d] # "none" <=> state'[d] # "none"
  <2>1. PICK c \in Conns :
          /\ 1 \in DOMAIN Todo(l) /\ UNCHANGED home
          /\ \/ Todo(l)[1] = <<"establish", c>> /\ ConnectEstablished(c)
             \/ UNCHANGED state
             \/ ConnectDestroyed(c)
    BY <1>5, FunctorRuns
  <2>2. Todo(l)[1] = <<"establish", c>> => state[c] # "none"
    BY <2>1 DEF RelayInv, QueueInv, FunctorOK
  <2>3. UNCHANGED <<numThreads, next>>
    BY <1>5 DEF RunFunctor, poolVars
  <2> QED  BY <2>1, <2>2, <2>3 DEF ConnectEstablished, ConnectDestroyed, TypeOK
<1>6. ASSUME NEW c \in Conns, DropConnection(c)
      PROVE  /\ UNCHANGED <<numThreads, next, home>>
             /\ \A d \in Conns : state[d] # "none" <=> state'[d] # "none"
  BY <1>6 DEF DropConnection, ConnectDestroyed, TypeOK, poolVars
<1>7. CASE AcceptFails
  BY <1>7 DEF AcceptFails, Taken, connVars
<1> QED  BY <1>1, <1>2, <1>3, <1>4, <1>5, <1>6, <1>7, LoopsFacts
         DEF Next, LoopStep, Accept, Destructor

\* newConnection gives the connection to one loop.
LEMMA AcceptAssigns ==
  ASSUME TypeOK, NEW c \in Conns, HandleAccept(c), NEW k \in Loops, k = NextLoop
  PROVE  /\ c \notin Assigned(k)
         /\ Assigned(k)' = Assigned(k) \cup {c}
         /\ \A l \in Loops : l # k => Assigned(l)' = Assigned(l)
         /\ numThreads' = numThreads /\ next' = Following
<1>1. /\ state[c] = "none"
      /\ state' \in {[state EXCEPT ![c] = s] : s \in {"kConnected", "kConnecting"}}
      /\ home' = [home EXCEPT ![c] = k]
      /\ numThreads' = numThreads /\ next' = Following
  BY DEF HandleAccept, NewConnection, ConnectEstablished, Taken
<1>2. state'[c] # "none" /\ \A d \in Conns : d # c => state'[d] = state[d]
  BY <1>1 DEF TypeOK
<1>3. home'[c] = k /\ \A d \in Conns : d # c => home'[d] = home[d]
  BY <1>1 DEF TypeOK
<1>4. c \notin Assigned(k) /\ Assigned(k)' = Assigned(k) \cup {c}
  BY <1>1, <1>2, <1>3 DEF Assigned
<1>5. ASSUME NEW l \in Loops, l # k PROVE Assigned(l)' = Assigned(l)
  BY <1>1, <1>2, <1>3, <1>5 DEF Assigned
<1> QED  BY <1>1, <1>4, <1>5

LEMMA AcceptBalances ==
  ASSUME TypeOK, BalanceInv, NEW c \in Conns, HandleAccept(c)
  PROVE  BalanceInv'
<1>1. PICK k \in Loops : k = NextLoop
  BY RoundRobin DEF TypeOK
<1>2. /\ c \notin Assigned(k)
      /\ Assigned(k)' = Assigned(k) \cup {c}
      /\ \A l \in Loops : l # k => Assigned(l)' = Assigned(l)
      /\ numThreads' = numThreads /\ next' = Following
  BY <1>1, AcceptAssigns
<1>3. /\ IsFiniteSet(Assigned(k)')
      /\ Cardinality(Assigned(k)') = Cardinality(Assigned(k)) + 1
  BY <1>2, FS_AddElement DEF BalanceInv
<1>4. \A l \in Loops : IsFiniteSet(Assigned(l)')
  BY <1>2, <1>3 DEF BalanceInv
<1>5. PICK n \in Nat : \A i \in 1 .. numThreads :
        Cardinality(Assigned(Pool[i])) = IF i <= next THEN n + 1 ELSE n
  BY DEF BalanceInv
<1>6. numThreads \in 0 .. Len(Pool) /\ numThreads \in Nat /\ next \in Nat
  BY LoopsFacts DEF TypeOK
<1>7. CASE numThreads = 0
  BY <1>2, <1>4, <1>7 DEF BalanceInv
<1>8. CASE numThreads > 0
  <2>1. next + 1 \in 1 .. numThreads /\ k = Pool[next + 1]
    BY <1>1, <1>8, RoundRobin DEF TypeOK
  <2>2. \A i \in 1 .. numThreads : Pool[i] \in Loops /\ (Pool[i] = k <=> i = next + 1)
    BY <1>6, <2>1, LoopsFacts, ServerAssumption
  <2>3. \A i \in 1 .. numThreads :
          Cardinality(Assigned(Pool[i])') = IF i <= next + 1 THEN n + 1 ELSE n
    <3> SUFFICES ASSUME NEW i \in 1 .. numThreads
                 PROVE  Cardinality(Assigned(Pool[i])') = IF i <= next + 1 THEN n + 1 ELSE n
      OBVIOUS
    <3>1. CASE i = next + 1
      <4>1. Cardinality(Assigned(Pool[i])) = n
        BY <1>5, <1>6, <3>1
      <4>2. Cardinality(Assigned(Pool[i])') = Cardinality(Assigned(Pool[i])) + 1
        BY <1>3, <2>1, <3>1
      <4> QED  BY <1>6, <3>1, <4>1, <4>2
    <3>2. CASE i # next + 1
      <4>1. Assigned(Pool[i])' = Assigned(Pool[i])
        BY <1>2, <2>2, <3>2
      <4>2. i <= next + 1 <=> i <= next
        BY <1>6, <3>2
      <4> QED  BY <1>5, <4>1, <4>2
    <3> QED  BY <3>1, <3>2
  <2>4. CASE next + 1 >= numThreads
    <3>1. next' = 0
      BY <1>2, <1>8, <2>4 DEF Following
    <3>2. \A i \in 1 .. numThreads' :
            Cardinality(Assigned(Pool[i])') = IF i <= next' THEN n + 1 + 1 ELSE n + 1
      BY <1>2, <1>6, <2>3, <2>4, <3>1
    <3>3. n + 1 \in Nat
      OBVIOUS
    <3> QED  BY <1>4, <3>2, <3>3 DEF BalanceInv
  <2>5. CASE ~(next + 1 >= numThreads)
    <3>1. next' = next + 1
      BY <1>2, <1>8, <2>5 DEF Following
    <3> QED  BY <1>2, <1>4, <2>3, <3>1 DEF BalanceInv
  <2> QED  BY <2>4, <2>5
<1> QED  BY <1>6, <1>7, <1>8

\* Round robin: no thread of the pool gets two connections more than another
\* (EventLoopThreadPool.cpp:36-49).
THEOREM ServerBalanced == Spec => []Balanced
<1>1. Init => BalanceInv
  <2> SUFFICES ASSUME Init PROVE BalanceInv
    OBVIOUS
  <2>1. \A l : Assigned(l) = {}
    BY DEF Init, Assigned
  <2>2. next = 0 /\ numThreads \in Nat
    BY LoopsFacts DEF Init
  <2>3. \A i \in 1 .. numThreads : Cardinality(Assigned(Pool[i])) = IF i <= next THEN 0 + 1 ELSE 0
    BY <2>1, <2>2, FS_EmptySet
  <2> QED  BY <2>1, <2>3, FS_EmptySet DEF BalanceInv
<1>2. TypeOK /\ PhaseInv /\ RelayInv /\ BalanceInv /\ [Next]_vars => BalanceInv'
  <2> SUFFICES ASSUME TypeOK, PhaseInv, RelayInv, BalanceInv, [Next]_vars PROVE BalanceInv'
    OBVIOUS
  <2>1. CASE \E c \in Conns : HandleAccept(c)
    BY <2>1, AcceptBalances
  <2>2. CASE ~\E c \in Conns : HandleAccept(c)
    <3>1. /\ UNCHANGED <<numThreads, next, home>>
          /\ \A d \in Conns : state[d] # "none" <=> state'[d] # "none"
      BY <2>2, OnlyAcceptAssigns
    <3>2. \A l : Assigned(l)' = Assigned(l)
      BY <3>1 DEF Assigned
    <3> QED  BY <3>1, <3>2 DEF BalanceInv
  <2> QED  BY <2>1, <2>2
<1>3. TypeOK /\ BalanceInv => Balanced
  <2> SUFFICES ASSUME TypeOK, BalanceInv,
                      NEW i \in 1 .. numThreads, NEW j \in 1 .. numThreads
               PROVE  Cardinality(Assigned(Pool[i])) <= Cardinality(Assigned(Pool[j])) + 1
    BY DEF Balanced, Started
  <2>1. PICK n \in Nat : \A m \in 1 .. numThreads :
          Cardinality(Assigned(Pool[m])) = IF m <= next THEN n + 1 ELSE n
    BY DEF BalanceInv
  <2>2. /\ Cardinality(Assigned(Pool[i])) \in {n, n + 1}
        /\ Cardinality(Assigned(Pool[j])) \in {n, n + 1}
    BY <2>1
  <2> QED  BY <2>2
<1> QED  BY <1>1, <1>2, <1>3, ServerInvariant, PTL DEF Spec, ServerInv
-----------------------------------------------------------------------------
(* The end of the server *)

\* From the end of the loop over connections_ on the table stays empty; when the
\* threads are joined their loops have left; connections live in loops that run.
EndInv ==
  /\ server \in {"joining", "gone"} => map = {}
  /\ server = "gone" => Joined(numThreads)
  /\ \A c \in Conns : state[c] # "none" => home[c] \in Started \cup {Base}

Has(q, f) == \E i \in DOMAIN q : q[i] = f

\* What the destructor leaves: a connection is destroyed, or its connectDestroyed
\* waits in the queue of a loop that has left and will not run it.
LeftBehind ==
  server = "gone" =>
    \A c \in Conns :
      state[c] # "none" /\ c \notin destroyed
        => /\ home[c] \in Started \cup {Base}
           /\ phase[home[c]] = "exited"
           /\ Has(pending[home[c]], <<"destroy", c>>)

\* A loop that has left stays so, and only the destructor changes what the end needs.
LEMMA ExitedStays ==
  ASSUME TypeOK, PhaseInv, Next
  PROVE  /\ numThreads' = numThreads
         /\ server # "built" => \A l \in Loops : phase[l] = "exited" => phase'[l] = "exited"
<1>1. CASE Start \/ QuitBase \/ Destructor
  BY <1>1 DEF Start, QuitBase, Destructor, BeginDrop, DropConnection, EndDrop, QuitThread, JoinLast,
              poolVars, loopVars
<1>2. ASSUME NEW l \in Loops,
             \/ LoopEnter(l) \/ TestQuit(l) \/ Poll(l) \/ BeginPending(l) \/ RunFunctor(l) \/ EndPending(l)
      PROVE  /\ numThreads' = numThreads
             /\ \A k \in Loops : phase[k] = "exited" => phase'[k] = "exited"
  BY <1>2 DEF LoopEnter, TestQuit, Poll, BeginPending, RunFunctor, EndPending, poolVars, TypeOK
<1>3. ASSUME NEW l \in Loops, NEW c \in Conns,
             HandleMessage(l, c) \/ HandleClose(l, c) \/ CloseAgain(l, c)
      PROVE  UNCHANGED <<numThreads, phase>>
  BY <1>3 DEF HandleMessage, HandleClose, CloseAgain, Taken
<1>4. CASE Accept \/ \E c \in Conns : PeerCloses(c)
  BY <1>4 DEF Accept, HandleAccept, AcceptFails, Taken, PeerCloses, poolVars, loopVars
<1> QED  BY <1>1, <1>2, <1>3, <1>4 DEF Next, LoopStep

LEMMA TableOnlyGrowsByAccept ==
  ASSUME TypeOK, PhaseInv, Next, ~\E c \in Conns : HandleAccept(c)
  PROVE  map' \subseteq map
<1>1. CASE Start \/ QuitBase \/ Destructor
  BY <1>1 DEF Start, QuitBase, Destructor, BeginDrop, DropConnection, EndDrop, QuitThread, JoinLast,
              connVars
<1>2. ASSUME NEW l \in Loops,
             LoopEnter(l) \/ TestQuit(l) \/ Poll(l) \/ BeginPending(l) \/ EndPending(l)
      PROVE  map' \subseteq map
  BY <1>2 DEF LoopEnter, TestQuit, Poll, BeginPending, EndPending, connVars
<1>3. ASSUME NEW l \in Loops, RunFunctor(l)
      PROVE  map' \subseteq map
  BY <1>3, FunctorRuns DEF RemoveInLoop
<1>4. ASSUME NEW l \in Loops, NEW c \in Conns,
             HandleMessage(l, c) \/ HandleClose(l, c) \/ CloseAgain(l, c)
      PROVE  map' \subseteq map
  BY <1>4 DEF HandleMessage, HandleClose, CloseAgain, RemoveInLoop, connVars
<1>5. CASE AcceptFails \/ \E c \in Conns : PeerCloses(c)
  BY <1>5 DEF AcceptFails, PeerCloses, connVars
<1> QED  BY <1>1, <1>2, <1>3, <1>4, <1>5 DEF Next, LoopStep, Accept

LEMMA EndStep ==
  ASSUME TypeOK, PhaseInv, RelayInv, EndInv, [Next]_vars
  PROVE  EndInv'
<1>1. CASE UNCHANGED vars
  BY <1>1 DEF EndInv, Joined, Started, vars, poolVars, loopVars, connVars
<1>2. ASSUME NEW c \in Conns, HandleAccept(c)
      PROVE  EndInv'
  <2>1. /\ home' = [home EXCEPT ![c] = NextLoop]
        /\ \A d \in Conns : d # c => state'[d] = state[d]
        /\ UNCHANGED <<server, numThreads, phase>>
        /\ phase[Base] = "handle"
    BY <1>2 DEF HandleAccept, NewConnection, ConnectEstablished, Taken, TypeOK
  <2>2. server \notin {"joining", "gone"}
    BY <2>1 DEF PhaseInv
  <2>3. NextLoop \in Started \cup {Base}
    <3>1. /\ NextLoop = Base <=> numThreads = 0
          /\ numThreads > 0 => next + 1 \in 1 .. numThreads /\ NextLoop = Pool[next + 1]
      BY RoundRobin DEF TypeOK
    <3>2. numThreads = 0 \/ numThreads > 0
      BY LoopsFacts DEF TypeOK
    <3> QED  BY <3>1, <3>2 DEF Started
  <2> QED  BY <2>1, <2>2, <2>3 DEF EndInv, Started, TypeOK
<1>3. CASE Next /\ ~\E c \in Conns : HandleAccept(c)
  <2>1. /\ numThreads' = numThreads /\ home' = home
        /\ \A d \in Conns : state[d] # "none" <=> state'[d] # "none"
    BY <1>3, OnlyAcceptAssigns
  <2>2. map' \subseteq map
    BY <1>3, TableOnlyGrowsByAccept
  <2>3. \A l \in Loops : server # "built" /\ phase[l] = "exited" => phase'[l] = "exited"
    BY <1>3, ExitedStays
  <2>4. \/ server' = server
        \/ server' = "started" \/ server' = "dropping"
        \/ server' = "joining" /\ map = {}
        \/ server = "joining" /\ server' = "gone" /\ Joined(numThreads)
    <3>1. CASE Start \/ QuitBase \/ Destructor
      BY <3>1 DEF Start, QuitBase, Destructor, BeginDrop, DropConnection, EndDrop, QuitThread, JoinLast
    <3>2. ASSUME NEW l \in Loops, LoopStep(l)
          PROVE  server' = server
      BY <3>2 DEF LoopStep, LoopEnter, TestQuit, Poll, HandleMessage, HandleClose, CloseAgain, Taken,
                  BeginPending, RunFunctor, EndPending
    <3>3. CASE Accept \/ \E c \in Conns : PeerCloses(c)
      BY <3>3 DEF Accept, HandleAccept, AcceptFails, Taken, PeerCloses
    <3> QED  BY <1>3, <3>1, <3>2, <3>3 DEF Next
  <2>5. \A i \in 1 .. numThreads : Pool[i] \in Loops
    BY LoopsFacts DEF TypeOK
  <2>6. Joined(numThreads) /\ server # "built" => Joined(numThreads)'
    BY <2>1, <2>3, <2>5 DEF Joined
  <2> QED  BY <2>1, <2>2, <2>4, <2>6 DEF EndInv, Started
<1> QED  BY <1>1, <1>2, <1>3

\* What the destructor leaves undestroyed is exactly what sits in the queue of a
\* loop that has left (TcpServer.cpp:36-45, EventLoop.cpp:36-46).
THEOREM ServerLeavesBehind == Spec => []LeftBehind
<1>1. Init => EndInv
  BY DEF Init, EndInv
<1>2. ServerInv /\ EndInv /\ [Next]_vars => EndInv'
  BY EndStep DEF ServerInv
<1>3. ServerInv /\ EndInv => LeftBehind
  <2> SUFFICES ASSUME ServerInv, EndInv, server = "gone",
                      NEW c \in Conns, state[c] # "none", c \notin destroyed
               PROVE  /\ home[c] \in Started \cup {Base}
                      /\ phase[home[c]] = "exited"
                      /\ Has(pending[home[c]], <<"destroy", c>>)
    BY DEF LeftBehind
  <2>1. home[c] \in Started \cup {Base}
    BY DEF EndInv
  <2>2. phase[home[c]] = "exited"
    BY <2>1 DEF EndInv, Joined, Started, ServerInv, PhaseInv
  <2>3. home[c] \in Loops
    BY DEF ServerInv, TypeOK
  <2>4. batch[home[c]] = <<>>
    BY <2>2, <2>3 DEF ServerInv, PhaseInv
  <2>5. ToDestroy(c)
    BY DEF ServerInv, RelayInv, ConnInv, EndInv
  <2>6. Todo(home[c]) = pending[home[c]]
    <3>1. pending[home[c]] \in Seq(Functors)
      BY <2>3 DEF ServerInv, TypeOK
    <3> QED  BY <2>4, <3>1, ConcatEmptySeq DEF Todo
  <2> QED  BY <2>1, <2>2, <2>5, <2>6 DEF ToDestroy, Has
<1> QED  BY <1>1, <1>2, <1>3, ServerInvariant, PTL DEF Spec
-----------------------------------------------------------------------------
(* send from another thread (TcpSend) *)

\* What SendFindsConnection does not cover, and nothing else: sendInLoop runs in
\* the loop of its connection, and finds it gone only when connectDestroyed has
\* already run (TcpConnection.cpp:39-55, 77-86).
SendMissesDestroyed ==
  \A l \in Loops, c \in Conns :
    phase[l] = "run" /\ batch[l] # <<>> /\ Head(batch[l]) = <<"send", c>>
      => l = home[c] /\ (Held(c) \/ c \in destroyed)

AllFunctors == (Owning \cup {"send"}) \X Conns

SendType ==
  /\ numThreads \in 0 .. Len(Pool)
  /\ next \in Nat /\ (numThreads > 0 => next < numThreads)
  /\ phase \in [Loops -> {"off", "enter", "test", "poll", "handle", "run", "exited"}]
  /\ pending \in [Loops -> Seq(AllFunctors)]
  /\ batch \in [Loops -> Seq(AllFunctors)]
  /\ map \subseteq Conns
  /\ hungUp \subseteq Conns
  /\ home \in [Conns -> Loops]
  /\ state \in [Conns -> {"none", "kConnecting", "kConnected", "kDisconnected"}]
  /\ sender \in [Senders -> {"out"} \X {Acceptor} \cup {"test", "queue"} \X Conns]

Elements(q) == {q[i] : i \in DOMAIN q}

\* The functors that loop l has taken or that wait for it, in any order.
Waiting(l) == Elements(batch[l]) \cup Elements(pending[l])

\* A batch is there only while it runs, and nothing runs before start().
IdleInv ==
  /\ \A l \in Loops : phase[l] # "run" => batch[l] = <<>>
  /\ server = "built" => \A l \in Loops : phase[l] = IF l = Base THEN "enter" ELSE "off"

\* An accepted connection is in the table, destroyed, or about to be.
Accounted(c) ==
  c \in map \cup destroyed \/ \E l \in Loops : <<"destroy", c>> \in Waiting(l)

AcceptedInv == \A c \in Conns : state[c] # "none" => Accounted(c)

\* Everything is about accepted connections, and send is queued in their loops.
OnlyAccepted ==
  /\ \A t \in Senders : sender[t][1] # "out" => state[sender[t][2]] # "none"
  /\ \A c \in map \cup hungUp : state[c] # "none"
  /\ \A l \in Loops : \A f \in Waiting(l) :
       state[f[2]] # "none" /\ (f[1] = "send" => l = home[f[2]])

SendInv == SendType /\ IdleInv /\ AcceptedInv /\ OnlyAccepted

LEMMA ElementsAppend ==
  ASSUME NEW S, NEW q \in Seq(S), NEW f \in S
  PROVE  Elements(Append(q, f)) = Elements(q) \cup {f}
<1>1. DOMAIN q = 1 .. Len(q) /\ DOMAIN Append(q, f) = 1 .. Len(q) + 1 /\ Len(q) \in Nat
  BY AppendAt
<1>2. (\A i \in 1 .. Len(q) : Append(q, f)[i] = q[i]) /\ Append(q, f)[Len(q) + 1] = f
  BY AppendAt
<1>3. ASSUME NEW x \in Elements(q) \cup {f} PROVE x \in Elements(Append(q, f))
  <2>1. CASE x = f
    <3>1. Len(q) + 1 \in 1 .. Len(q) + 1
      BY <1>1
    <3> QED  BY <1>1, <1>2, <2>1, <3>1 DEF Elements
  <2>2. CASE x \in Elements(q)
    <3>1. PICK i \in 1 .. Len(q) : x = q[i]
      BY <1>1, <2>2 DEF Elements
    <3>2. i \in 1 .. Len(q) + 1
      BY <1>1
    <3> QED  BY <1>1, <1>2, <3>1, <3>2 DEF Elements
  <2> QED  BY <1>3, <2>1, <2>2
<1>4. ASSUME NEW x \in Elements(Append(q, f)) PROVE x \in Elements(q) \cup {f}
  <2>1. PICK i \in 1 .. Len(q) + 1 : x = Append(q, f)[i]
    BY <1>1 DEF Elements
  <2>2. i = Len(q) + 1 \/ i \in 1 .. Len(q)
    BY <1>1
  <2> QED  BY <1>1, <1>2, <2>1, <2>2 DEF Elements
<1> QED  BY <1>3, <1>4

LEMMA ElementsTail ==
  ASSUME NEW S, NEW q \in Seq(S), q # <<>>
  PROVE  /\ Elements(q) = Elements(Tail(q)) \cup {Head(q)}
         /\ Head(q) \in S /\ Tail(q) \in Seq(S)
<1>1. /\ Head(q) = q[1] /\ Len(q) \in Nat \ {0}
      /\ DOMAIN q = 1 .. Len(q) /\ DOMAIN Tail(q) = 1 .. Len(q) - 1
      /\ Head(q) \in S /\ Tail(q) \in Seq(S)
  BY TailAt
<1>2. \A i \in 1 .. Len(q) - 1 : Tail(q)[i] = q[i + 1]
  BY TailAt
<1>3. ASSUME NEW x \in Elements(q) PROVE x \in Elements(Tail(q)) \cup {Head(q)}
  <2>1. PICK i \in 1 .. Len(q) : x = q[i]
    BY <1>1 DEF Elements
  <2>2. CASE i = 1
    BY <1>1, <2>1, <2>2
  <2>3. CASE i # 1
    <3>1. i - 1 \in 1 .. Len(q) - 1 /\ (i - 1) + 1 = i
      BY <1>1, <2>3
    <3>2. Tail(q)[i - 1] = x
      BY <1>2, <2>1, <3>1
    <3> QED  BY <1>1, <3>1, <3>2 DEF Elements
  <2> QED  BY <2>2, <2>3
<1>4. ASSUME NEW x \in Elements(Tail(q)) PROVE x \in Elements(q)
  <2>1. PICK i \in 1 .. Len(q) - 1 : x = Tail(q)[i]
    BY <1>1 DEF Elements
  <2>2. i + 1 \in 1 .. Len(q)
    BY <1>1
  <2> QED  BY <1>1, <1>2, <2>1, <2>2 DEF Elements
<1>5. Head(q) \in Elements(q)
  BY <1>1 DEF Elements
<1> QED  BY <1>1, <1>3, <1>4, <1>5

\* What a hand-over does to the queues, whatever they hold.
LEMMA HandedOver ==
  ASSUME SendType, NEW k \in Loops, NEW f \in AllFunctors
  PROVE  /\ Queued(pending, k, f) \in [Loops -> Seq(AllFunctors)]
         /\ \A l \in Loops :
              Elements(Queued(pending, k, f)[l]) =
                Elements(pending[l]) \cup (IF l = k THEN {f} ELSE {})
<1>1. pending[k] \in Seq(AllFunctors)
  BY DEF SendType
<1>2. Append(pending[k], f) \in Seq(AllFunctors)
  BY <1>1, AppendProperties
<1>3. Elements(Append(pending[k], f)) = Elements(pending[k]) \cup {f}
  BY <1>1, ElementsAppend
<1> QED  BY <1>2, <1>3 DEF Queued, SendType

LEMMA WaitingType ==
  ASSUME SendType, NEW l \in Loops, NEW f \in Waiting(l)
  PROVE  f \in AllFunctors /\ f[2] \in Conns
<1>1. batch[l] \in Seq(AllFunctors) /\ pending[l] \in Seq(AllFunctors)
  BY DEF SendType
<1>2. f \in AllFunctors
  BY <1>1 DEF Waiting, Elements
<1> QED  BY <1>2 DEF AllFunctors

\* The two parts of the invariant follow from what a step keeps.
LEMMA SendKept ==
  ASSUME SendInv,
         \A c \in Conns : state[c] # "none" => state'[c] # "none" /\ home'[c] = home[c],
         \A c \in Conns : state'[c] # "none" => state[c] # "none" \/ c \in map',
         \A c \in Conns : Accounted(c) => Accounted(c)',
         \A c \in map' \cup hungUp' : c \in map \cup hungUp \/ state'[c] # "none",
         \A l \in Loops : \A f \in Waiting(l)' :
           f \in Waiting(l) \/ (f[1] # "send" /\ state'[f[2]] # "none"),
         sender' = sender
  PROVE  AcceptedInv' /\ OnlyAccepted'
<1>1. AcceptedInv'
  BY DEF SendInv, AcceptedInv, Accounted
<1>2. ASSUME NEW t \in Senders, sender[t][1] # "out" PROVE sender[t][2] \in Conns
  BY <1>2 DEF SendInv, SendType
<1>3. \A t \in Senders : sender'[t][1] # "out" => state'[sender'[t][2]] # "none"
  BY <1>2 DEF SendInv, OnlyAccepted
<1>4. \A c \in map' \cup hungUp' : state'[c] # "none"
  BY DEF SendInv, SendType, OnlyAccepted
<1>5. ASSUME NEW l \in Loops, NEW f \in Waiting(l)'
      PROVE  state'[f[2]] # "none" /\ (f[1] = "send" => l = home'[f[2]])
  <2>1. CASE f \in Waiting(l)
    <3>1. f[2] \in Conns
      BY <2>1, WaitingType DEF SendInv
    <3> QED  BY <2>1, <3>1 DEF SendInv, OnlyAccepted
  <2> QED  BY <1>5, <2>1
<1> QED  BY <1>1, <1>3, <1>4, <1>5 DEF OnlyAccepted

\* Steps of the server that keep the queues, the table and the connections.
LEMMA SendStill ==
  ASSUME SendInv, SendType', IdleInv', UNCHANGED <<pending, batch, map, home, state, sender>>,
         destroyed' = destroyed, \A c \in hungUp' : c \in hungUp \/ state[c] # "none"
  PROVE  SendInv'
<1>1. \A l \in Loops : Waiting(l)' = Waiting(l)
  BY DEF Waiting
<1>2. \A c \in Conns : Accounted(c)' = Accounted(c)
  BY <1>1 DEF Accounted
<1>3. AcceptedInv' /\ OnlyAccepted'
  BY <1>1, <1>2, SendKept
<1> QED  BY <1>3 DEF SendInv

LEMMA SendQuietStep ==
  ASSUME SendInv, sender' = sender, NEW l \in Loops,
         \/ Start \/ QuitBase \/ BeginDrop \/ EndDrop \/ QuitThread \/ JoinLast
         \/ LoopEnter(l) \/ TestQuit(l) \/ Poll(l) \/ EndPending(l)
         \/ AcceptFails
         \/ \E c \in Conns : HandleMessage(l, c) \/ CloseAgain(l, c) \/ PeerCloses(c)
  PROVE  SendInv'
<1> USE DEF SendInv
<1>1. UNCHANGED <<pending, batch, map, home, state, sender, destroyed, numThreads, next>>
  BY DEF Start, QuitBase, BeginDrop, EndDrop, QuitThread, JoinLast, LoopEnter, TestQuit, Poll,
         EndPending, AcceptFails, HandleMessage, CloseAgain, PeerCloses, Taken, poolVars, loopVars,
         connVars
<1>2. hungUp' \subseteq Conns /\ \A c \in hungUp' : c \in hungUp \/ state[c] # "none"
  BY DEF Start, QuitBase, BeginDrop, EndDrop, QuitThread, JoinLast, LoopEnter, TestQuit, Poll,
         EndPending, AcceptFails, HandleMessage, CloseAgain, PeerCloses, connVars, SendType
<1>3. SendType' /\ IdleInv'
  <2>1. CASE Start
    <3>1. phase' \in [Loops -> {"off", "enter", "test", "poll", "handle", "run", "exited"}]
      BY <2>1 DEF Start, SendType
    <3>2. \A k \in Loops : batch[k] = <<>>
      BY <2>1 DEF Start, IdleInv
    <3> QED  BY <1>1, <1>2, <2>1, <3>1, <3>2 DEF Start, SendType, IdleInv
  <2>2. CASE UNCHANGED <<phase, server>>
    BY <1>1, <1>2, <2>2 DEF SendType, IdleInv
  <2>3. CASE phase' = phase /\ server' # "built"
    BY <1>1, <1>2, <2>3 DEF SendType, IdleInv
  <2>4. CASE LoopEnter(l) \/ TestQuit(l) \/ Poll(l) \/ EndPending(l)
    <3>1. server # "built" /\ server' = server
      BY <2>4 DEF LoopEnter, TestQuit, Poll, EndPending, IdleInv
    <3>2. /\ phase' \in [Loops -> {"off", "enter", "test", "poll", "handle", "run", "exited"}]
          /\ \A k \in Loops \ {l} : phase'[k] = phase[k]
          /\ phase'[l] = "run" \/ phase[l] # "run" \/ batch[l] = <<>>
      BY <2>4 DEF LoopEnter, TestQuit, Poll, EndPending, SendType
    <3>3. \A k \in Loops : phase'[k] # "run" => batch[k] = <<>>
      BY <3>2 DEF IdleInv
    <3> QED  BY <1>1, <1>2, <3>1, <3>2, <3>3 DEF SendType, IdleInv
  <2>5. \/ Start \/ UNCHANGED <<phase, server>> \/ (phase' = phase /\ server' # "built")
        \/ LoopEnter(l) \/ TestQuit(l) \/ Poll(l) \/ EndPending(l)
    BY DEF QuitBase, BeginDrop, EndDrop, QuitThread, JoinLast, AcceptFails, HandleMessage,
           CloseAgain, PeerCloses, Taken, loopVars
  <2> QED  BY <2>1, <2>2, <2>3, <2>4, <2>5
<1> QED  BY <1>1, <1>3, <1>2, SendStill

LEMMA SendBeginPending ==
  ASSUME SendInv, sender' = sender, NEW l \in Loops, BeginPending(l)
  PROVE  SendInv'
<1> USE DEF SendInv
<1>1. batch[l] = <<>> /\ server # "built"
  BY DEF BeginPending, IdleInv
<1>2. /\ batch' = [batch EXCEPT ![l] = pending[l]]
      /\ pending' = [pending EXCEPT ![l] = <<>>]
      /\ phase' = [phase EXCEPT ![l] = "run"]
      /\ UNCHANGED <<server, numThreads, next, map, hungUp, home, state, destroyed>>
  BY DEF BeginPending, poolVars, connVars
<1>3. <<>> \in Seq(AllFunctors) /\ Elements(<<>>) = {}
  BY EmptySeq DEF Elements
<1>4. SendType'
  BY <1>2, <1>3 DEF SendType
<1>5. IdleInv'
  BY <1>1, <1>2 DEF IdleInv, SendType
<1>6. \A k \in Loops : Waiting(k)' = Waiting(k)
  BY <1>1, <1>2, <1>3 DEF Waiting, SendType
<1>7. \A c \in Conns : Accounted(c)' = Accounted(c)
  BY <1>2, <1>6 DEF Accounted
<1>8. AcceptedInv' /\ OnlyAccepted'
  BY <1>2, <1>6, <1>7, SendKept
<1> QED  BY <1>4, <1>5, <1>8

\* A step that queues at most one functor, and takes none.
LEMMA QueueGrows ==
  ASSUME SendType, NEW k \in Loops, NEW f \in AllFunctors, batch' = batch,
         pending' = pending \/ pending' = Queued(pending, k, f)
  PROVE  /\ pending' \in [Loops -> Seq(AllFunctors)]
         /\ \A l \in Loops : Waiting(l) \subseteq Waiting(l)'
         /\ \A l \in Loops : \A g \in Waiting(l)' : g \in Waiting(l) \/ (g = f /\ l = k)
         /\ pending' = Queued(pending, k, f) => f \in Waiting(k)'
<1>1. CASE pending' = pending /\ pending' # Queued(pending, k, f)
  BY <1>1 DEF SendType, Waiting
<1>2. CASE pending' = Queued(pending, k, f)
  <2>0. /\ Queued(pending, k, f) \in [Loops -> Seq(AllFunctors)]
        /\ \A l \in Loops :
             Elements(Queued(pending, k, f)[l]) =
               Elements(pending[l]) \cup (IF l = k THEN {f} ELSE {})
    BY HandedOver
  <2>1. /\ pending' \in [Loops -> Seq(AllFunctors)]
        /\ \A l \in Loops :
             Elements(pending'[l]) = Elements(pending[l]) \cup (IF l = k THEN {f} ELSE {})
    BY <1>2, <2>0, Zenon
  <2>2. \A l \in Loops : Waiting(l)' = Waiting(l) \cup (IF l = k THEN {f} ELSE {})
    BY <2>1 DEF Waiting
  <2> QED  BY <2>1, <2>2
<1> QED  BY <1>1, <1>2

LEMMA SendAccept ==
  ASSUME SendInv, sender' = sender, NEW c \in Conns, HandleAccept(c)
  PROVE  SendInv'
<1> USE DEF SendInv
<1>1. /\ server # "built"
      /\ UNCHANGED <<server, numThreads, phase, batch, hungUp, destroyed>>
      /\ state[c] = "none"
      /\ home' = [home EXCEPT ![c] = NextLoop]
      /\ next' = Following
      /\ map' = map \cup {c}
  BY LoopsFacts DEF HandleAccept, Taken, NewConnection, IdleInv, SendType
<1>2. NextLoop \in Loops /\ Following \in Nat /\ (numThreads > 0 => Following < numThreads)
  BY RoundRobin DEF SendType
<1>3. pending' = pending \/ pending' = Queued(pending, NextLoop, <<"establish", c>>)
  BY DEF HandleAccept, NewConnection
<1>4. <<"establish", c>> \in AllFunctors
  BY DEF AllFunctors, Owning
<1>5. /\ pending' \in [Loops -> Seq(AllFunctors)]
      /\ \A l \in Loops : Waiting(l) \subseteq Waiting(l)'
      /\ \A l \in Loops : \A g \in Waiting(l)' : g \in Waiting(l) \/ g = <<"establish", c>>
  BY <1>1, <1>2, <1>3, <1>4, QueueGrows
<1>6. /\ state' \in [Conns -> {"none", "kConnecting", "kConnected", "kDisconnected"}]
      /\ state'[c] # "none"
      /\ \A d \in Conns \ {c} : state'[d] = state[d]
  BY DEF HandleAccept, NewConnection, ConnectEstablished, SendType
<1>7. SendType' /\ IdleInv'
  BY <1>1, <1>2, <1>5, <1>6 DEF SendType, IdleInv
<1>8. \A d \in Conns : Accounted(d) => Accounted(d)'
  BY <1>1, <1>5 DEF Accounted
<1>9. \A d \in Conns : state[d] # "none" => state'[d] # "none" /\ home'[d] = home[d]
  BY <1>1, <1>6 DEF SendType
<1>10. \A d \in Conns : state'[d] # "none" => state[d] # "none" \/ d \in map'
  BY <1>1, <1>6
<1>11. \A d \in map' \cup hungUp' : d \in map \cup hungUp \/ state'[d] # "none"
  BY <1>1, <1>6
<1>12. \A l \in Loops : \A f \in Waiting(l)' :
         f \in Waiting(l) \/ (f[1] # "send" /\ state'[f[2]] # "none")
  BY <1>5, <1>6
<1>13. AcceptedInv' /\ OnlyAccepted'
  BY <1>8, <1>9, <1>10, <1>11, <1>12, SendKept
<1> QED  BY <1>7, <1>13

\* The steps that take a connection out of the table, or hand it on.
LEMMA SendRemove ==
  ASSUME SendInv, sender' = sender, NEW c \in Conns,
         DropConnection(c) \/ \E l \in Loops : HandleClose(l, c)
  PROVE  SendInv'
<1> USE DEF SendInv
<1>0. state[c] # "none" /\ home[c] \in Loops /\ Base \in Loops
  BY LoopsFacts DEF DropConnection, HandleClose, OnlyAccepted, SendType
<1>1. /\ UNCHANGED <<server, numThreads, next, phase, batch, home, hungUp>>
      /\ destroyed \subseteq destroyed'
  BY DEF DropConnection, HandleClose, Taken, ConnectDestroyed, poolVars
<1>2. /\ state' \in [Conns -> {"none", "kConnecting", "kConnected", "kDisconnected"}]
      /\ \A d \in Conns \ {c} : state'[d] = state[d]
      /\ state'[c] # "none"
  BY <1>0 DEF DropConnection, HandleClose, ConnectDestroyed, SendType
<1>3. <<"destroy", c>> \in AllFunctors /\ <<"remove", c>> \in AllFunctors
  BY DEF AllFunctors, Owning
<1>4. \/ map' = map \ {c} /\ pending' = pending /\ c \in destroyed'
      \/ map' = map \ {c} /\ pending' = Queued(pending, home[c], <<"destroy", c>>)
      \/ map' = map /\ pending' = Queued(pending, Base, <<"remove", c>>)
  BY DEF DropConnection, HandleClose, ConnectDestroyed, RemoveInLoop
<1>5. /\ pending' \in [Loops -> Seq(AllFunctors)]
      /\ \A l \in Loops : Waiting(l) \subseteq Waiting(l)'
      /\ \A l \in Loops : \A f \in Waiting(l)' :
           f \in Waiting(l) \/ f \in {<<"destroy", c>>, <<"remove", c>>}
      /\ map' = map \/ c \in destroyed' \/ <<"destroy", c>> \in Waiting(home[c])'
  <2>1. CASE pending' = pending /\ c \in destroyed'
    BY <1>1, <2>1 DEF Waiting, SendType
  <2>2. CASE pending' = Queued(pending, home[c], <<"destroy", c>>)
    BY <1>0, <1>1, <1>3, <2>2, QueueGrows
  <2>3. CASE map' = map /\ pending' = Queued(pending, Base, <<"remove", c>>)
    BY <1>0, <1>1, <1>3, <2>3, QueueGrows
  <2> QED  BY <1>4, <2>1, <2>2, <2>3
<1>6. SendType' /\ IdleInv'
  BY <1>1, <1>2, <1>4, <1>5 DEF SendType, IdleInv
<1>7. \A d \in Conns : Accounted(d) => Accounted(d)'
  BY <1>0, <1>1, <1>4, <1>5 DEF Accounted
<1>8. /\ \A d \in map' \cup hungUp' : d \in map \cup hungUp
      /\ \A l \in Loops : \A f \in Waiting(l)' :
           f \in Waiting(l) \/ (f[1] # "send" /\ state'[f[2]] # "none")
      /\ \A d \in Conns : state[d] # "none" => state'[d] # "none" /\ home'[d] = home[d]
      /\ \A d \in Conns : state'[d] # "none" => state[d] # "none"
  BY <1>0, <1>1, <1>2, <1>4, <1>5
<1>9. AcceptedInv' /\ OnlyAccepted'
  BY <1>7, <1>8, SendKept
<1> QED  BY <1>6, <1>9

\* A functor is taken from the batch, and goes on to at most one other.
LEMMA TakenFunctor ==
  ASSUME SendType, NEW l \in Loops, batch[l] # <<>>, batch' = [batch EXCEPT ![l] = Tail(@)]
  PROVE  /\ batch' \in [Loops -> Seq(AllFunctors)]
         /\ Head(batch[l]) \in AllFunctors /\ Head(batch[l]) \in Waiting(l)
         /\ \A k \in Loops : Elements(batch[k]) \subseteq Elements(batch'[k]) \cup {Head(batch[l])}
         /\ \A k \in Loops : Elements(batch'[k]) \subseteq Elements(batch[k])
<1>1. batch[l] \in Seq(AllFunctors)
  BY DEF SendType
<1>2. /\ Elements(batch[l]) = Elements(Tail(batch[l])) \cup {Head(batch[l])}
      /\ Head(batch[l]) \in AllFunctors /\ Tail(batch[l]) \in Seq(AllFunctors)
  BY <1>1, ElementsTail
<1>3. batch'[l] = Tail(batch[l]) /\ \A k \in Loops \ {l} : batch'[k] = batch[k]
  BY DEF SendType
<1>4. \A k \in Loops : k = l \/ Elements(batch'[k]) = Elements(batch[k])
  BY <1>3, Zenon
<1>5. Elements(batch'[l]) = Elements(Tail(batch[l]))
  BY <1>3, Zenon
<1> QED  BY <1>2, <1>4, <1>5 DEF SendType, Waiting

LEMMA SendRunFunctor ==
  ASSUME SendInv, sender' = sender, NEW l \in Loops, RunFunctor(l)
  PROVE  SendInv'
<1> DEFINE f == Head(batch[l])
           c == f[2]
<1> USE DEF SendInv
<1>1. /\ phase[l] = "run" /\ batch[l] # <<>>
      /\ batch' = [batch EXCEPT ![l] = Tail(@)]
      /\ UNCHANGED <<server, numThreads, next, phase, home, hungUp>>
  BY DEF RunFunctor, poolVars
<1>2. /\ batch' \in [Loops -> Seq(AllFunctors)]
      /\ f \in AllFunctors /\ f \in Waiting(l)
      /\ \A k \in Loops : Elements(batch[k]) \subseteq Elements(batch'[k]) \cup {f}
      /\ \A k \in Loops : Elements(batch'[k]) \subseteq Elements(batch[k])
  BY <1>1, TakenFunctor
<1>3. c \in Conns /\ state[c] # "none" /\ home[c] \in Loops
  BY <1>2, WaitingType DEF OnlyAccepted, SendType
<1>4. /\ state' \in [Conns -> {"none", "kConnecting", "kConnected", "kDisconnected"}]
      /\ \A d \in Conns \ {c} : state'[d] = state[d]
      /\ state'[c] # "none"
      /\ destroyed \subseteq destroyed'
      /\ f = <<"destroy", c>> => c \in destroyed'
  <2>1. \/ f[1] = "establish" /\ ConnectEstablished(c) /\ UNCHANGED destroyed
        \/ f[1] = "remove" /\ UNCHANGED <<state, destroyed>>
        \/ f[1] = "destroy" /\ ConnectDestroyed(c)
    BY DEF RunFunctor
  <2>2. f = <<"destroy", c>> => f[1] = "destroy"
    OBVIOUS
  <2> HIDE DEF f, c
  <2> QED  BY <1>3, <2>1, <2>2 DEF ConnectEstablished, ConnectDestroyed, SendType
<1>5. <<"destroy", c>> \in AllFunctors
  BY <1>3 DEF AllFunctors, Owning
<1>6. \/ map' = map /\ pending' = pending
      \/ map' = map \ {c} /\ pending' = Queued(pending, home[c], <<"destroy", c>>)
  BY DEF RunFunctor, RemoveInLoop
<1>7. /\ pending' \in [Loops -> Seq(AllFunctors)]
      /\ \A k \in Loops : Elements(pending[k]) \subseteq Elements(pending'[k])
      /\ \A k \in Loops : Elements(pending'[k]) \subseteq Elements(pending[k]) \cup {<<"destroy", c>>}
      /\ map' = map \/ <<"destroy", c>> \in Elements(pending'[home[c]])
  <2>1. CASE map' = map /\ pending' = pending
    BY <2>1 DEF SendType
  <2>2. CASE pending' = Queued(pending, home[c], <<"destroy", c>>)
    <3>1. /\ Queued(pending, home[c], <<"destroy", c>>) \in [Loops -> Seq(AllFunctors)]
          /\ \A k \in Loops :
               Elements(Queued(pending, home[c], <<"destroy", c>>)[k]) =
                 Elements(pending[k]) \cup (IF k = home[c] THEN {<<"destroy", c>>} ELSE {})
      BY <1>3, <1>5, HandedOver
    <3>2. /\ pending' \in [Loops -> Seq(AllFunctors)]
          /\ \A k \in Loops :
               Elements(pending'[k]) =
                 Elements(pending[k]) \cup (IF k = home[c] THEN {<<"destroy", c>>} ELSE {})
      BY <2>2, <3>1, Zenon
    <3> QED  BY <1>3, <3>2
  <2> QED  BY <1>6, <2>1, <2>2
<1>8. SendType' /\ IdleInv'
  <2>1. SendType'
    BY <1>1, <1>2, <1>4, <1>6, <1>7 DEF SendType
  <2>2. \A k \in Loops : k = l \/ batch'[k] = batch[k]
    BY <1>1 DEF SendType
  <2> QED  BY <1>1, <2>1, <2>2 DEF IdleInv
<1>9. \A k \in Loops : Waiting(k)' = Elements(batch'[k]) \cup Elements(pending'[k])
  BY DEF Waiting
<1>10. ASSUME NEW d \in Conns, Accounted(d) PROVE Accounted(d)'
  <2>1. CASE d = c /\ (map' # map \/ f = <<"destroy", c>>)
    BY <1>3, <1>4, <1>7, <1>9, <2>1 DEF Accounted
  <2>2. CASE ~(d = c /\ (map' # map \/ f = <<"destroy", c>>))
    <3>1. CASE d \in map \cup destroyed
      BY <1>4, <1>6, <2>2, <3>1 DEF Accounted
    <3>2. ASSUME NEW k \in Loops, <<"destroy", d>> \in Waiting(k) PROVE Accounted(d)'
      <4>1. <<"destroy", d>> # f
        BY <2>2
      <4>2. <<"destroy", d>> \in Waiting(k)'
        BY <1>2, <1>7, <1>9, <3>2, <4>1 DEF Waiting
      <4> QED  BY <4>2 DEF Accounted
    <3> QED  BY <1>10, <3>1, <3>2 DEF Accounted
  <2> QED  BY <2>1, <2>2
<1>11. \A k \in Loops : \A g \in Waiting(k)' : g \in Waiting(k) \/ g = <<"destroy", c>>
  BY <1>2, <1>7, <1>9 DEF Waiting
<1>12. /\ \A d \in map' \cup hungUp' : d \in map \cup hungUp
       /\ \A k \in Loops : \A g \in Waiting(k)' :
            g \in Waiting(k) \/ (g[1] # "send" /\ state'[g[2]] # "none")
       /\ \A d \in Conns : state[d] # "none" => state'[d] # "none" /\ home'[d] = home[d]
       /\ \A d \in Conns : state'[d] # "none" => state[d] # "none"
  BY <1>1, <1>3, <1>4, <1>6, <1>11
<1>13. AcceptedInv' /\ OnlyAccepted'
  BY <1>10, <1>12, SendKept
<1> QED  BY <1>8, <1>13

\* The calling thread: it gets a reference, tests state_, and queues.
LEMMA SendCall ==
  ASSUME SendInv, NEW t \in Senders,
         TestState(t) \/ \E c \in Conns : CallSend(t, c)
  PROVE  SendInv'
<1> USE DEF SendInv
<1>1. UNCHANGED <<server, numThreads, next, phase, pending, batch, map, home, state, hungUp, destroyed>>
  BY DEF TestState, CallSend, vars, poolVars, loopVars, connVars
<1>2. /\ sender' \in [Senders -> {"out"} \X {Acceptor} \cup {"test", "queue"} \X Conns]
      /\ \A u \in Senders \ {t} : sender'[u] = sender[u]
      /\ sender'[t][1] # "out" => state[sender'[t][2]] # "none"
  <2>1. ASSUME NEW c \in Conns, CallSend(t, c)
        PROVE  sender' = [sender EXCEPT ![t] = <<"test", c>>] /\ state[c] # "none"
    BY <2>1 DEF CallSend, Goes
  <2>2. CASE TestState(t)
    <3>1. PICK c \in Conns : sender[t][2] = c
      BY <2>2 DEF TestState, SendType
    <3>2. \/ sender' = [sender EXCEPT ![t] = <<"queue", c>>] /\ state[c] # "none"
          \/ sender' = [sender EXCEPT ![t] = <<"out", Acceptor>>]
      BY <2>2, <3>1 DEF TestState, Goes
    <3>3. CASE sender' = [sender EXCEPT ![t] = <<"queue", c>>] /\ state[c] # "none"
      BY <3>3 DEF SendType
    <3>4. CASE sender' = [sender EXCEPT ![t] = <<"out", Acceptor>>]
      BY <3>4 DEF SendType
    <3> QED  BY <3>2, <3>3, <3>4
  <2>3. CASE \E c \in Conns : CallSend(t, c)
    <3>1. PICK c \in Conns : CallSend(t, c)
      BY <2>3
    <3>2. sender' = [sender EXCEPT ![t] = <<"test", c>>] /\ state[c] # "none"
      BY <2>1, <3>1
    <3> QED  BY <3>2 DEF SendType
  <2> QED  BY <2>2, <2>3
<1>3. \A l \in Loops : Waiting(l)' = Waiting(l)
  BY <1>1 DEF Waiting
<1>4. SendType' /\ IdleInv'
  BY <1>1, <1>2 DEF SendType, IdleInv
<1>5. \A c \in Conns : Accounted(c)' = Accounted(c)
  BY <1>1, <1>3 DEF Accounted
<1>6. AcceptedInv'
  BY <1>1, <1>5 DEF AcceptedInv
<1>7. OnlyAccepted'
  BY <1>1, <1>2, <1>3 DEF OnlyAccepted
<1> QED  BY <1>4, <1>6, <1>7

LEMMA SendQueue ==
  ASSUME SendInv, NEW t \in Senders, QueueSend(t)
  PROVE  SendInv'
<1> USE DEF SendInv
<1>1. PICK c \in Conns : sender[t] = <<"queue", c>>
  BY DEF QueueSend, SendType
<1>2. /\ pending' = Queued(pending, home[c], <<"send", c>>)
      /\ sender' = [sender EXCEPT ![t] = <<"out", Acceptor>>]
      /\ UNCHANGED <<server, numThreads, next, phase, batch, map, home, state, hungUp, destroyed>>
  BY <1>1 DEF QueueSend, Goes, poolVars, connVars
<1>3. home[c] \in Loops /\ state[c] # "none" /\ <<"send", c>> \in AllFunctors
  <2>1. sender[t][1] # "out" /\ sender[t][2] = c
    BY <1>1
  <2>2. state[c] # "none"
    BY <2>1 DEF OnlyAccepted
  <2>3. home[c] \in Loops
    BY DEF SendType
  <2> QED  BY <2>2, <2>3 DEF AllFunctors
<1>4. /\ pending' \in [Loops -> Seq(AllFunctors)]
      /\ \A l \in Loops : Waiting(l) \subseteq Waiting(l)'
      /\ \A l \in Loops : \A g \in Waiting(l)' :
           g \in Waiting(l) \/ (g = <<"send", c>> /\ l = home[c])
  BY <1>2, <1>3, QueueGrows
<1>5. /\ sender' \in [Senders -> {"out"} \X {Acceptor} \cup {"test", "queue"} \X Conns]
      /\ sender'[t][1] = "out"
      /\ \A u \in Senders \ {t} : sender'[u] = sender[u]
  BY <1>2 DEF SendType
<1>6. SendType' /\ IdleInv'
  BY <1>2, <1>4, <1>5 DEF SendType, IdleInv
<1>7. \A d \in Conns : Accounted(d) => Accounted(d)'
  BY <1>2, <1>4 DEF Accounted
<1>8. AcceptedInv'
  BY <1>2, <1>7 DEF AcceptedInv
<1>9. \A l \in Loops : \A g \in Waiting(l)' :
        state'[g[2]] # "none" /\ (g[1] = "send" => l = home'[g[2]])
  BY <1>2, <1>3, <1>4 DEF OnlyAccepted
<1>10. OnlyAccepted'
  BY <1>2, <1>5, <1>9 DEF OnlyAccepted
<1> QED  BY <1>6, <1>8, <1>10

LEMMA SendRun ==
  ASSUME SendInv, NEW l \in Loops, RunSend(l)
  PROVE  SendInv'
<1> USE DEF SendInv
<1>1. /\ phase[l] = "run" /\ batch[l] # <<>> /\ Head(batch[l])[1] = "send"
      /\ batch' = [batch EXCEPT ![l] = Tail(@)]
      /\ UNCHANGED <<server, numThreads, next, phase, pending, map, home, state, hungUp, destroyed, sender>>
  BY DEF RunSend, poolVars, connVars
<1>2. /\ batch' \in [Loops -> Seq(AllFunctors)]
      /\ \A k \in Loops : Elements(batch[k]) \subseteq Elements(batch'[k]) \cup {Head(batch[l])}
      /\ \A k \in Loops : Elements(batch'[k]) \subseteq Elements(batch[k])
  BY <1>1, TakenFunctor
<1>3. \A k \in Loops : Waiting(k)' = Elements(batch'[k]) \cup Elements(pending[k])
  BY <1>1 DEF Waiting
<1>4. SendType' /\ IdleInv'
  <2>1. SendType'
    BY <1>1, <1>2 DEF SendType
  <2>2. \A k \in Loops : k = l \/ batch'[k] = batch[k]
    BY <1>1 DEF SendType
  <2> QED  BY <1>1, <2>1, <2>2 DEF IdleInv
<1>5. ASSUME NEW d \in Conns, Accounted(d) PROVE Accounted(d)'
  <2>1. <<"destroy", d>> # Head(batch[l])
    BY <1>1
  <2>2. \A k \in Loops : <<"destroy", d>> \in Waiting(k) => <<"destroy", d>> \in Waiting(k)'
    BY <1>2, <1>3, <2>1 DEF Waiting
  <2> QED  BY <1>1, <1>5, <2>2 DEF Accounted
<1>6. \A k \in Loops : Waiting(k)' \subseteq Waiting(k)
  BY <1>2, <1>3 DEF Waiting
<1>7. AcceptedInv' /\ OnlyAccepted'
  BY <1>1, <1>5, <1>6, SendKept
<1> QED  BY <1>4, <1>7

LEMMA SendInvNext == SendInv /\ [SendNext]_sendVars => SendInv'
<1> SUFFICES ASSUME SendInv, [SendNext]_sendVars PROVE SendInv'
  OBVIOUS
<1>1. CASE ServerStep
  <2>1. sender' = sender /\ Next
    BY <1>1 DEF ServerStep
  <2>2. ASSUME NEW l \in Loops, LoopStep(l) PROVE SendInv'
    BY <2>1, <2>2, SendQuietStep, SendBeginPending, SendRemove, SendRunFunctor DEF LoopStep
  <2>3. CASE Accept
    BY <2>1, <2>3, SendAccept, SendQuietStep, LoopsFacts DEF Accept
  <2>4. CASE Start \/ QuitBase \/ \E c \in Conns : PeerCloses(c)
    BY <2>1, <2>4, SendQuietStep, LoopsFacts
  <2>5. CASE Destructor
    BY <2>1, <2>5, SendQuietStep, SendRemove, LoopsFacts DEF Destructor
  <2> QED  BY <2>1, <2>2, <2>3, <2>4, <2>5 DEF Next
<1>2. ASSUME NEW t \in Senders, Send(t) PROVE SendInv'
  BY <1>2, SendCall, SendQueue DEF Send
<1>3. ASSUME NEW l \in Loops, RunSend(l) PROVE SendInv'
  BY <1>3, SendRun
<1>4. CASE UNCHANGED sendVars
  <2>1. /\ UNCHANGED <<server, numThreads, next, phase, pending, batch, map, home, state, hungUp>>
        /\ UNCHANGED <<destroyed, sender>>
    BY <1>4 DEF sendVars, vars, poolVars, loopVars, connVars
  <2>2. SendType' /\ IdleInv'
    BY <2>1 DEF SendInv, SendType, IdleInv
  <2> QED  BY <2>1, <2>2, SendStill
<1> QED  BY <1>1, <1>2, <1>3, <1>4 DEF SendNext

LEMMA SendInvInit == SendInit => SendInv
<1> SUFFICES ASSUME SendInit PROVE SendInv
  OBVIOUS
<1> USE DEF SendInit, Init
<1>1. <<>> \in Seq(AllFunctors) /\ Elements(<<>>) = {}
  BY EmptySeq DEF Elements
<1>2. \A l \in Loops : pending[l] = <<>> /\ batch[l] = <<>>
  OBVIOUS
<1>3. SendType
  <2>1. pending \in [Loops -> Seq(AllFunctors)] /\ batch \in [Loops -> Seq(AllFunctors)]
    BY <1>1, <1>2
  <2>2. /\ numThreads \in 0 .. Len(Pool) /\ next \in Nat /\ (numThreads > 0 => next < numThreads)
        /\ map \subseteq Conns /\ hungUp \subseteq Conns
    BY LoopsFacts
  <2>3. /\ phase \in [Loops -> {"off", "enter", "test", "poll", "handle", "run", "exited"}]
        /\ home \in [Conns -> Loops]
        /\ state \in [Conns -> {"none", "kConnecting", "kConnected", "kDisconnected"}]
    BY LoopsFacts
  <2>4. sender \in [Senders -> {"out"} \X {Acceptor} \cup {"test", "queue"} \X Conns]
    OBVIOUS
  <2> QED  BY <2>1, <2>2, <2>3, <2>4 DEF SendType
<1>4. IdleInv
  BY <1>2 DEF IdleInv
<1>5. \A l \in Loops : Waiting(l) = {}
  BY <1>1, <1>2, Zenon DEF Waiting
<1>6. AcceptedInv
  BY DEF AcceptedInv
<1>7. OnlyAccepted
  BY <1>5 DEF OnlyAccepted
<1> QED  BY <1>3, <1>4, <1>6, <1>7 DEF SendInv

\* However many threads call send, and however the calls are cut by the removal.
THEOREM SendsMissOnlyDestroyed == SendSpec => []SendMissesDestroyed
<1>1. SendInv => SendMissesDestroyed
  <2> SUFFICES ASSUME SendInv, NEW l \in Loops, NEW c \in Conns,
                      batch[l] # <<>>, Head(batch[l]) = <<"send", c>>
               PROVE  l = home[c] /\ (Held(c) \/ c \in destroyed)
    BY DEF SendMissesDestroyed
  <2>1. batch[l] \in Seq(AllFunctors)
    BY DEF SendInv, SendType
  <2>2. <<"send", c>> \in Elements(batch[l])
    BY <2>1, ElementsTail
  <2>3. <<"send", c>> \in Waiting(l)
    BY <2>2 DEF Waiting
  <2>4. l = home[c] /\ state[c] # "none"
    BY <2>3 DEF SendInv, OnlyAccepted
  <2>5. Accounted(c)
    BY <2>4 DEF SendInv, AcceptedInv
  <2>6. ASSUME NEW k \in Loops, <<"destroy", c>> \in Waiting(k)
        PROVE  About(c, batch[k]) \/ About(c, pending[k])
    <3>1. <<"destroy", c>> \in Owning \X {c}
      BY DEF Owning
    <3>2. ASSUME NEW q, <<"destroy", c>> \in Elements(q) PROVE About(c, q)
      BY <3>1, <3>2 DEF Elements, About
    <3> QED  BY <2>6, <3>2 DEF Waiting
  <2> QED  BY <2>4, <2>5, <2>6 DEF Accounted, Held, Alive
<1> QED  BY <1>1, SendInvInit, SendInvNext, PTL DEF SendSpec
=============================================================================
