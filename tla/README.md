# Verification of mymuduo, mprpc and the chat cluster

TLA+ modules, TLC runs and TLAPS proofs for the three C++ projects of this
repository:

- `mymuduo-main` - a reactor network library (one event loop per thread),
- `mprpc-main` - an RPC framework on top of it, with ZooKeeper as registry,
- `chat-main` - a chat server that runs as a cluster behind nginx, with MySQL
  and Redis, on top of mymuduo.

`tlc -config X.cfg M` checks a run, `tlapm XProofs.tla` a proof module;
`PROJECT.json` lists the runs, the lines of code that each definition models,
the hazards of the code, and for every property a bug that would break it.

## 1. Inventory

### mymuduo

| part | state | operations | what is hard |
|---|---|---|---|
| `EventLoop` | `quit_`, `pendingFunctions_`, `callingPendingFunctions_`, eventfd, `activeChannels_` | `loop`, `quit`, `runInLoop`, `queueInLoop`, `wakeup`, `doPendingFunctions` | a functor queued by another thread, or by a functor, while the loop goes back to `epoll_wait`; `quit()` before `loop()`; functors left over at the end |
| `Buffer` | the vector, `readerIndex_`, `writerIndex_` | `append`, `readFd`, `retrieve*`, `makeSpace` | the boundary between moving and enlarging, `readv` into a stack buffer |
| `Channel`, `EPollPoller` | index, interest, what epoll knows | `updateChannel`, `removeChannel`, `tie`, `handleEvent` | a channel without interest that is registered all the same |
| `TcpConnection` | `state_`, channel, output buffer | `send`, `shutdown`, `handleRead/Write/Close/Error`, `connectEstablished/Destroyed` | calls from other threads against peer close, reset, partial writes, removal; the raw `this` in the functors of `send` |
| `TcpServer`, `Acceptor`, thread pool | connection map, `next_`, threads | `start`, `newConnection`, `removeConnection`, `~TcpServer` | removal crosses threads three times; the destructor stops loops that still have work |
| `Thread`, `EventLoopThread` | thread, semaphore, `loop_` | `start`, `join`, `startLoop`, `threadFunc`, destructor | the hand-shake of the start; `loop_` read without its mutex in the destructor; members freed under a running thread |
| `Socket`, `InetAddress`, `Timestamp`, `Logger` | none that matters | wrappers | - |

Loops talk to each other only through `queueInLoop`/`runInLoop`. The poller
hands raw `Channel*` to the loop; `tie()` turns the weak reference into a
strong one while a handler runs.

### mprpc

| part | state | operations | what is hard |
|---|---|---|---|
| `LockQueue`, `MprpcLogger` | queue, `is_close_`, `is_exit_`, write thread | `Push`, `Pop`, `Close`, destructor | the empty string means both "closed" and a line; draining before the join |
| `RpcProvider` | service map, input buffer of each connection | `NotifyService`, `Run`, `OnMessage`, `SendRpcResponse` | fragmented and merged frames, error paths, two `retrieve`s per frame |
| `ZkClient` | session | `Start`, `Create`, `GetData` | exists and create are two requests; ephemeral nodes of an earlier session |
| `MprpcChannel`, `MprpcController` | one socket per call | `CallMethod` | one `recv` taken for the whole response; many exits, each closing by hand |
| configuration | a map read once | `Load` | - |

### chat

| part | state | operations | what is hard |
|---|---|---|---|
| `ChatService` | `_userConnMap` | `login`, `loginout`, `clientCloseException`, `oneChat`, `groupChat`, `handleRedisSubscribeMessage`, ... | every handler is a sequence of statements on MySQL, Redis and the map, in four IO threads of several processes |
| `Redis` | two contexts, observer thread | `publish`, `subscribe`, `unsubscribe` | a subscription is only sent, its effect comes later |
| `ChatServer` | input buffer of each connection | `OnMessage`, `OnConnection` | no framing: whatever has arrived is one JSON text, and an exception ends the process |
| data models | MySQL tables | one statement per call | no transactions: friendships and groups are two statements each |
| `ChatClient` | `_clientfd`, `_isLoginSuccess`, reading thread | `login`, `reg`, the commands, `loginout`, `quit`, `readTaskHandler` | two threads on one socket; answers and pushed messages on one stream; what it does decides which orders of requests occur |

### The properties that make them correct

- loop: no sleep over work, every queued functor runs in order and once, `quit()` ends the loop;
- buffer: a byte queue, indices in order, bounded memory;
- connection: bytes leave in the order of the calls, the FIN comes after them, EPOLLOUT is asked for exactly when bytes wait, a closed connection never looks open again, a shutdown is never forgotten;
- thread: the start returns with the loop, the destructor waits for the thread;
- server: no pointer to a dead channel in epoll, no accepted connection forgotten, closed connections are destroyed, the destructor ends, round robin;
- logger: closing drains, nobody sleeps over work;
- provider: the stream is cut at the right places whatever its fragmentation, nothing is served behind a bad frame;
- registry: a dead address disappears, a serving provider can be found;
- call: no socket leaks, it returns, success means that the response was read;
- chat: maps hold no dead connection, nobody stays online for ever, no message is lost;
- client: one thread reads, the menu comes back, it dies only for the known reasons, friendships are mutual and groups have a creator.

## 2. Modules

| module | models | state and actions in terms of the code |
|---|---|---|
| `TaskQueue` | abstract: what queueing a functor promises | at most once, in order, nothing after the stop |
| `EventLoop` | `EventLoop.cpp`, `EPollPoller::poll` | `pc` is the place of the loop thread between the calls of `loop()`; `pending`, `batch`, `calling`, `wakeups`, `active` are the members and locals of those names; `caller` remembers that a thread has appended (or set `quit_`) and not yet written the eventfd. One action per atomic piece: what the mutex covers, one read or write of the eventfd, one test of `quit_` |
| `LoopThread` | `EventLoopThread.cpp`, `Thread.cpp` | EXTENDS `EventLoop`, whose steps are those of the thread at stage `running`. `stage` is the place in `threadFunc`, `owner` that of the creating thread in `startLoop` and in the destructor, `posted` the semaphore; `loop_` is set exactly at stage `running`. Other threads call the loop as long as somebody can have handed it to them |
| `ByteQueue`, `Buffer` | abstract FIFO of bytes; `Buffer.cpp` | the vector and two indices; `DoAppend`, `ReadFd`, `Retrieve`, `RetrieveAllAsString` are the public operations, `MakeSpace`, `Enlarge`, `MoveToFront` the private ones |
| `EPollPoller` | `updateChannel`, `removeChannel`, `Channel` interest | operators on a channel record, used by `TcpConnection` |
| `TcpConnection` | `TcpConnection.cpp` | EXTENDS `EPollPoller`; the loop is the queue of functors that `TaskQueue` promises (and `EventLoop` implements). `at` is the handler or callback on the loop's stack; `Send`/`QueueSend` and `Shutdown`/`SetDisconnecting`/`QueueShutdown` are the steps that other threads' calls can be cut into |
| `TcpServer` | `TcpServer.cpp`, `Acceptor.cpp`, `EventLoopThreadPool.cpp`, `EventLoopThread.cpp` | every loop with the phases of `EventLoop` but without its eventfd (that the wakeup is never lost is `EventLoop`'s theorem); the map, the relay `removeConnection` - `removeConnectionInLoop` - `connectDestroyed`, and the destructor in the base thread |
| `TcpSend` | `TcpConnection::send` from another thread, against the removal | EXTENDS `TcpServer`; `sender` is the place in `send` (the caller holds a reference until it returns), `kept` the references that `doPendingFunctions` still holds in functors that have run |
| `LogQueue` | `lockqueue.h`, `logger.cc` | one action per critical section, wait or notification |
| `RpcProvider` | `RpcProvider::OnMessage` and its closures | the input buffer as the part of a byte stream between `retrieved` and `arrived` (its `ByteQueue` view); frames have a kind and sizes instead of bytes |
| `Registry` | `RpcProvider::Run` with `ZkClient` | `run` is the place in `Run`; sessions, crash, restart and expiry are ZooKeeper's and the machine's part |
| `RpcCall` | `MprpcChannel::CallMethod` | EXTENDS `Registry`; `pc` is the place in `CallMethod`; the provider answers, refuses or crashes, the network delivers in pieces |
| `ChatCluster` | `ChatService.cpp`, `Redis.cpp`, `UserModel.cpp`, `OfflineMsgModel.cpp`, what `ChatClient.cpp` asks for | `at` is the place of the handler of each connection; one action per SQL statement, Redis call or access to the map |
| `ChatTables` | `FriendModel.cpp`, `GroupModel.cpp`, `Db.cpp` | three tables; a statement takes effect or fails |
| `ChatClient` | `ChatClient.cpp` with `ChatServer.cpp` and the handlers of `ChatService.cpp` at the other end | EXTENDS `ChatTables`; `main` and `reader` are the places of the two threads, `fd`, `loggedIn` the members they share; per link (one per `connect`) the two streams, what the server's handler is at, and whether the map lists it. What one `read` finds - one message, several, a part of one, the end, an error - is decided when it is made |

`EventLoop` implements `TaskQueue` and `Buffer` implements `ByteQueue`
(`INSTANCE ... WITH`, the abstract specification as a property and as a
theorem); so does the input buffer of `RpcProvider` (a theorem). `LoopThread` implements `EventLoop` (a theorem: `LTSpec => Spec`), so
that what holds of a loop holds of one on an `EventLoopThread`. The modules `MC...` give the constants for TLC, the modules
`...Proofs` hold the theorems.

A definition that a comment calls *Broken variant* is no part of the model: it
is the definition below it with a plausible bug (a forgotten test, reset,
notification or hop), and `PROJECT.json` says which property notices it. They
show that each property is about something the code could get wrong.

## 3. Runs

| run | instance | distinct states | checks |
|---|---|---|---|
| `event_loop` | `LTFairSpec`: 2 threads, one of them the owner of the `EventLoopThread`, 3 functors, 1 channel, eventfd saturating at 2 | 207,924 | `NoLostWakeup`, `QueuedRuns`, `QuitStops`, `ImplementsTaskQueue`; `FreedAfterThread`, `StartReturns`, `JoinReturns` |
| `buffer` | 2 byte values, prepend area 1, initial 2, extrbuf 2, contents up to 5 | 13,368 | `IndicesOK`, `SizeBounded`, `ImplementsByteQueue` |
| `tcp_connection` | one thread and the loop send 2 bytes each, another thread calls `shutdown()`, `handleClose` at most twice | 117,467 | `WriteInterest`, `StreamInOrder`, `FinAfterDrain`, `NeverUpAgain`, `OnlyShutdownRevives`, `ShutdownTakesEffect` |
| `tcp_server` | 2 connections, 0 to 2 IO loops, `handleClose` at most twice each | 270,178 | `TypeOK`, `NoDanglingChannel`, `NobodyForgotten`, `Balanced`, `ClosedIsDestroyed`, `DestructorReturns` |
| `log_queue` | 4 lines | 1,696 | `Drained`, `NoSleepOverWork`, `LinesWritten`, `DestructorEnds` |
| `rpc_provider` | 3 frames of 4, 3 and 5 bytes, each good, with a bad header or a bad body | 2,798 | `InStep`, `NothingPastReject`, `NothingLeftBehind`, `Served` |
| `rpc_call` | 2 providers started up to twice, 1 call, responses of 0, 1 and 3 bytes, receive buffer of 2 | 137,527 | `UnregisteredOnlyThere`, `NoLeak`, `Returns` |
| `chat_cluster` | 2 servers, 3 connections of one user (two to the same server), a message to that user from the other server, a stored one for somebody else | 2,506,165 | `NoDeadEntry`, `NobodyLeftOnline` |
| `chat_client` | 2 connections one after the other, 2 commands, 1 pushed message, 1 group | 754,866 | `OneReader`, `MenuKeepsFraming`, `DiesForAReason`, `TablesAgree`, `MenuComesBack` |
| `registry_restart` | 1 provider started up to twice | stops at the violation | `ServingIsRegistered`: finding 1 |
| `chat_message_lost` | as `chat_cluster` | stops at the violation | `NoMessageLost`: finding 2 |
| `tcp_send_raw_this` | 1 connection, 1 IO loop, 1 sending thread | stops at the violation | `SendFindsConnection`: finding 3 |

The type invariants are theorems (section 5); a run checks that of `TcpServer`
alone, because there the type says something of its own: `next_` stays inside
the pool.

Why the bounds are enough:

- *event_loop*: a lost wakeup takes one thread that queues while the loop is at
  any of its places, a second one whose wakeup is consumed together with the
  first one's, and a third functor queued by a functor. The limit of the eventfd
  is reached by two writes. The owner is one of the two callers, so that its
  destructor races with the other one's calls and with a loop that stops itself.
- *buffer*: with sizes this small, appends that fit, that fit after moving and
  that need more memory all occur, at every distance from the boundary, and so
  do reads with and without the extra buffer. The bound is on what users leave
  unread; the proof is for all sizes.
- *tcp_connection*: two bytes make a write partial; two senders and a third
  thread that shuts down race with each other and with close, reset and removal.
  A second `handleClose` occurs when the level-triggered event comes again
  before the removal; a third adds nothing, because `handleClose` has no state
  but the one it sets the first time.
- *tcp_server*: 0, 1 and 2 IO loops cover connections that live in the base
  loop, in the same and in different IO loops; two accepts are what the wrap
  of `next_` needs with two loops, and one loop wraps at once.
- *rpc_provider*: a bad frame can be the first, the middle or the last, one frame
  has no arguments, and every cutting of the 12 bytes is tried.
- *rpc_call*: calls share nothing but the providers, so one is enough; two starts
  are a restart, two providers are a race for the node; the sizes are empty,
  fitting and too large.
- *chat_cluster*: two logins of one account race on one server and on two; the
  second server also publishes. Symmetry is used for the two connections of the
  same user to the same server, in runs without liveness properties only.
- *chat_client*: two connections are a session and the one that gets its
  descriptor; two commands can be read together, and one can follow the other
  when the server has died in between; one push is enough to come before an
  answer, together with it, or in the session.
- *tcp_send_raw_this*: the counterexample needs no more.

`CHECK_DEADLOCK FALSE` stands where the system may come to rest: the peers, the
callers and the user's threads have done all that the bounds let them do, or the
server, the logger or the loop's thread has been destroyed, or the client has
ended. In `buffer` there is always a step, and deadlock is checked.

### Findings

1. `ZkClient::Create` skips a node that exists. A provider that restarts before
   its old session has expired finds its old ephemeral node, creates none, and
   is gone from the registry when that session ends.
2. `ChatService::login` marks the user as online before it subscribes the user's
   channel. A message that another server publishes in between reaches nobody and
   is not stored.
3. `TcpConnection::send`, which its comment calls thread-safe, hands the loop a
   functor with a raw `this` when it is called from another thread. If
   `connectDestroyed` is already queued in front of it and the caller then drops
   its reference, the connection is gone when `sendInLoop` runs.

For each of the three a theorem says that this is all there is to it:
`RegistrationLostOnlyThere` (a provider that serves in a live session is
unregistered by one step only, the expiry of the session of a node that it found
and did not create), `MessagesLostOnlyThere` (a message is lost by a PUBLISH that
has no subscriber, by a login that deletes rows which were stored behind its
query, or with a server that crashes) and `SendsMissOnlyDestroyed` (`sendInLoop` runs in the loop of its
connection, and finds it gone only after `connectDestroyed`).

### Behaviour that the properties leave room for

The conditions in the properties are not decoration; each stands for something
the code does:

- A loop that is told to quit leaves what is in its queue. `~TcpServer` queues
  `connectDestroyed` in loops that it stops right afterwards, so a connection can
  stay registered and never be told that it is down (`NobodyForgotten` says that
  the queue of a loop is the only place where that happens).
- `loop()` resets `quit_`. A `quit()` before it is forgotten, and `join()` waits
  for ever (`JoinReturns`, `DestructorReturns`: `pc # "init"`).
- An init callback that stops the loop can make the loop end before `startLoop`
  has looked at `loop_`, and `startLoop` waits for ever (`StartReturns`). If
  somebody else stops the loop, the destructor can find `loop_` cleared between
  its two reads, or free the members while the thread is still inside
  `threadFunc` (`FreedAfterThread`).
- `CallMethod` takes `recv() == 0` for a response: a provider that refuses the
  request or dies looks like a success with an empty response. A response of
  more than 1024 bytes, or in pieces, is cut; for one that serializes to nothing
  the caller waits until the provider goes away (`Returns`).
- `shutdown()` can overwrite `kDisconnected`, or keep `connectDestroyed` from
  writing it; a `send()` that is queued behind `connectDestroyed` then asks for
  EPOLLOUT and puts the channel of a destroyed connection back into epoll.
  `OnlyShutdownRevives` allows this one way and no other.
- A message that was handed to `send()` before a half-close or a reset, and whose
  functor runs after it, is dropped without a word (`NoMessageSkipped` speaks of
  the time before).
- A PUBLISH finds no subscriber not only while the SUBSCRIBE of a login is on its
  way (finding 2): an UNSUBSCRIBE of an earlier session of the user on the same
  server can be executed after that SUBSCRIBE and silences the new session, and
  the addressee can leave after the sender has read its state.
- Two requests that a chat server reads together, or one that it reads in part,
  end its process; so do a pushed message that comes before or with an answer,
  a message longer than 1023 bytes or a login answer longer than 4095 bytes for
  the client. `login` makes a single `read()`, so that a shorter answer of several
  segments ends the client as well when only the first have arrived
  (`MenuKeepsFraming`, `DiesForAReason`).
- Friends and groups are two statements; a failure in between leaves half of
  them (`TablesAgree`). `addgroup` does not look whether the group exists.
- Users of a crashed server stay online in the table (`NobodyLeftOnline`).

## 4. Fairness

| specification | assumed | because |
|---|---|---|
| `LoopThread` | WF of the thread's steps (those of the loop included), of the owner's waits and of the destructor once it has begun, and of every `wakeup()` | the thread is scheduled, and `epoll_wait` returns when the eventfd is readable. Nothing is assumed of the poll timeout, of I/O or of a spurious return of `cond_.wait`, so that no property is rescued by them; nor do users have to call anything |
| `TcpConnection` | SF of running a queued functor, WF of the end of a user's callback, SF of a write that makes progress, WF of the callers' steps | every round of the loop ends with `doPendingFunctions`, whatever else is ready; callbacks return; a socket whose peer reads becomes writable again and again until it is reset; callers are scheduled |
| `TcpServer` | WF of each loop's steps, of accepting and of the destructor | threads are scheduled; a listening socket with a client is readable |
| `LogQueue` | WF of the write thread, of `Close` and of `join` | scheduling; a spurious wake-up may but need not happen, and nothing relies on one |
| `RpcProvider` | WF of `OnMessage` and of every closure | scheduling, and services run `done` in the end. The network need not deliver |
| `RpcCall` | WF of the caller's steps, of the delivery of what was sent, of the steps of `Run`, of the expiry of sessions without a process | scheduling, TCP, ZooKeeper. A provider need not answer, a session in use need not expire |
| `ChatCluster`, `TcpSend` | none | their properties are safety |
| `ChatClient` | WF of the main thread where it does not wait for its user, of the reading thread, and of the server's handler of each link | scheduling. The user need not do anything; the server need neither die nor come back |

## 5. What is proved

The theorems are of the form `Spec => []Inv`, `Spec => [][Action]_vars`,
`Spec => AbstractSpec` or `FairSpec /\ []CanStep => (P ~> Q)`, for every value of the constants that the named assumption in the module allows. These
assumptions only say that the constants make sense: a marker is not a member of
the set it stands outside of, bounds are natural numbers, maps have the right
domain, frames of the stream are as long as their headers say.

| module | theorems | how |
|---|---|---|
| `EventLoopProofs` | `TypeCorrect`, `WakeupNeverLost`, `LoopIsTaskQueue`, `ThreadRunsEventLoop`, `ThreadTypeCorrect`, `DestructorWaits`, `StartLoopReturns` | `NoLostWakeup` talks about the loop at `poll` only. `WakeupInv` extends it to the places where the loop's own steps lead there: whoever appends while the loop is between the swap and the poll owes a write to the eventfd, or it is already there. The refinement needs `BatchInv`: the batch is empty outside `doPendingFunctions`. Every step of `LoopThread` is one of `EventLoop` or leaves the loop alone, which carries all of this over. `DestructorWaits` needs that `quit_` is still unset, and the thread not past `loop()`, as long as neither the destructor nor anybody else has called `quit()`. `StartLoopReturns` goes through the places of the two threads: what the starter waits for, the semaphore and then `cond_`, is there, or the new thread is before the step that provides it |
| `BufferProofs` | `TypeCorrect`, `IndicesInOrder`, `SizeStaysBounded`, `BufferIsByteQueue` | `BufferInv` is the order of indices and size; one lemma per private operation says what it does to the content and to the room, one per public operation puts them together |
| `LogQueueProofs` | `TypeCorrect`, `NeverSleepsOverWork`, `ClosingDrains`, `LinesAdvance`, `DestructorAdvances` | `DrainInv`: file, the line in the writer's hands and the queue together are what was accepted, and the writer ends only when the queue is closed and empty. `ExitInv` ties the flags to the place of the destructor. `LinesAdvance` says of a line at place `k` of the queue that it comes to place `k - 1`; `DestructorAdvances` follows the writer from its wait to its end once the queue is closed and empty |
| `TcpConnectionProofs` | `TypeCorrect`, `WriteInterestExact`, `StreamStaysInOrder`, `FinWaits`, `DownForGood`, `ShutdownNotForgotten`, `RemovalNotForgotten`, `SendersStayInOrder`, `NoMessageSkipped`, `RevivedByShutdownOnly` | `IInv` is inductive: `WriteInv` (the channel agrees with epoll in all its states, and wants EPOLLOUT exactly while bytes wait), `StreamInOrder` (what was taken is what is on the wire followed by what is buffered, as long as the socket takes data), `StartInv` (before `connectEstablished`, which is first in the queue and only there, nothing else can happen) and `CallInv`. One lemma says what any change of `events_` followed by `updateChannel` does, one what any path through `sendInLoop` does. `FinWaits`, `DownForGood` and `RevivedByShutdownOnly` are action properties that follow from it step by step. The last of them needs that a destroyed connection is down and that its channel comes back into epoll only by a `sendInLoop` that leaves bytes (`DestroyedInv`, `DanglingStep`, `BackStep`). `ShutdownNotForgotten` and `RemovalNotForgotten` say that somebody is always left who will shut down or destroy: a caller between its steps, a functor, a callback on the stack. `SendersStayInOrder` and `NoMessageSkipped` follow each sender's messages from the call through the queue into the stream: in the queue they are in the order of the calls, and none is left out of the stream while the connection lives, its write side is open and the peer has not reset it. (After the end a later one may be written although an earlier one was dropped, because `shutdown()` may overwrite the `kDisconnected` of `handleClose`) |
| `TcpServerProofs` | `ServerTypeCorrect`, `ServerForgetsNobody`, `ServerChannelsLive`, `ServerBalanced`, `ServerLeavesBehind`, `SendsMissOnlyDestroyed` | `NoDanglingChannel` follows one connection through three queues, and needs three invariants. `PhaseInv`: a loop has active channels only while it handles them, and a batch only while it runs it. `RelayInv`: a functor waits only where the relay puts it (`QueueInv`), `connectEstablished` is there once and before every `connectDestroyed` of its connection (`OrderInv`), and a connection that was accepted is in the map, destroyed, or has `connectDestroyed` queued in its loop (`ConnInv`). `BalanceInv`: the loops before `next_` have one connection more than the others. `EndInv` says which loops have left at each stage of the destructor, so that what is left behind can only be in their queues. `SendsMissOnlyDestroyed` is about `TcpSend`: a connection that was accepted is in the table, destroyed, or has `connectDestroyed` queued, and whoever calls `send`, or waits in a queue to send, was given an accepted one (`SendInv`). It does not need the order of the functors, so that it holds for queues with any number of sends between them |
| `RpcProviderProofs` | `TypeCorrect`, `DispatchInStep`, `RejectIsFinal`, `NoFrameWaits`, `InputIsByteQueue`, `EachAnsweredOnce`, `FramesServedInTurn` | `StepInv`: the buffer starts where the last retired frame ended, the frame being served has wholly arrived, and all that were dispatched are an initial piece of the client's frames and good. A lemma says that the ends of frames grow, so that an offset names one frame. The refinement maps the content of the queue to the piece of the stream between what was retrieved and what has arrived. `FramesServedInTurn` says that the first frame that is not yet dispatched is dispatched once it is there, since the loop of `OnMessage` goes on while a whole frame is in the buffer, and then answered |
| `RpcCallProofs` | `TypeCorrect`, `NoSocketLeaks`, `LoneProviderIsRegistered`, `OwnerLives`, `DeadAddressIsRemoved`, `CallsReturn`, `CallTells`, `RegistrationLostOnlyThere` | `SocketInv`: a call has an open socket exactly from `connect` to `recv`. `RegInv`: whoever owns the method node was started, so a provider that is the only one, in its first run, finds none and creates it itself. `RegistrationLostOnlyThere` goes through the steps of the registry, one by one. `CallInv` ties the place of a call to its socket and to what the provider has sent; `CallsReturn` follows it from there through every wait. `DeadAddressIsRemoved` needs that the session of a node is live (`OwnerLives`) and that nobody comes back to a session whose process has crashed |
| `ChatProofs` | `TypeCorrect`, `NoEntryIsDead`, `NobodyStaysOnline`, `ClientTypeCorrect`, `ClientOneReader`, `ClientTablesAgree`, `ClientKeepsFraming`, `ClientDiesForAReason`, `ClientComesBack`, `MessagesLostOnlyThere` | `EntryInv`: the entry of a map points to a connection whose handler is past the insertion and not past the erasure. `OnlineInv`: for each account that is online there is a witness, a connection that will still set it offline; the hard case is a closing connection that erases the entry of a racing login, and so becomes the witness in its place. `MessagesLostOnlyThere` bounds what finding 2 and a crash can do: every step but three keeps each message sent, stored or on its way (`FetchedInv`: only a login that is between its query and its reply holds rows). For the client, `ClientBase` ties the descriptor and the reader's link to the place of the main thread, `TablesInv` says for each handler that is half way which row is still missing, and `FramingInv` says what can be on a link at each place of the main thread: nothing but pushes in the menu (`Still`), at most one answer, in one place only, while it waits for it (`Owed`), and no answer during a session (`Silent`), where the reader would take it for a push. For `ClientComesBack`, `AwaitInv` says that while main waits the answer is due: the server has the request, is at it, or has answered, or the connection is over; and `LeaveInv` that when main waits for the reader, the connection that it reads is shut and `_isLoginSuccess` is false, so that it cannot read again. The threads then take a bounded number of steps, which the theorem follows one after the other |

Liveness is proved where the steps to the goal can be named: `StartReturns`,
`Returns`, `MenuComesBack`, that a dead provider's address goes
(`DeadAddressIsRemoved`), and the single steps behind
`LinesWritten`, `DestructorEnds` and `Served`. The argument from fairness needs
that an action is enabled, and the prover has no rules for ENABLED. Each of these
theorems therefore has one hypothesis, `StartersCanStep`, `ExpiryCanHappen`,
`CallsCanStep`, `ClientCanStep`, `LogCanStep`, `ProviderCanStep`: a conjunction of formulas `Ready => ENABLED
<<A>>_vars`, where `Ready` is written out from the guard of `A` and what `A`
changes. It is no assumption about the code, since every one of these actions can
be taken wherever its guard holds; TLC finds each of the six true in all reachable
states of the instances of section 3 when it is given as an INVARIANT there (the
runs do not repeat this). All else in these proofs is checked: that the
steps lead where they should, that no other step leads back, and that fairness is
of the action in question.

Only model-checked: `QueuedRuns`, `QuitStops`, `JoinReturns`, `ShutdownTakesEffect`,
`ClosedIsDestroyed`, `DestructorReturns`, `LinesWritten`, `DestructorEnds`,
`Served`. There the number of steps depends on the length of a queue or of a
stream, and the induction over it is out of the prover's reach. What it can prove
is that the work is not lost on the way: `WakeupNeverLost` and `LoopIsTaskQueue`
for the first three, `ShutdownNotForgotten` and `FinWaits` for the fourth,
`ServerForgetsNobody` and `ServerLeavesBehind` for the two of the server,
`NeverSleepsOverWork` and `ClosingDrains` for those of the logger, `NoFrameWaits`
for the last. For the last three it also proves the step of the induction, for
every length: `LinesAdvance` and `DestructorAdvances`, and `FramesServedInTurn`;
only putting the steps together is left to TLC. Every other property of a passing run has a theorem.

## 6. Assumptions

- The process ignores SIGPIPE (nothing in the repository does; without it a
  write to a reset connection ends the process).
- Log lines are never empty: each begins with a time stamp. `is_exit_` is
  initialised after the write thread has started, but read only after `Close`.
- Frames are shorter than 2^31 bytes, as protobuf's are.
- A call that has begun on an `EventLoop` that ends in the meantime writes to a
  descriptor that wakes nobody; what else the write may hit is left out.
- `ZkClient::Start` gets connected; addresses in the registry are well formed.
- One access to `_userConnMap` is atomic. The code does not lock it, and what a
  data race on an `unordered_map` does is outside of any model.
- In `ChatCluster`, statements on MySQL and calls of Redis succeed; in
  `ChatTables` inserts may fail. A crash of a chat server takes
  what it had not yet sent with it.
- A client is logged in at most once per connection, which `ChatClient` does.
- `ChatClient`: names, passwords and every answer but that of a successful `login`
  fit into a segment; `_clientfd` and `_isLoginSuccess`, plain variables of two
  threads, are accessed atomically; the next socket gets the number of the one that
  was closed before.

## 7. What is not modelled

- `Socket`, `InetAddress`, `Timestamp`, `CurrentThread`: no state of their own.
- mymuduo's `Logger`: output only.
- The configuration of mprpc: text read once.
- In the data models: the text of the statements. `GroupModel::queryGroups` asks
  for the members of a group on the connection whose outer result is still being
  fetched (`GroupModel.cpp:67`), which MySQL refuses: member lists are always
  empty, whatever the interleaving.
- Failing statements in `login`, `loginout` and `clientCloseException`.
- In `TcpConnection`: the high-water mark, which nothing uses; the input buffer,
  which is `Buffer`.
- `NotifyService`, which fills its maps before the loop starts.
- Examples, generated protobuf code and `json.hpp`. These are more than five
  sixths of the repository's lines (`json.hpp` alone has 25,526, the generated
  files about 3,800), so that the share of all lines that the models stand for
  stays small although they cover the larger part of the repository's own code
  that keeps state.

## 8. Plan

Done, in this order: the loop and its abstract queue; the buffer; the connection;
the server; the logger; the provider; registry and call; the chat cluster; the
thread around a loop; the lifetime of a connection under `send`; the chat client
with its server; the proofs of section 5, the liveness among them last.

Next, the most important first:

1. `ZkClient::Start` with its semaphore: a session that never connects, and a
   reconnect that posts to a semaphore that is gone.
2. Failing database calls in `login` and `clientCloseException`.
3. A controller that is reused without `Reset`.
