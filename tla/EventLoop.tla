------------------------------ MODULE EventLoop ------------------------------
(***************************************************************************)
(* mymuduo's EventLoop: one thread runs loop(); other threads hand it      *)
(* functors with runInLoop / queueInLoop and stop it with quit().  The     *)
(* loop thread blocks in epoll_wait, so every hand-over from outside must  *)
(* be followed by a write to the eventfd wakeupFd_.                        *)
(*                                                                         *)
(* mutex_ protects one append and one swap, each a single step here.       *)
(* callingPendingFunctions_ is only ever read by the loop thread (for      *)
(* another thread the test in queueInLoop is settled by isInLoopThread),   *)
(* so setting it and the swap that follows are one step as well.  Between  *)
(* the append (or quit_ = true) of another thread and its wakeup() any     *)
(* other step may happen.                                                  *)
(***************************************************************************)
EXTENDS Naturals, Sequences

CONSTANTS
  Threads,        \* threads other than the loop's that hold the EventLoop
  Tasks,          \* functors, each handed to the loop at most once
  IoChannels,     \* channels registered with the poller, but wakeupChannel_
  WakeupChannel,  \* wakeupChannel_
  EventFdMax      \* largest value of the eventfd counter (2^64 - 2)

ASSUME LoopAssumption ==
  /\ WakeupChannel \notin IoChannels
  /\ EventFdMax \in Nat \ {0}

VARIABLES
  pc,        \* where the loop thread is
  quit,      \* quit_
  pending,   \* pendingFunctions_
  batch,     \* the local vector of doPendingFunctions, what is left of it
  calling,   \* callingPendingFunctions_
  wakeups,   \* counter of the eventfd wakeupFd_
  active,    \* activeChannels_ still to be handled in this iteration
  caller,    \* per outside thread: "wake" when it still has to call wakeup()
  early,     \* history: queued by the loop thread before it called loop()
  ran,       \* history: functors started from the queue, in order
  inlined    \* history: functors that runInLoop called on the spot

loopVars == <<pc, quit, pending, batch, calling, wakeups, active, caller,
              early, ran, inlined>>

\* Where the loop thread runs code of the user: before loop() (thread-init
\* callback), in the callback of a channel, in a functor of the queue.
UserCode == {"init", "io", "functor"}

PCs == UserCode \cup {"test", "poll", "handle", "run", "exited"}

Elems(s) == {s[i] : i \in DOMAIN s}

\* A functor not handed over so far.
Fresh(t) == t \notin inlined \cup Elems(ran) \cup Elems(batch) \cup Elems(pending)

TypeOK ==
  /\ pc \in PCs
  /\ quit \in BOOLEAN
  /\ pending \in Seq(Tasks)
  /\ batch \in Seq(Tasks)
  /\ calling \in BOOLEAN
  /\ wakeups \in 0 .. EventFdMax
  /\ active \subseteq IoChannels \cup {WakeupChannel}
  /\ caller \in [Threads -> {"idle", "wake"}]
  /\ early \subseteq Tasks
  /\ ran \in Seq(Tasks)
  /\ inlined \subseteq Tasks

\* The constructor: nothing queued, the eventfd at 0, loop() not yet called.
Init ==
  /\ pc = "init"
  /\ quit = FALSE
  /\ pending = <<>>
  /\ batch = <<>>
  /\ calling = FALSE
  /\ wakeups = 0
  /\ active = {}
  /\ caller = [p \in Threads |-> "idle"]
  /\ early = {}
  /\ ran = <<>>
  /\ inlined = {}
-----------------------------------------------------------------------------
(* The eventfd *)

\* A write of 1.  The fd is non-blocking: at the limit the write fails, which
\* is logged and leaves the counter where it is.
Written(n) == IF n < EventFdMax THEN n + 1 ELSE n

\* Broken variants: each half of the condition alone.
NeedsWakeupForgetsCalling(inLoop) == ~inLoop
NeedsWakeupOnlyCalling(inLoop) == calling
\* Does queueInLoop write to the eventfd after its append?
NeedsWakeup(inLoop) == ~inLoop \/ calling
-----------------------------------------------------------------------------
(* The loop thread *)

\* loop() begins: whatever quit_ was, it is FALSE now.
LoopEnter ==
  /\ pc = "init"
  /\ pc' = "test"
  /\ quit' = FALSE
  /\ UNCHANGED <<pending, batch, calling, wakeups, active, caller, early, ran, inlined>>

TestQuit ==
  /\ pc = "test"
  /\ pc' = IF quit THEN "exited" ELSE "poll"
  /\ UNCHANGED <<quit, pending, batch, calling, wakeups, active, caller, early, ran, inlined>>

\* epoll_wait returns.  wakeupFd_ is level-triggered: it is among the ready
\* descriptors exactly when the counter is not 0.
PollReturns(ready) ==
  /\ pc = "poll"
  /\ pc' = "handle"
  /\ active' = ready
  /\ UNCHANGED <<quit, pending, batch, calling, wakeups, caller, early, ran, inlined>>

PollWakeup ==
  /\ wakeups > 0
  /\ \E io \in SUBSET IoChannels : PollReturns(io \cup {WakeupChannel})

PollIo ==
  /\ wakeups = 0
  /\ \E io \in (SUBSET IoChannels) \ {{}} : PollReturns(io)

\* kPollerTimeoutMs has passed, or a signal interrupted the wait.
PollTimeout ==
  /\ wakeups = 0
  /\ PollReturns({})

\* handleRead of the wakeup channel: the read empties the eventfd counter.
HandleWakeup ==
  /\ pc = "handle"
  /\ WakeupChannel \in active
  /\ active' = active \ {WakeupChannel}
  /\ wakeups' = 0
  /\ UNCHANGED <<pc, quit, pending, batch, calling, caller, early, ran, inlined>>

HandleIo(c) ==
  /\ pc = "handle"
  /\ c \in active
  /\ active' = active \ {c}
  /\ pc' = "io"
  /\ UNCHANGED <<quit, pending, batch, calling, wakeups, caller, early, ran, inlined>>

EndIo ==
  /\ pc = "io"
  /\ pc' = "handle"
  /\ UNCHANGED <<quit, pending, batch, calling, wakeups, active, caller, early, ran, inlined>>

\* Broken variant: the queue is copied, not swapped.
BeginPendingCopies ==
  /\ pc = "handle"
  /\ active = {}
  /\ pc' = "run"
  /\ calling' = TRUE
  /\ batch' = pending
  /\ UNCHANGED <<quit, pending, wakeups, active, caller, early, ran, inlined>>

\* doPendingFunctions up to its for loop: the flag is set and the queue swapped.
BeginPending ==
  /\ pc = "handle"
  /\ active = {}
  /\ pc' = "run"
  /\ calling' = TRUE
  /\ batch' = pending
  /\ pending' = <<>>
  /\ UNCHANGED <<quit, wakeups, active, caller, early, ran, inlined>>

RunFunctor ==
  /\ pc = "run"
  /\ batch # <<>>
  /\ pc' = "functor"
  /\ ran' = Append(ran, Head(batch))
  /\ batch' = Tail(batch)
  /\ UNCHANGED <<quit, pending, calling, wakeups, active, caller, early, inlined>>

EndFunctor ==
  /\ pc = "functor"
  /\ pc' = "run"
  /\ UNCHANGED <<quit, pending, batch, calling, wakeups, active, caller, early, ran, inlined>>

EndPending ==
  /\ pc = "run"
  /\ batch = <<>>
  /\ pc' = "test"
  /\ calling' = FALSE
  /\ UNCHANGED <<quit, pending, batch, wakeups, active, caller, early, ran, inlined>>
-----------------------------------------------------------------------------
(* Calls that user code makes on the loop thread *)

\* queueInLoop on the loop thread.  Nobody but this thread waits for the
\* eventfd, so the append and the write are one step.
LoopQueue(t) ==
  /\ pc \in UserCode
  /\ Fresh(t)
  /\ pending' = Append(pending, t)
  /\ wakeups' = IF NeedsWakeup(TRUE) THEN Written(wakeups) ELSE wakeups
  /\ early' = IF pc = "init" THEN early \cup {t} ELSE early
  /\ UNCHANGED <<pc, quit, batch, calling, active, caller, ran, inlined>>

\* runInLoop on the loop thread calls the functor on the spot: it overtakes
\* everything that is queued.
LoopRun(t) ==
  /\ pc \in UserCode
  /\ Fresh(t)
  /\ inlined' = inlined \cup {t}
  /\ UNCHANGED <<pc, quit, pending, batch, calling, wakeups, active, caller, early, ran>>

LoopQuit ==
  /\ pc \in UserCode
  /\ quit' = TRUE
  /\ UNCHANGED <<pc, pending, batch, calling, wakeups, active, caller, early, ran, inlined>>
-----------------------------------------------------------------------------
(* Calls from other threads *)

\* runInLoop or queueInLoop: the append under mutex_; the wakeup() is to come.
Queue(p, t) ==
  /\ caller[p] = "idle"
  /\ Fresh(t)
  /\ pending' = Append(pending, t)
  /\ caller' = [caller EXCEPT ![p] = IF NeedsWakeup(FALSE) THEN "wake" ELSE "idle"]
  /\ UNCHANGED <<pc, quit, batch, calling, wakeups, active, early, ran, inlined>>

\* Broken variant: no wakeup() follows.
QuitWithoutWakeup(p) ==
  /\ caller[p] = "idle"
  /\ quit' = TRUE
  /\ UNCHANGED <<pc, pending, batch, calling, wakeups, active, caller, early, ran, inlined>>

\* quit(): the flag first, the wakeup() is to come.
Quit(p) ==
  /\ caller[p] = "idle"
  /\ quit' = TRUE
  /\ caller' = [caller EXCEPT ![p] = "wake"]
  /\ UNCHANGED <<pc, pending, batch, calling, wakeups, active, early, ran, inlined>>

Wakeup(p) ==
  /\ caller[p] = "wake"
  /\ caller' = [caller EXCEPT ![p] = "idle"]
  /\ wakeups' = Written(wakeups)
  /\ UNCHANGED <<pc, quit, pending, batch, calling, active, early, ran, inlined>>
-----------------------------------------------------------------------------
\* What the loop thread does by itself, but for the poll timeout and the
\* arrival of I/O events.
LoopStep ==
  \/ LoopEnter \/ TestQuit
  \/ PollWakeup
  \/ HandleWakeup \/ (\E c \in IoChannels : HandleIo(c)) \/ EndIo
  \/ BeginPending \/ RunFunctor \/ EndFunctor \/ EndPending

UserCall ==
  \/ \E t \in Tasks : LoopQueue(t) \/ LoopRun(t)
  \/ LoopQuit

OutsideCall(p) ==
  \/ \E t \in Tasks : Queue(p, t)
  \/ Quit(p)
  \/ Wakeup(p)

Next ==
  \/ LoopStep
  \/ PollIo
  \/ PollTimeout
  \/ UserCall
  \/ \E p \in Threads : OutsideCall(p)

Spec == Init /\ [][Next]_loopVars

\* The loop thread is scheduled and callbacks return; a thread that is between
\* its append and its wakeup() goes on.  No fairness for the poll timeout nor
\* for I/O: the eventfd alone must carry the hand-over.
Fairness ==
  /\ WF_loopVars(LoopStep)
  /\ \A p \in Threads : WF_loopVars(Wakeup(p))

FairSpec == Spec /\ Fairness
-----------------------------------------------------------------------------
(* Properties *)

\* There is a wake-up to be read, or some thread is about to write one.
WakeupOnItsWay == wakeups > 0 \/ \E p \in Threads : caller[p] = "wake"

\* The loop never sits in epoll_wait with work or a quit() request it has not
\* seen and nothing to wake it (EventLoop.cpp:78, the wakeup() of queueInLoop
\* and its condition, and :54 of quit).  Functors that the loop thread itself
\* queued before it called loop() are the exception: nobody wrote the eventfd
\* for them, they wait for the poll timeout.
NoLostWakeup ==
  pc = "poll" /\ (quit \/ \E t \in Elems(pending) : t \notin early)
    => WakeupOnItsWay

\* Each functor handed over is run, without help of the poll timeout, unless
\* the loop stops (EventLoop.cpp:72-82 and 123-137).
QueuedRuns ==
  \A t \in Tasks :
    (t \in Elems(pending) /\ t \notin early) ~> (t \in Elems(ran) \/ pc = "exited")

\* A quit() that finds the loop running stops it (EventLoop.cpp:51-58).  One
\* that comes before loop() is forgotten by LoopEnter.
QuitStops == (quit /\ pc # "init") ~> (pc = "exited")

\* The loop implements the task queue it stands for: at most once, in order,
\* not after it stopped.
TQ == INSTANCE TaskQueue WITH todo <- batch \o pending, open <- pc # "exited"

ImplementsTaskQueue == TQ!Spec
=============================================================================
