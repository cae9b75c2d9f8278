----------------------------- MODULE LoopThread ------------------------------
(***************************************************************************)
(* EventLoopThread: the thread that an EventLoop lives on, from startLoop  *)
(* to the destructor, around the loop of EventLoop.                        *)
(*                                                                         *)
(* Owner is the thread that creates the EventLoopThread (the pool's, which *)
(* runs the base loop).  startLoop starts a Thread, waits on a semaphore   *)
(* until it runs and on cond_ until it has published loop_; the destructor *)
(* reads loop_ without the mutex, calls quit() and joins.  loop_ is set    *)
(* exactly while the thread is at stage "running".                         *)
(***************************************************************************)
EXTENDS EventLoop

CONSTANT Owner

ASSUME OwnerAssumption == Owner \in Threads

VARIABLES
  stage,    \* where the new thread is; "running" spans loop()
  posted,   \* the semaphore of Thread::start has been posted
  owner,    \* where Owner is in startLoop and in the destructor
  stopped   \* history: quit() was called by somebody but the destructor

threadVars == <<stage, posted, owner, stopped>>
ltVars == <<loopVars, threadVars>>

Stages == {"unborn", "born", "init", "running", "cleared", "ended"}
OwnerPCs == {"new", "sem", "check", "asleep", "started",
             "quit", "join", "gone", "crashed"}

ThreadTypeOK ==
  /\ TypeOK
  /\ stage \in Stages
  /\ posted \in BOOLEAN
  /\ owner \in OwnerPCs
  /\ stopped \in BOOLEAN

LTInit ==
  /\ Init
  /\ stage = "unborn"
  /\ posted = FALSE
  /\ owner = "new"
  /\ stopped = FALSE

\* loop_ != nullptr
Published == stage = "running"
-----------------------------------------------------------------------------
(* startLoop and Thread::start *)

Start ==
  /\ owner = "new"
  /\ owner' = "sem"
  /\ stage' = "born"
  /\ UNCHANGED <<loopVars, posted, stopped>>

SemWait ==
  /\ owner = "sem"
  /\ posted
  /\ owner' = "check"
  /\ UNCHANGED <<loopVars, stage, posted, stopped>>

\* The test of the while loop, with the mutex: the wait releases it.
CheckLoop ==
  /\ owner = "check"
  /\ owner' = IF Published THEN "started" ELSE "asleep"
  /\ UNCHANGED <<loopVars, stage, posted, stopped>>

\* cond_.wait may return unasked.
SpuriousWakeup ==
  /\ owner = "asleep"
  /\ owner' = "check"
  /\ UNCHANGED <<loopVars, stage, posted, stopped>>
-----------------------------------------------------------------------------
(* The new thread *)

\* The lambda of Thread::start; then threadFunc constructs the EventLoop and
\* calls the init callback.
SemPost ==
  /\ stage = "born"
  /\ stage' = "init"
  /\ posted' = TRUE
  /\ UNCHANGED <<loopVars, owner, stopped>>

\* Broken variant: nobody is notified.
PublishInSilence ==
  /\ stage = "init"
  /\ stage' = "running"
  /\ UNCHANGED <<loopVars, owner, posted, stopped>>

\* The callback has returned: loop_ is set and cond_ notified, under the mutex.
Publish ==
  /\ stage = "init"
  /\ stage' = "running"
  /\ owner' = IF owner = "asleep" THEN "check" ELSE owner
  /\ UNCHANGED <<loopVars, posted, stopped>>

RunLoop ==
  /\ stage = "running"
  /\ LoopStep
  /\ UNCHANGED threadVars

\* loop() has returned: loop_ = nullptr, under the mutex.
Clear ==
  /\ stage = "running"
  /\ pc = "exited"
  /\ stage' = "cleared"
  /\ UNCHANGED <<loopVars, posted, owner, stopped>>

\* threadFunc returns: the EventLoop on its stack is destroyed.
ThreadEnds ==
  /\ stage = "cleared"
  /\ stage' = "ended"
  /\ UNCHANGED <<loopVars, posted, owner, stopped>>
-----------------------------------------------------------------------------
(* The destructor *)

\* The test of loop_, without the mutex.  When loop_ is null the members go at
\* once, and ~Thread detaches the thread.
DtorTest ==
  /\ owner = "started"
  /\ caller[Owner] = "idle"
  /\ owner' = IF Published THEN "quit" ELSE "gone"
  /\ UNCHANGED <<loopVars, stage, posted, stopped>>

\* loop_ is read again, and quit() called through it.
DtorQuit ==
  /\ owner = "quit"
  /\ Published
  /\ Quit(Owner)
  /\ owner' = "join"
  /\ UNCHANGED <<stage, posted, stopped>>

DtorNullLoop ==
  /\ owner = "quit"
  /\ ~Published
  /\ owner' = "crashed"
  /\ UNCHANGED <<loopVars, stage, posted, stopped>>

\* Broken variant: the thread is not waited for.
JoinSkipped ==
  /\ owner = "join"
  /\ caller[Owner] = "idle"
  /\ owner' = "gone"
  /\ UNCHANGED <<loopVars, stage, posted, stopped>>

\* loopThread_.join() returns and the members are destroyed.
Join ==
  /\ owner = "join"
  /\ caller[Owner] = "idle"
  /\ stage = "ended"
  /\ owner' = "gone"
  /\ UNCHANGED <<loopVars, stage, posted, stopped>>
-----------------------------------------------------------------------------
(* Calls on the loop *)

\* Code of the user on the loop thread: the init callback, which runs before
\* loop_ is published, and what loop() calls.
CallFromLoop ==
  /\ IF pc = "init" THEN stage = "init" ELSE stage = "running"
  /\ \/ (\E t \in Tasks : LoopQueue(t) \/ LoopRun(t)) /\ UNCHANGED stopped
     \/ LoopQuit /\ stopped' = TRUE
  /\ UNCHANGED <<stage, posted, owner>>

\* Owner hands out the pointer that startLoop returned; nobody begins a call on
\* a loop that is gone.  Owner itself calls until its destructor begins.
MayCall(p) ==
  /\ Published
  /\ IF p = Owner THEN owner = "started" ELSE owner \in {"started", "quit", "join"}

CallFromOutside(p) ==
  /\ MayCall(p)
  /\ \/ (\E t \in Tasks : Queue(p, t)) /\ UNCHANGED stopped
     \/ Quit(p) /\ stopped' = TRUE
  /\ UNCHANGED <<stage, posted, owner>>

\* The second half of a call or of a quit().  On a loop that has ended in the
\* meantime it is a call on a dead object; its write wakes nobody.
WakeupCall(p) == Wakeup(p) /\ UNCHANGED threadVars

\* The poll returns for reasons of its own.
PollOther ==
  /\ stage = "running"
  /\ PollIo \/ PollTimeout
  /\ UNCHANGED threadVars
-----------------------------------------------------------------------------
ThreadStep == SemPost \/ Publish \/ RunLoop \/ Clear \/ ThreadEnds

OwnerStep ==
  \/ SemWait \/ CheckLoop
  \/ DtorQuit \/ DtorNullLoop \/ Join

LTNext ==
  \/ Start \/ SpuriousWakeup \/ DtorTest
  \/ ThreadStep
  \/ OwnerStep
  \/ PollOther
  \/ CallFromLoop
  \/ \E p \in Threads : CallFromOutside(p) \/ WakeupCall(p)

LTSpec == LTInit /\ [][LTNext]_ltVars

\* The threads are scheduled, and callbacks return.  Nobody has to start the
\* thread or to destroy it; neither the poll timeout nor I/O nor a spurious
\* return of cond_.wait is relied on.
LTFairness ==
  /\ WF_ltVars(ThreadStep)
  /\ WF_ltVars(OwnerStep)
  /\ \A p \in Threads : WF_ltVars(WakeupCall(p))

LTFairSpec == LTSpec /\ LTFairness
-----------------------------------------------------------------------------
(* Properties *)

\* startLoop comes back with the loop (EventLoopThread.cpp:25-38, 48-52 and
\* Thread.cpp:41-56): neither the post of the semaphore nor the notification is
\* lost, whichever thread is first.  A callback that stops the loop can be quicker
\* than the starter's look at loop_, which is null again by then: startLoop waits
\* for ever.
StartReturns == (owner = "sem") ~> (owner = "started" \/ stopped)

\* The destructor does not take mutex_, cond_ and loop_ away from a thread that
\* still uses them, nor calls quit() through a null loop_
\* (EventLoopThread.cpp:14-22), provided that nobody else has stopped the loop:
\* then loop_ may be cleared around the unlocked test.
FreedAfterThread ==
  ~stopped => /\ owner # "crashed"
              /\ owner = "gone" => stage = "ended"

\* The destructor of an EventLoopThread whose loop has begun comes back.  When
\* quit() came before loop(), loop() has reset the flag and join() waits for
\* ever (EventLoop.cpp:26-28, EventLoopThread.cpp:19-20).
JoinReturns == (owner = "join" /\ quit /\ pc # "init") ~> (owner = "gone")
=============================================================================
