--------------------------- MODULE EventLoopProofs ---------------------------
(***************************************************************************)
(* Theorems about EventLoop, for any set of threads, functors and channels *)
(* and any eventfd limit: type correctness, no lost wake-up, and that the  *)
(* loop implements TaskQueue.  Then LoopThread: its loop is that of        *)
(* EventLoop, so those theorems hold of it, the destructor waits for the   *)
(* thread, and startLoop comes back.                                       *)
(***************************************************************************)
EXTENDS LoopThread, SequenceTheorems, TLAPS

-----------------------------------------------------------------------------
(* Sequences *)

\* What Append, Tail and concatenation do to the set of elements of a queue.
LEMMA ElemsAppend ==
  ASSUME NEW S, NEW s \in Seq(S), NEW e \in S
  PROVE  Elems(Append(s, e)) = Elems(s) \cup {e}
<1>1. /\ Append(s, e) \in Seq(S)
      /\ Len(Append(s, e)) = Len(s) + 1
      /\ DOMAIN s = 1 .. Len(s)
      /\ DOMAIN Append(s, e) = 1 .. Len(s) + 1
      /\ Len(s) \in Nat
  BY AppendProperties, LenProperties
<1>2. /\ \A i \in 1 .. Len(s) : Append(s, e)[i] = s[i]
      /\ Append(s, e)[Len(s) + 1] = e
  BY AppendProperties
<1> QED  BY <1>1, <1>2 DEF Elems

LEMMA ElemsEmpty == Elems(<<>>) = {}
BY DEF Elems

LEMMA ElemsConcat ==
  ASSUME NEW S, NEW s \in Seq(S), NEW t \in Seq(S)
  PROVE  Elems(s \o t) = Elems(s) \cup Elems(t)
<1>1. /\ s \o t \in Seq(S)
      /\ DOMAIN (s \o t) = 1 .. Len(s) + Len(t)
      /\ DOMAIN s = 1 .. Len(s)
      /\ DOMAIN t = 1 .. Len(t)
      /\ Len(s) \in Nat /\ Len(t) \in Nat
  BY ConcatProperties, LenProperties
<1>2. \A i \in 1 .. Len(s) + Len(t) :
        (s \o t)[i] = IF i <= Len(s) THEN s[i] ELSE t[i - Len(s)]
  BY ConcatProperties
<1>3. Elems(s \o t) \subseteq Elems(s) \cup Elems(t)
  <2> SUFFICES ASSUME NEW i \in 1 .. Len(s) + Len(t)
               PROVE  (s \o t)[i] \in Elems(s) \cup Elems(t)
    BY <1>1 DEF Elems
  <2>1. CASE i <= Len(s)
    BY <1>1, <1>2, <2>1 DEF Elems
  <2>2. CASE i > Len(s)
    <3>1. i - Len(s) \in 1 .. Len(t)
      BY <1>1, <2>2
    <3> QED  BY <1>1, <1>2, <2>2, <3>1 DEF Elems
  <2> QED  BY <1>1, <2>1, <2>2
<1>4. Elems(s) \subseteq Elems(s \o t)
  BY <1>1, <1>2 DEF Elems
<1>5. Elems(t) \subseteq Elems(s \o t)
  <2> SUFFICES ASSUME NEW j \in 1 .. Len(t)
               PROVE  t[j] \in Elems(s \o t)
    BY <1>1 DEF Elems
  <2>1. /\ j + Len(s) \in 1 .. Len(s) + Len(t)
        /\ ~(j + Len(s) <= Len(s))
        /\ (j + Len(s)) - Len(s) = j
    BY <1>1
  <2> QED  BY <1>1, <1>2, <2>1 DEF Elems
<1> QED  BY <1>3, <1>4, <1>5

\* Taking the first functor of the batch takes the first of batch \o pending.
LEMMA HeadTailConcat ==
  ASSUME NEW S, NEW s \in Seq(S), NEW t \in Seq(S), s # <<>>
  PROVE  /\ Head(s \o t) = Head(s)
         /\ Tail(s \o t) = Tail(s) \o t
         /\ s \o t # <<>>
  OBVIOUS
-----------------------------------------------------------------------------
(* Type correctness *)

LEMMA WrittenPositive ==
  ASSUME NEW n \in 0 .. EventFdMax
  PROVE  Written(n) \in 1 .. EventFdMax
BY LoopAssumption DEF Written

\* The type invariant of the loop holds in every behaviour (EventLoop.cpp:6-137).
THEOREM TypeCorrect == Spec => []TypeOK
<1>1. Init => TypeOK
  <2> SUFFICES ASSUME Init PROVE TypeOK
    OBVIOUS
  <2>1. <<>> \in Seq(Tasks)
    BY EmptySeq
  <2>2. 0 \in 0 .. EventFdMax
    BY LoopAssumption
  <2>3. caller \in [Threads -> {"idle", "wake"}]
    BY DEF Init
  <2> QED  BY <2>1, <2>2, <2>3 DEF Init, TypeOK, PCs, UserCode
<1>2. TypeOK /\ [Next]_loopVars => TypeOK'
  <2> SUFFICES ASSUME TypeOK, [Next]_loopVars PROVE TypeOK'
    OBVIOUS
  <2> USE DEF TypeOK, PCs, UserCode
  <2>1. ASSUME NEW t \in Tasks, LoopQueue(t) PROVE TypeOK'
    <3>1. Append(pending, t) \in Seq(Tasks)
      BY AppendProperties
    <3>2. Written(wakeups) \in 0 .. EventFdMax
      BY WrittenPositive
    <3> QED  BY <2>1, <3>1, <3>2 DEF LoopQueue
  <2>2. ASSUME NEW p \in Threads, NEW t \in Tasks, Queue(p, t) PROVE TypeOK'
    <3>1. Append(pending, t) \in Seq(Tasks)
      BY AppendProperties
    <3> QED  BY <2>2, <3>1 DEF Queue
  <2>3. CASE RunFunctor
    <3>1. Head(batch) \in Tasks /\ Tail(batch) \in Seq(Tasks)
      BY <2>3, HeadTailProperties DEF RunFunctor
    <3>2. Append(ran, Head(batch)) \in Seq(Tasks)
      BY <3>1, AppendProperties
    <3> QED  BY <2>3, <3>1, <3>2 DEF RunFunctor
  <2>4. ASSUME NEW ready, ready \subseteq IoChannels \cup {WakeupChannel}, PollReturns(ready)
        PROVE  TypeOK'
    BY <2>4 DEF PollReturns
  <2>5. CASE PollWakeup \/ PollIo \/ PollTimeout
    BY <2>5, <2>4 DEF PollWakeup, PollIo, PollTimeout
  <2>6. CASE LoopEnter \/ TestQuit \/ EndIo \/ EndFunctor \/ EndPending \/ LoopQuit
    BY <2>6 DEF LoopEnter, TestQuit, EndIo, EndFunctor, EndPending, LoopQuit
  <2>7. CASE HandleWakeup \/ \E c \in IoChannels : HandleIo(c)
    <3>1. 0 \in 0 .. EventFdMax
      BY LoopAssumption
    <3> QED  BY <2>7, <3>1 DEF HandleWakeup, HandleIo
  <2>8. CASE BeginPending
    BY <2>8 DEF BeginPending
  <2>9. ASSUME NEW t \in Tasks, LoopRun(t) PROVE TypeOK'
    BY <2>9 DEF LoopRun
  <2>10. ASSUME NEW p \in Threads, Quit(p) \/ Wakeup(p) PROVE TypeOK'
    <3>1. Written(wakeups) \in 0 .. EventFdMax
      BY WrittenPositive
    <3> QED  BY <2>10, <3>1 DEF Quit, Wakeup
  <2>11. CASE UNCHANGED loopVars
    BY <2>11 DEF loopVars
  <2> QED
    BY <2>1, <2>2, <2>3, <2>5, <2>6, <2>7, <2>8, <2>9, <2>10, <2>11
    DEF Next, LoopStep, UserCall, OutsideCall
<1> QED  BY <1>1, <1>2, PTL DEF Spec
-----------------------------------------------------------------------------
(* No lost wake-up *)

\* Where a functor in the queue is not yet certain to be seen before the next
\* epoll_wait.  While the ready channels are handled it is: the swap of
\* doPendingFunctions is still to come.
BeforeSwap == {"handle", "io"}

\* The inductive invariant behind NoLostWakeup.  It speaks of every program
\* point from the swap to the next epoll_wait, not of epoll_wait alone, and it
\* says when callingPendingFunctions_ is set: the wake-up of a functor queued by
\* a functor depends on it.
WakeupInv ==
  /\ calling <=> pc \in {"run", "functor"}
  /\ pc \notin BeforeSwap /\ pc # "exited"
       => (\A t \in Elems(pending) : t \in early) \/ WakeupOnItsWay
  /\ pc = "poll" /\ quit => WakeupOnItsWay

LEMMA WakeupInvStep ==
  ASSUME TypeOK, WakeupInv, [Next]_loopVars
  PROVE  WakeupInv'
<1> USE DEF TypeOK, WakeupInv, BeforeSwap, UserCode, WakeupOnItsWay
<1>1. CASE LoopEnter \/ TestQuit
  BY <1>1 DEF LoopEnter, TestQuit
<1>2. CASE PollWakeup \/ PollIo \/ PollTimeout
  BY <1>2 DEF PollWakeup, PollIo, PollTimeout, PollReturns
<1>3. CASE HandleWakeup \/ (\E c \in IoChannels : HandleIo(c)) \/ EndIo
  BY <1>3 DEF HandleWakeup, HandleIo, EndIo
<1>4. CASE BeginPending
  BY <1>4, ElemsEmpty DEF BeginPending
<1>5. CASE RunFunctor \/ EndFunctor \/ EndPending
  BY <1>5 DEF RunFunctor, EndFunctor, EndPending
<1>6. ASSUME NEW t \in Tasks, LoopQueue(t)
      PROVE  WakeupInv'
  <2>1. Elems(pending)' = Elems(pending) \cup {t}
    BY <1>6, ElemsAppend DEF LoopQueue
  <2>2. Written(wakeups) > 0
    BY WrittenPositive
  <2>3. CASE pc = "functor"
    BY <1>6, <2>2, <2>3 DEF LoopQueue, NeedsWakeup
  <2>4. CASE pc = "init"
    <3>1. wakeups' = wakeups /\ early' = early \cup {t}
      BY <1>6, <2>4 DEF LoopQueue, NeedsWakeup
    <3> QED  BY <1>6, <2>1, <2>4, <3>1 DEF LoopQueue
  <2>5. CASE pc = "io"
    BY <1>6, <2>5 DEF LoopQueue
  <2> QED  BY <1>6, <2>3, <2>4, <2>5 DEF LoopQueue
<1>7. ASSUME NEW t \in Tasks, LoopRun(t)
      PROVE  WakeupInv'
  BY <1>7 DEF LoopRun
<1>8. CASE LoopQuit
  BY <1>8 DEF LoopQuit
<1>9. ASSUME NEW p \in Threads, NEW t \in Tasks, Queue(p, t)
      PROVE  WakeupInv'
  BY <1>9 DEF Queue, NeedsWakeup
<1>10. ASSUME NEW p \in Threads, Quit(p)
       PROVE  WakeupInv'
  BY <1>10 DEF Quit
<1>11. ASSUME NEW p \in Threads, Wakeup(p)
       PROVE  WakeupInv'
  BY <1>11, WrittenPositive DEF Wakeup
<1>12. CASE UNCHANGED loopVars
  BY <1>12 DEF loopVars
<1> QED
  BY <1>1, <1>2, <1>3, <1>4, <1>5, <1>6, <1>7, <1>8, <1>9, <1>10, <1>11, <1>12
  DEF Next, LoopStep, UserCall, OutsideCall

\* The loop is never asleep in epoll_wait on work or on a quit() without a
\* wake-up in the eventfd or about to be written (EventLoop.cpp:54 and 78).
THEOREM WakeupNeverLost == Spec => []NoLostWakeup
<1>1. Init => WakeupInv
  BY ElemsEmpty DEF Init, WakeupInv, BeforeSwap
<1>2. TypeOK /\ WakeupInv /\ [Next]_loopVars => WakeupInv'
  BY WakeupInvStep
<1>3. WakeupInv => NoLostWakeup
  BY DEF WakeupInv, NoLostWakeup, BeforeSwap
<1> QED  BY <1>1, <1>2, <1>3, TypeCorrect, PTL DEF Spec
-----------------------------------------------------------------------------
(* The loop implements TaskQueue *)

\* The batch is only filled while doPendingFunctions runs it.
BatchInv == pc \notin {"run", "functor"} => batch = <<>>

LEMMA BatchInvariant == Spec => []BatchInv
<1>1. Init => BatchInv
  BY DEF Init, BatchInv
<1>2. BatchInv /\ [Next]_loopVars => BatchInv'
  BY DEF BatchInv, Next, LoopStep, UserCall, OutsideCall, loopVars, LoopEnter, TestQuit,
         PollReturns, PollWakeup, PollIo, PollTimeout, HandleWakeup, HandleIo, EndIo,
         BeginPending, RunFunctor, EndFunctor, EndPending, LoopQueue, LoopRun, LoopQuit,
         Queue, Quit, Wakeup
<1> QED  BY <1>1, <1>2, PTL DEF Spec

LEMMA SubmitStep ==
  ASSUME TypeOK, NEW t \in Tasks, Fresh(t),
         pending' = Append(pending, t), UNCHANGED <<batch, ran, pc>>
  PROVE  TQ!Submit(t)
<1>1. batch \in Seq(Tasks) /\ pending \in Seq(Tasks)
  BY DEF TypeOK
<1>2. batch \o Append(pending, t) = Append(batch \o pending, t)
  BY <1>1
<1>3. Elems(batch \o pending) = Elems(batch) \cup Elems(pending)
  BY <1>1, ElemsConcat
<1> QED  BY <1>2, <1>3 DEF TQ!Submit, TQ!Elems, Fresh, Elems

LEMMA StepRefines ==
  ASSUME TypeOK, BatchInv, [Next]_loopVars
  PROVE  [TQ!Next]_TQ!vars
<1> USE DEF TQ!vars
<1>0. batch \in Seq(Tasks) /\ pending \in Seq(Tasks) /\ ran \in Seq(Tasks)
  BY DEF TypeOK
<1>1. ASSUME NEW t \in Tasks, LoopQueue(t)
      PROVE  [TQ!Next]_TQ!vars
  BY <1>1, SubmitStep DEF LoopQueue, TQ!Next
<1>2. ASSUME NEW p \in Threads, NEW t \in Tasks, Queue(p, t)
      PROVE  [TQ!Next]_TQ!vars
  BY <1>2, SubmitStep DEF Queue, TQ!Next
<1>3. CASE RunFunctor
  <2>1. /\ Head(batch \o pending) = Head(batch)
        /\ Tail(batch \o pending) = Tail(batch) \o pending
        /\ batch \o pending # <<>>
    BY <1>0, <1>3, HeadTailConcat DEF RunFunctor
  <2>2. TQ!RunNext
    BY <1>3, <2>1 DEF RunFunctor, TQ!RunNext
  <2> QED  BY <2>2 DEF TQ!Next
<1>4. CASE BeginPending
  <2>1. batch = <<>>
    BY <1>4 DEF BeginPending, BatchInv
  <2>2. batch' \o pending' = batch \o pending
    BY <1>0, <1>4, <2>1, ConcatEmptySeq DEF BeginPending
  <2> QED  BY <1>4, <2>2 DEF BeginPending
<1>5. CASE TestQuit
  <2>1. CASE quit
    BY <1>5, <2>1 DEF TestQuit, TQ!Next, TQ!Stop
  <2>2. CASE ~quit
    BY <1>5, <2>2 DEF TestQuit
  <2> QED  BY <2>1, <2>2
<1>6. CASE LoopEnter \/ PollWakeup \/ PollIo \/ PollTimeout
  BY <1>6 DEF LoopEnter, PollWakeup, PollIo, PollTimeout, PollReturns
<1>7. CASE HandleWakeup \/ (\E c \in IoChannels : HandleIo(c)) \/ EndIo
  BY <1>7 DEF HandleWakeup, HandleIo, EndIo
<1>8. CASE EndFunctor \/ EndPending \/ LoopQuit \/ \E t \in Tasks : LoopRun(t)
  BY <1>8 DEF EndFunctor, EndPending, LoopQuit, LoopRun, UserCode
<1>9. ASSUME NEW p \in Threads, Quit(p) \/ Wakeup(p)
      PROVE  [TQ!Next]_TQ!vars
  BY <1>9 DEF Quit, Wakeup
<1>10. CASE UNCHANGED loopVars
  BY <1>10 DEF loopVars
<1> QED
  BY <1>1, <1>2, <1>3, <1>4, <1>5, <1>6, <1>7, <1>8, <1>9, <1>10
  DEF Next, LoopStep, UserCall, OutsideCall

\* Functors handed to the loop are run at most once, in the order in which they
\* were queued, and not after the loop has stopped (EventLoop.cpp:72-82, 123-137).
THEOREM LoopIsTaskQueue == Spec => ImplementsTaskQueue
<1>1. Init => TQ!Init
  BY ConcatEmptySeq, <<>> \in Seq(Tasks) DEF Init, TQ!Init
<1>2. TypeOK /\ BatchInv /\ [Next]_loopVars => [TQ!Next]_TQ!vars
  BY StepRefines
<1> QED
  BY <1>1, <1>2, TypeCorrect, BatchInvariant, PTL DEF Spec, ImplementsTaskQueue, TQ!Spec
-----------------------------------------------------------------------------
(* LoopThread *)

LEMMA ThreadStepIsLoopStep ==
  ASSUME [LTNext]_ltVars
  PROVE  [Next]_loopVars
<1> USE DEF Next
<1>1. CASE Start \/ SpuriousWakeup \/ DtorTest \/ SemWait \/ CheckLoop
  BY <1>1 DEF Start, SpuriousWakeup, DtorTest, SemWait, CheckLoop
<1>2. CASE SemPost \/ Publish \/ Clear \/ ThreadEnds \/ DtorNullLoop \/ Join
  BY <1>2 DEF SemPost, Publish, Clear, ThreadEnds, DtorNullLoop, Join
<1>3. CASE RunLoop \/ PollOther
  BY <1>3 DEF RunLoop, PollOther
<1>4. CASE DtorQuit
  BY <1>4, OwnerAssumption DEF DtorQuit, OutsideCall
<1>5. CASE CallFromLoop
  BY <1>5 DEF CallFromLoop, UserCall
<1>6. ASSUME NEW p \in Threads, CallFromOutside(p) \/ WakeupCall(p)
      PROVE  [Next]_loopVars
  BY <1>6 DEF CallFromOutside, WakeupCall, OutsideCall
<1>7. CASE UNCHANGED ltVars
  BY <1>7 DEF ltVars
<1> QED
  BY <1>1, <1>2, <1>3, <1>4, <1>5, <1>6, <1>7 DEF LTNext, ThreadStep, OwnerStep

\* The loop inside an EventLoopThread behaves as EventLoop says, so all that is
\* proved of Spec holds of it (EventLoopThread.cpp:40-59).
THEOREM ThreadRunsEventLoop == LTSpec => Spec
<1>1. LTInit => Init
  BY DEF LTInit
<1>2. [LTNext]_ltVars => [Next]_loopVars
  BY ThreadStepIsLoopStep
<1> QED  BY <1>1, <1>2, PTL DEF LTSpec, Spec

\* The steps of the life of the thread, apart from what they do to the loop.
LEMMA ThreadTypeStep ==
  ASSUME ThreadTypeOK, [LTNext]_ltVars
  PROVE  /\ stage' \in Stages
         /\ posted' \in BOOLEAN
         /\ owner' \in OwnerPCs
         /\ stopped' \in BOOLEAN
<1> USE DEF ThreadTypeOK, Stages, OwnerPCs
<1>1. CASE Start \/ SpuriousWakeup \/ DtorTest \/ SemWait \/ CheckLoop
  BY <1>1 DEF Start, SpuriousWakeup, DtorTest, SemWait, CheckLoop
<1>2. CASE SemPost \/ Publish \/ Clear \/ ThreadEnds \/ DtorNullLoop \/ Join
  BY <1>2 DEF SemPost, Publish, Clear, ThreadEnds, DtorNullLoop, Join
<1>3. CASE RunLoop \/ PollOther
  BY <1>3 DEF RunLoop, PollOther, threadVars
<1>4. CASE DtorQuit
  BY <1>4 DEF DtorQuit
<1>5. CASE CallFromLoop
  BY <1>5 DEF CallFromLoop
<1>6. ASSUME NEW p \in Threads, CallFromOutside(p) \/ WakeupCall(p)
      PROVE  /\ stage' \in Stages
             /\ posted' \in BOOLEAN
             /\ owner' \in OwnerPCs
             /\ stopped' \in BOOLEAN
  BY <1>6 DEF CallFromOutside, WakeupCall, threadVars
<1>7. CASE UNCHANGED ltVars
  BY <1>7 DEF ltVars, threadVars
<1> QED
  BY <1>1, <1>2, <1>3, <1>4, <1>5, <1>6, <1>7 DEF LTNext, ThreadStep, OwnerStep

\* The type invariant of EventLoopThread (EventLoopThread.cpp:5-59, Thread.cpp:27-66).
THEOREM ThreadTypeCorrect == LTSpec => []ThreadTypeOK
<1> DEFINE Rest == /\ stage \in Stages
                   /\ posted \in BOOLEAN
                   /\ owner \in OwnerPCs
                   /\ stopped \in BOOLEAN
<1>1. LTInit => Rest
  BY DEF LTInit, Stages, OwnerPCs
<1>2. TypeOK /\ Rest /\ [LTNext]_ltVars => Rest'
  BY ThreadTypeStep DEF ThreadTypeOK
<1>3. ThreadTypeOK <=> TypeOK /\ Rest
  BY DEF ThreadTypeOK
<1> HIDE DEF Rest
<1> QED
  BY <1>1, <1>2, <1>3, ThreadRunsEventLoop, TypeCorrect, PTL DEF LTSpec

\* The inductive invariant behind FreedAfterThread.  While nobody but the
\* destructor has called quit(), quit_ is set only after "quit", so the loop has
\* not exited before; and once the owner has seen loop_ it stays published
\* until then.
DtorInv ==
  ~stopped =>
    /\ quit => owner \in {"join", "gone"}
    /\ pc = "exited" => owner \in {"join", "gone"}
    /\ stage \in {"cleared", "ended"} => owner \in {"join", "gone"}
    /\ owner \in {"started", "quit"} => stage = "running"
    /\ owner # "crashed"
    /\ owner = "gone" => stage = "ended"

LEMMA DtorInvStep ==
  ASSUME ThreadTypeOK, DtorInv, [LTNext]_ltVars
  PROVE  DtorInv'
<1> USE DEF ThreadTypeOK, Stages, OwnerPCs, DtorInv, Published
<1>1. CASE Start \/ SpuriousWakeup \/ SemWait \/ CheckLoop
  BY <1>1 DEF Start, SpuriousWakeup, SemWait, CheckLoop, loopVars
<1>2. CASE SemPost \/ Publish \/ Clear \/ ThreadEnds
  BY <1>2 DEF SemPost, Publish, Clear, ThreadEnds, loopVars
<1>3. CASE RunLoop
  <2>1. /\ quit' => quit
        /\ pc' = "exited" => quit \/ pc = "exited"
        /\ UNCHANGED <<stage, posted, owner, stopped>>
    BY <1>3 DEF RunLoop, threadVars, LoopStep, LoopEnter, TestQuit, PollWakeup, PollReturns,
         HandleWakeup, HandleIo, EndIo, BeginPending, RunFunctor, EndFunctor, EndPending
  <2> QED  BY <2>1
<1>4. CASE PollOther
  BY <1>4 DEF PollOther, PollIo, PollTimeout, PollReturns, threadVars
<1>5. CASE DtorTest \/ DtorNullLoop \/ Join
  BY <1>5 DEF DtorTest, DtorNullLoop, Join, loopVars
<1>6. CASE DtorQuit
  BY <1>6 DEF DtorQuit, Quit
<1>7. CASE CallFromLoop
  <2>1. CASE stopped'
    BY <2>1
  <2>2. CASE ~stopped'
    <3>1. PICK t \in Tasks : LoopQueue(t) \/ LoopRun(t)
      BY <1>7, <2>2 DEF CallFromLoop
    <3>2. UNCHANGED <<quit, pc, stage, owner, stopped>>
      BY <1>7, <2>2, <3>1 DEF CallFromLoop, LoopQueue, LoopRun
    <3> QED  BY <3>2
  <2> QED  BY <2>1, <2>2
<1>8. ASSUME NEW p \in Threads, CallFromOutside(p)
      PROVE  DtorInv'
  <2>1. CASE stopped'
    BY <2>1
  <2>2. CASE ~stopped'
    <3>1. PICK t \in Tasks : Queue(p, t)
      BY <1>8, <2>2 DEF CallFromOutside
    <3>2. UNCHANGED <<quit, pc, stage, owner, stopped>>
      BY <1>8, <2>2, <3>1 DEF CallFromOutside, Queue
    <3> QED  BY <3>2
  <2> QED  BY <2>1, <2>2
<1>9. ASSUME NEW p \in Threads, WakeupCall(p)
      PROVE  DtorInv'
  BY <1>9 DEF WakeupCall, Wakeup, threadVars
<1>10. CASE UNCHANGED ltVars
  BY <1>10 DEF ltVars, threadVars, loopVars
<1> QED
  BY <1>1, <1>2, <1>3, <1>4, <1>5, <1>6, <1>7, <1>8, <1>9, <1>10
  DEF LTNext, ThreadStep, OwnerStep

\* Unless somebody else stops the loop, the EventLoopThread is freed after its
\* thread has ended, and its destructor calls quit() on a live loop
\* (EventLoopThread.cpp:14-22).
THEOREM DestructorWaits == LTSpec => []FreedAfterThread
<1>1. LTInit => DtorInv
  BY DEF LTInit, Init, DtorInv
<1>2. ThreadTypeOK /\ DtorInv /\ [LTNext]_ltVars => DtorInv'
  BY DtorInvStep
<1>3. DtorInv => FreedAfterThread
  BY DEF DtorInv, FreedAfterThread
<1> QED  BY <1>1, <1>2, <1>3, ThreadTypeCorrect, PTL DEF LTSpec
-----------------------------------------------------------------------------
(* startLoop *)

\* The semaphore is posted once the thread runs; whoever sleeps on cond_ does so
\* before loop_ is published.
StartInv ==
  /\ stage = "unborn" <=> owner = "new"
  /\ posted <=> stage \notin {"unborn", "born"}
  /\ owner = "asleep" => stage = "init" \/ stopped
  /\ owner \notin {"new", "sem"} => stage # "born"

LEMMA StartInvStep ==
  ASSUME ThreadTypeOK, DtorInv, StartInv, [LTNext]_ltVars
  PROVE  StartInv'
<1> USE DEF StartInv, Published
<1>1. CASE Start \/ SpuriousWakeup \/ SemWait
  BY <1>1 DEF Start, SpuriousWakeup, SemWait, DtorInv, ThreadTypeOK, Stages
<1>2. CASE CheckLoop
  <2>1. stopped \/ stage \notin {"unborn", "born", "cleared", "ended"}
    BY <1>2 DEF CheckLoop, DtorInv
  <2> QED  BY <1>2, <2>1 DEF CheckLoop, ThreadTypeOK, Stages
<1>3. CASE SemPost
  BY <1>3 DEF SemPost
<1>4. CASE Publish
  BY <1>4 DEF Publish, ThreadTypeOK
<1>5. CASE Clear \/ ThreadEnds
  BY <1>5 DEF Clear, ThreadEnds, ThreadTypeOK
<1>6. CASE RunLoop
  BY <1>6 DEF RunLoop, threadVars
<1>7. CASE PollOther
  BY <1>7 DEF PollOther, threadVars
<1>8. CASE DtorTest \/ DtorQuit \/ DtorNullLoop \/ Join
  BY <1>8 DEF DtorTest, DtorQuit, DtorNullLoop, Join
<1>9. ASSUME CallFromLoop \/ \E p \in Threads : CallFromOutside(p)
      PROVE  StartInv'
  <2>1. UNCHANGED <<stage, posted, owner>> /\ (stopped' = stopped \/ stopped' = TRUE)
    BY <1>9 DEF CallFromLoop, CallFromOutside
  <2> QED  BY <2>1
<1>10. ASSUME NEW p \in Threads, WakeupCall(p)
       PROVE  StartInv'
  BY <1>10 DEF WakeupCall, threadVars
<1>11. CASE UNCHANGED ltVars
  BY <1>11 DEF ltVars, threadVars
<1> QED
  BY <1>1, <1>2, <1>3, <1>4, <1>5, <1>6, <1>7, <1>8, <1>9, <1>10, <1>11
  DEF LTNext, ThreadStep, OwnerStep

LEMMA StartAlways == LTSpec => []DtorInv /\ []StartInv
<1>1. LTInit => DtorInv /\ StartInv
  BY DEF LTInit, Init, DtorInv, StartInv
<1>2. ThreadTypeOK /\ DtorInv /\ [LTNext]_ltVars => DtorInv'
  BY DtorInvStep
<1>3. ThreadTypeOK /\ DtorInv /\ StartInv /\ [LTNext]_ltVars => StartInv'
  BY StartInvStep
<1> QED  BY <1>1, <1>2, <1>3, ThreadTypeCorrect, PTL DEF LTSpec

\* The stages of a start: the thread is to run; the starter is to see that it
\* does; loop_ is to be published; the starter is to see it.
ToRun == ~stopped /\ owner = "sem" /\ stage = "born"
ToSee == ~stopped /\ owner = "sem" /\ stage \in {"init", "running"}
ToPublish == ~stopped /\ owner \in {"check", "asleep"} /\ stage = "init"
ToReturn == ~stopped /\ owner = "check" /\ stage = "running"
StartOver == owner = "started" \/ stopped

\* The hypothesis of the next theorem: where their guards hold, the new thread and
\* the starter can go on.
StartersCanStep ==
  /\ stage \in {"born", "init"} => ENABLED <<ThreadStep>>_ltVars
  /\ (owner = "sem" /\ posted) \/ owner = "check" => ENABLED <<OwnerStep>>_ltVars

LEMMA StartCases ==
  ASSUME ThreadTypeOK, DtorInv, StartInv, owner = "sem"
  PROVE  ToRun \/ ToSee \/ StartOver
BY DEF ThreadTypeOK, DtorInv, StartInv, ToRun, ToSee, StartOver, Stages

\* Between startLoop and its return only these steps move the two threads.
LEMMA StarterSteps ==
  ASSUME ThreadTypeOK, DtorInv, StartInv, ~stopped, owner \in {"sem", "check", "asleep"},
         [LTNext]_ltVars
  PROVE  \/ stopped'
         \/ ~stopped' /\ UNCHANGED <<stage, owner>>
         \/ ~stopped' /\ (SpuriousWakeup \/ SemWait \/ CheckLoop \/ SemPost \/ Publish)
<1> USE DEF Published
<1>1. CASE Start \/ DtorTest \/ DtorQuit \/ DtorNullLoop \/ Join
  BY <1>1 DEF Start, DtorTest, DtorQuit, DtorNullLoop, Join
<1>2. CASE SpuriousWakeup \/ SemWait \/ CheckLoop \/ SemPost \/ Publish
  BY <1>2 DEF SpuriousWakeup, SemWait, CheckLoop, SemPost, Publish
<1>3. CASE Clear \/ ThreadEnds
  BY <1>3 DEF Clear, ThreadEnds, DtorInv
<1>4. CASE RunLoop \/ PollOther
  BY <1>4 DEF RunLoop, PollOther, threadVars
<1>5. CASE CallFromLoop \/ \E p \in Threads : CallFromOutside(p)
  <2>1. UNCHANGED <<stage, owner>> /\ (stopped' = stopped \/ stopped' = TRUE)
    BY <1>5 DEF CallFromLoop, CallFromOutside
  <2> QED  BY <2>1
<1>6. CASE \E p \in Threads : WakeupCall(p)
  BY <1>6 DEF WakeupCall, threadVars
<1>7. CASE UNCHANGED ltVars
  BY <1>7 DEF ltVars, threadVars
<1> QED  BY <1>1, <1>2, <1>3, <1>4, <1>5, <1>6, <1>7 DEF LTNext, ThreadStep, OwnerStep

LEMMA StartGoesOn ==
  ASSUME ThreadTypeOK, DtorInv, StartInv, [LTNext]_ltVars
  PROVE  /\ ToRun => ToRun' \/ ToSee' \/ StartOver'
         /\ ToSee => ToSee' \/ ToPublish' \/ ToReturn' \/ StartOver'
         /\ ToPublish => ToPublish' \/ ToReturn' \/ StartOver'
         /\ ToReturn => ToReturn' \/ StartOver'
<1> USE DEF ToRun, ToSee, ToPublish, ToReturn, StartOver
<1>1. CASE SpuriousWakeup
  BY <1>1 DEF SpuriousWakeup
<1>2. CASE SemWait
  BY <1>2 DEF SemWait, StartInv
<1>3. CASE CheckLoop
  BY <1>3 DEF CheckLoop, Published
<1>4. CASE SemPost
  BY <1>4 DEF SemPost
<1>5. CASE Publish
  BY <1>5 DEF Publish
<1>6. CASE UNCHANGED <<stage, owner>>
  BY <1>6
<1> QED  BY <1>1, <1>2, <1>3, <1>4, <1>5, <1>6, StarterSteps

\* The thread's own step, and the starter's, is the one that is waited for.
LEMMA StartMoves ==
  ASSUME ThreadTypeOK, DtorInv, StartInv
  PROVE  /\ ToRun /\ <<ThreadStep>>_ltVars => ToSee'
         /\ ToPublish /\ <<ThreadStep>>_ltVars => ToReturn'
         /\ ToSee /\ <<OwnerStep>>_ltVars => ToPublish' \/ ToReturn'
         /\ ToReturn /\ <<OwnerStep>>_ltVars => StartOver'
<1> USE DEF ToRun, ToSee, ToPublish, ToReturn, StartOver
<1>1. ASSUME ToRun, ThreadStep
      PROVE  ToSee'
  BY <1>1 DEF ThreadStep, SemPost, Publish, RunLoop, Clear, ThreadEnds
<1>2. ASSUME ToPublish, ThreadStep
      PROVE  ToReturn'
  BY <1>2 DEF ThreadStep, SemPost, Publish, RunLoop, Clear, ThreadEnds
<1>3. ASSUME ToSee, OwnerStep
      PROVE  ToPublish' \/ ToReturn'
  BY <1>3 DEF OwnerStep, SemWait, CheckLoop, DtorQuit, DtorNullLoop, Join
<1>4. ASSUME ToReturn, OwnerStep
      PROVE  StartOver'
  BY <1>4 DEF OwnerStep, SemWait, CheckLoop, DtorQuit, DtorNullLoop, Join, Published
<1> QED  BY <1>1, <1>2, <1>3, <1>4

\* startLoop comes back, whichever of the two threads is first at the semaphore,
\* the mutex or cond_, unless a callback stops the loop before it has looked
\* (EventLoopThread.cpp:25-38, 48-52 and Thread.cpp:41-56).
THEOREM StartLoopReturns == LTFairSpec /\ []StartersCanStep => StartReturns
<1>1. ThreadTypeOK /\ DtorInv /\ StartInv /\ [LTNext]_ltVars
        => /\ ToRun => ToRun' \/ ToSee' \/ StartOver'
           /\ ToSee => ToSee' \/ ToPublish' \/ ToReturn' \/ StartOver'
           /\ ToPublish => ToPublish' \/ ToReturn' \/ StartOver'
           /\ ToReturn => ToReturn' \/ StartOver'
  BY StartGoesOn
<1>2. ThreadTypeOK /\ DtorInv /\ StartInv
        => /\ ToRun /\ <<ThreadStep>>_ltVars => ToSee'
           /\ ToPublish /\ <<ThreadStep>>_ltVars => ToReturn'
           /\ ToSee /\ <<OwnerStep>>_ltVars => ToPublish' \/ ToReturn'
           /\ ToReturn /\ <<OwnerStep>>_ltVars => StartOver'
  BY StartMoves
<1>3. StartersCanStep /\ StartInv
        => /\ ToRun \/ ToPublish => ENABLED <<ThreadStep>>_ltVars
           /\ ToSee \/ ToReturn => ENABLED <<OwnerStep>>_ltVars
  BY DEF StartersCanStep, StartInv, ToRun, ToSee, ToPublish, ToReturn
<1>4. ThreadTypeOK /\ DtorInv /\ StartInv /\ owner = "sem" => ToRun \/ ToSee \/ StartOver
  BY StartCases
<1>5. StartOver => owner = "started" \/ stopped
  BY DEF StartOver
<1> QED
  BY <1>1, <1>2, <1>3, <1>4, <1>5, ThreadTypeCorrect, StartAlways, PTL
  DEF LTFairSpec, LTSpec, LTFairness, StartReturns
=============================================================================
