---------------------------- MODULE LogQueueProofs ----------------------------
(***************************************************************************)
(* Theorems about LogQueue, for any set of lines: type correctness, that   *)
(* the write thread never sleeps over work, that closing the queue drains  *)
(* it, and, under fairness, that each line moves up to the file and the    *)
(* destructor through its waits.                                           *)
(***************************************************************************)
EXTENDS LogQueue, TLAPS

\* Every variable keeps its type.
THEOREM TypeCorrect == Spec => []TypeOK
<1>1. Init => TypeOK
  <2>1. <<>> \in Seq(Lines)
    OBVIOUS
  <2> QED  BY <2>1 DEF Init, TypeOK
<1>2. TypeOK /\ [Next]_vars => TypeOK'
  <2> SUFFICES ASSUME TypeOK, [Next]_vars PROVE TypeOK'
    OBVIOUS
  <2> USE DEF TypeOK
  <2>1. ASSUME NEW l \in Lines, Push(l) PROVE TypeOK'
    BY <2>1 DEF Push, Notified
  <2>2. CASE Wait
    BY <2>2 DEF Wait
  <2>3. CASE Pop
    <3>1. CASE queue = <<>>
      BY <2>3, <3>1 DEF Pop
    <3>2. CASE queue # <<>>
      <4>1. Head(queue) \in Lines /\ Tail(queue) \in Seq(Lines)
        BY <3>2
      <4> QED  BY <2>3, <3>2, <4>1 DEF Pop
    <3> QED  BY <3>1, <3>2
  <2>4. CASE Flush
    <3>1. msg \in Lines
      BY <2>4 DEF Flush
    <3> QED  BY <2>4, <3>1 DEF Flush
  <2>5. CASE CheckExit
    BY <2>5 DEF CheckExit
  <2>6. CASE SpuriousWakeup
    BY <2>6 DEF SpuriousWakeup
  <2>7. CASE SetExit
    BY <2>7 DEF SetExit
  <2>8. CASE Close
    BY <2>8 DEF Close, Notified
  <2>9. CASE Join
    BY <2>9 DEF Join
  <2>10. CASE UNCHANGED vars
    BY <2>10 DEF vars
  <2> QED
    BY <2>1, <2>2, <2>3, <2>4, <2>5, <2>6, <2>7, <2>8, <2>9, <2>10
    DEF Next, WriteThread, Destructor
<1> QED  BY <1>1, <1>2, PTL DEF Spec
-----------------------------------------------------------------------------
\* The write thread never sleeps while there is a line to write or the queue is
\* closed.  The invariant is inductive as it stands: whoever makes the predicate
\* of Pop true also notifies, and Wait finds it false.
THEOREM NeverSleepsOverWork == Spec => []NoSleepOverWork
<1>1. Init => NoSleepOverWork
  BY DEF Init, NoSleepOverWork
<1>2. NoSleepOverWork /\ [Next]_vars => NoSleepOverWork'
  <2> SUFFICES ASSUME NoSleepOverWork, [Next]_vars PROVE NoSleepOverWork'
    OBVIOUS
  <2> USE DEF NoSleepOverWork
  <2>1. ASSUME NEW l \in Lines, Push(l) PROVE NoSleepOverWork'
    BY <2>1 DEF Push, Notified
  <2>2. CASE Wait
    BY <2>2 DEF Wait, MayPop
  <2>3. CASE Close
    BY <2>3 DEF Close, Notified
  <2>4. CASE Pop \/ Flush \/ CheckExit \/ SpuriousWakeup
    BY <2>4 DEF Pop, Flush, CheckExit, SpuriousWakeup
  <2>5. CASE SetExit \/ Join \/ UNCHANGED vars
    BY <2>5 DEF SetExit, Join, vars
  <2> QED
    BY <2>1, <2>2, <2>3, <2>4, <2>5 DEF Next, WriteThread, Destructor
<1> QED  BY <1>1, <1>2, PTL DEF Spec
-----------------------------------------------------------------------------
(* Draining *)

\* The line in the hands of the write thread.
Held == IF writer = "got" /\ msg # Empty THEN <<msg>> ELSE <<>>

\* No line is lost or repeated on its way from the queue to the file; the write
\* thread has an empty line in hand, or has ended, only when the queue is closed
\* and empty; and the destructor is gone only after the thread.
DrainInv ==
  /\ accepted = (file \o Held) \o queue
  /\ writer = "ended" \/ (writer = "got" /\ msg = Empty) => queue = <<>> /\ isClose
  /\ dtor = "gone" => writer = "ended"

\* How a line passes from the queue to the hand and from the hand to the file.
LEMMA TakeInHand ==
  ASSUME NEW S, NEW f \in Seq(S), NEW q \in Seq(S), q # <<>>
  PROVE  (f \o <<>>) \o q = (f \o <<Head(q)>>) \o Tail(q)
  OBVIOUS

LEMMA WriteDown ==
  ASSUME NEW S, NEW f \in Seq(S), NEW q \in Seq(S), NEW e \in S
  PROVE  (f \o <<e>>) \o q = (Append(f, e) \o <<>>) \o q
  OBVIOUS

\* The same for a line that is pushed while another is in the hand.
LEMMA PushBehind ==
  ASSUME NEW S, NEW f \in Seq(S), NEW h \in Seq(S), NEW q \in Seq(S), NEW e \in S
  PROVE  (f \o h) \o Append(q, e) = Append((f \o h) \o q, e)
  OBVIOUS

LEMMA DrainAlways == Spec => []DrainInv
<1>1. Init => DrainInv
  BY DEF Init, DrainInv, Held
<1>2. TypeOK /\ DrainInv /\ [Next]_vars => DrainInv'
  <2> SUFFICES ASSUME TypeOK, DrainInv, [Next]_vars PROVE DrainInv'
    OBVIOUS
  <2> USE DEF TypeOK
  <2>0. Held \in Seq(Lines)
    BY DEF Held
  <2>1. ASSUME NEW l \in Lines, Push(l) PROVE DrainInv'
    <3>1. Held' = Held
      BY <2>1 DEF Push, Notified, Held
    <3>2. (file \o Held) \o Append(queue, l) = Append((file \o Held) \o queue, l)
      BY <2>0, PushBehind
    <3>3. accepted' = ((file \o Held) \o queue)'
      BY <2>1, <3>1, <3>2 DEF Push, DrainInv
    <3> QED  BY <2>1, <3>3 DEF Push, Notified, DrainInv
  <2>2. CASE Pop
    <3>1. Held = <<>>
      BY <2>2 DEF Pop, Held
    <3>2. CASE queue = <<>>
      <4>1. Held' = <<>> /\ isClose
        BY <2>2, <3>2 DEF Pop, MayPop, Held
      <4> QED  BY <2>2, <3>1, <3>2, <4>1 DEF Pop, DrainInv
    <3>3. CASE queue # <<>>
      <4>1. Head(queue) \in Lines /\ Head(queue) # Empty
        BY <3>3, LogAssumption
      <4>2. Held' = <<Head(queue)>> /\ queue' = Tail(queue)
        BY <2>2, <3>3, <4>1 DEF Pop, Held
      <4>3. accepted' = ((file \o Held) \o queue)'
        BY <2>2, <3>1, <3>3, <4>1, <4>2, TakeInHand DEF Pop, DrainInv
      <4> QED  BY <2>2, <3>3, <4>1, <4>3 DEF Pop, DrainInv
    <3> QED  BY <3>2, <3>3
  <2>3. CASE Flush
    <3>1. msg \in Lines /\ Held = <<msg>> /\ Held' = <<>>
      BY <2>3 DEF Flush, Held
    <3>2. accepted' = ((file \o Held) \o queue)'
      BY <2>3, <3>1, WriteDown DEF Flush, DrainInv
    <3> QED  BY <2>3, <3>2 DEF Flush, DrainInv
  <2>4. CASE Wait \/ SpuriousWakeup
    <3>1. Held' = Held
      BY <2>4 DEF Wait, SpuriousWakeup, Held
    <3> QED  BY <2>4, <3>1 DEF Wait, SpuriousWakeup, DrainInv
  <2>5. CASE CheckExit
    <3>1. Held' = Held
      BY <2>5 DEF CheckExit, Held
    <3> QED  BY <2>5, <3>1 DEF CheckExit, DrainInv
  <2>6. CASE Close
    <3>1. Held' = Held
      BY <2>6 DEF Close, Notified, Held
    <3> QED  BY <2>6, <3>1 DEF Close, Notified, DrainInv
  <2>7. CASE SetExit \/ Join \/ UNCHANGED vars
    <3>1. Held' = Held
      BY <2>7 DEF SetExit, Join, vars, Held
    <3> QED  BY <2>7, <3>1 DEF SetExit, Join, vars, DrainInv
  <2> QED
    BY <2>1, <2>2, <2>3, <2>4, <2>5, <2>6, <2>7 DEF Next, WriteThread, Destructor
<1> QED  BY <1>1, <1>2, TypeCorrect, PTL DEF Spec

\* When the destructor has joined the write thread, every line that Push took is
\* in the file, in order.
THEOREM ClosingDrains == Spec => []Drained
<1>1. TypeOK /\ DrainInv => Drained
  <2> SUFFICES ASSUME TypeOK, DrainInv, dtor = "gone" PROVE file = accepted
    BY DEF Drained
  <2>1. Held = <<>> /\ queue = <<>>
    BY DEF DrainInv, Held
  <2> QED  BY <2>1 DEF DrainInv, TypeOK
<1> QED  BY <1>1, TypeCorrect, DrainAlways, PTL
-----------------------------------------------------------------------------
(* Every line moves on *)

\* is_close_ is set after is_exit_, and from then on the destructor is in join().
ExitInv ==
  /\ isClose => isExit
  /\ isClose <=> dtor \in {"join", "gone"}
  /\ isExit <=> dtor # "alive"

LEMMA ExitAlways == Spec => []ExitInv
<1> USE DEF ExitInv
<1>1. Init => ExitInv
  BY DEF Init
<1>2. ExitInv /\ [Next]_vars => ExitInv'
  <2> SUFFICES ASSUME ExitInv, [Next]_vars PROVE ExitInv'
    OBVIOUS
  <2>1. CASE SetExit \/ Close \/ Join
    BY <2>1 DEF SetExit, Close, Join
  <2>2. CASE UNCHANGED <<isClose, isExit, dtor>>
    BY <2>2
  <2>3. \/ SetExit \/ Close \/ Join
        \/ UNCHANGED <<isClose, isExit, dtor>>
    BY DEF Next, WriteThread, Destructor, Push, Wait, Pop, Flush, CheckExit, SpuriousWakeup, vars
  <2> QED  BY <2>1, <2>2, <2>3
<1> QED  BY <1>1, <1>2, PTL DEF Spec

LogInv == TypeOK /\ NoSleepOverWork /\ DrainInv /\ ExitInv

LEMMA LogAlways == Spec => []LogInv
BY TypeCorrect, NeverSleepsOverWork, DrainAlways, ExitAlways, PTL DEF LogInv

\* The hypothesis of the next two theorems: where their guards hold, the write
\* thread and the destructor can go on.
LogCanStep ==
  /\ (writer = "pop" /\ MayPop) \/ writer = "got" => ENABLED <<WriteThread>>_vars
  /\ dtor = "exit" \/ (dtor = "join" /\ writer = "ended") => ENABLED <<Close \/ Join>>_vars

\* The line l is the k-th in the queue, and the write thread has another one in
\* hand, or is about to pop.
At(l, k) == k \in DOMAIN queue /\ queue[k] = l
AtInHand(l, k) == At(l, k) /\ writer = "got"
AtPop(l, k) == At(l, k) /\ writer = "pop"
InHand(l) == writer = "got" /\ msg = l
Written(l) == l \in Elems(file)

LEMMA HeadAndTail ==
  ASSUME NEW S, NEW q \in Seq(S), NEW k \in DOMAIN q
  PROVE  /\ q # <<>> /\ Head(q) = q[1]
         /\ k # 1 => k - 1 \in DOMAIN Tail(q) /\ Tail(q)[k - 1] = q[k]
  OBVIOUS

LEMMA AppendKeeps ==
  ASSUME NEW S, NEW q \in Seq(S), NEW e \in S
  PROVE  /\ \A k \in DOMAIN q : k \in DOMAIN Append(q, e) /\ Append(q, e)[k] = q[k]
         /\ Elems(Append(q, e)) = Elems(q) \cup {e}
<1>1. DOMAIN q = 1 .. Len(q) /\ DOMAIN Append(q, e) = 1 .. Len(q) + 1 /\ Len(q) \in Nat
  OBVIOUS
<1>2. \A k \in 1 .. Len(q) : Append(q, e)[k] = q[k]
  OBVIOUS
<1>3. Append(q, e)[Len(q) + 1] = e
  OBVIOUS
<1> QED  BY <1>1, <1>2, <1>3 DEF Elems

\* The steps of the write thread, with a line that waits.
LEMMA WriterMoves ==
  ASSUME LogInv, NEW l \in Lines, NEW k \in Nat, WriteThread
  PROVE  /\ AtInHand(l, k) => AtPop(l, k)'
         /\ AtPop(l, k) => IF k = 1 THEN InHand(l)' ELSE At(l, k - 1)'
         /\ InHand(l) => Written(l)'
<1> USE DEF LogInv, TypeOK, At, AtInHand, AtPop, InHand
<1>1. ASSUME At(l, k)
      PROVE  /\ queue # <<>> /\ Head(queue) = queue[1]
             /\ k # 1 => k - 1 \in DOMAIN Tail(queue) /\ Tail(queue)[k - 1] = l
  BY <1>1, HeadAndTail
<1>2. AtInHand(l, k) => AtPop(l, k)'
  <2> SUFFICES ASSUME AtInHand(l, k) PROVE AtPop(l, k)'
    OBVIOUS
  <2>1. msg # Empty
    BY <1>1 DEF DrainInv
  <2>2. Flush
    BY <2>1 DEF WriteThread, Wait, Pop, Flush, CheckExit
  <2> QED  BY <2>2 DEF Flush
<1>3. AtPop(l, k) => IF k = 1 THEN InHand(l)' ELSE At(l, k - 1)'
  <2> SUFFICES ASSUME AtPop(l, k) PROVE IF k = 1 THEN InHand(l)' ELSE At(l, k - 1)'
    OBVIOUS
  <2>1. queue # <<>>
    BY <1>1
  <2>2. Pop
    BY <2>1 DEF WriteThread, Wait, Pop, Flush, CheckExit, MayPop
  <2>3. msg' = Head(queue) /\ queue' = Tail(queue) /\ writer' = "got"
    BY <2>1, <2>2 DEF Pop
  <2> QED  BY <1>1, <2>3
<1>4. InHand(l) => Written(l)'
  <2> SUFFICES ASSUME InHand(l) PROVE Written(l)'
    OBVIOUS
  <2>1. Flush
    BY LogAssumption DEF WriteThread, Wait, Pop, Flush, CheckExit
  <2>2. file' = Append(file, l)
    BY <2>1 DEF Flush
  <2> QED  BY <2>2, AppendKeeps DEF Written
<1> QED  BY <1>2, <1>3, <1>4

\* The steps of the others leave it where it is.
LEMMA OthersKeep ==
  ASSUME LogInv, NEW l \in Lines, NEW k \in Nat, [Next]_vars, ~WriteThread
  PROVE  /\ AtInHand(l, k) => AtInHand(l, k)'
         /\ AtPop(l, k) => AtPop(l, k)'
         /\ InHand(l) => InHand(l)'
<1> USE DEF LogInv, TypeOK, At, AtInHand, AtPop, InHand
<1>1. CASE \E e \in Lines : Push(e)
  <2>1. PICK e \in Lines : Push(e)
    BY <1>1
  <2>2. queue' = Append(queue, e) /\ msg' = msg /\ (writer # "waiting" => writer' = writer)
    BY <2>1 DEF Push, Notified
  <2> QED  BY <2>2, AppendKeeps
<1>2. CASE SpuriousWakeup \/ Destructor \/ UNCHANGED vars
  BY <1>2 DEF SpuriousWakeup, Destructor, SetExit, Close, Join, Notified, vars
<1> QED  BY <1>1, <1>2 DEF Next

\* Where it is next.
Ahead(l, k) == IF k = 1 THEN InHand(l) ELSE At(l, k - 1)

\* A line that waits in the queue moves up, and the first one is written: however
\* long the queue is, and whatever is pushed behind it or closed
\* (lockqueue.h:26-39, logger.cc:39-65).
LinesMoveUp ==
  \A l \in Lines :
    /\ \A k \in Nat \ {0} : At(l, k) ~> Ahead(l, k)
    /\ InHand(l) ~> Written(l)

\* A line in the queue always comes one place nearer to the file.
THEOREM LinesAdvance == FairSpec /\ []LogCanStep => LinesMoveUp
<1> DEFINE Cond == FairSpec /\ []LogCanStep
<1>0. Cond => []LogInv
  BY LogAlways, PTL DEF FairSpec
<1>1. ASSUME NEW l \in Lines, NEW k \in Nat \ {0}
      PROVE  Cond => (At(l, k) ~> Ahead(l, k))
  <2>1. LogInv /\ AtInHand(l, k) /\ [Next]_vars => AtInHand(l, k)' \/ AtPop(l, k)'
    BY WriterMoves, OthersKeep
  <2>2. LogInv /\ AtPop(l, k) /\ [Next]_vars => AtPop(l, k)' \/ Ahead(l, k)'
    BY WriterMoves, OthersKeep DEF Ahead
  <2>3. LogInv /\ AtInHand(l, k) /\ <<WriteThread>>_vars => AtPop(l, k)'
    BY WriterMoves
  <2>4. LogInv /\ AtPop(l, k) /\ <<WriteThread>>_vars => Ahead(l, k)'
    BY WriterMoves DEF Ahead
  <2>5. LogInv /\ At(l, k) => queue # <<>>
    BY HeadAndTail DEF LogInv, TypeOK, At
  <2>6. LogInv /\ At(l, k) => AtInHand(l, k) \/ AtPop(l, k)
    BY <2>5 DEF LogInv, TypeOK, NoSleepOverWork, DrainInv, AtInHand, AtPop
  <2>7. LogInv /\ LogCanStep /\ (AtInHand(l, k) \/ AtPop(l, k)) => ENABLED <<WriteThread>>_vars
    BY <2>5 DEF LogCanStep, MayPop, AtInHand, AtPop
  <2> QED  BY <1>0, <2>1, <2>2, <2>3, <2>4, <2>6, <2>7, PTL DEF FairSpec, Spec, Fairness
<1>2. ASSUME NEW l \in Lines
      PROVE  Cond => (InHand(l) ~> Written(l))
  <2>1. LogInv /\ InHand(l) /\ [Next]_vars => InHand(l)' \/ Written(l)'
    BY WriterMoves, OthersKeep
  <2>2. LogInv /\ InHand(l) /\ <<WriteThread>>_vars => Written(l)'
    BY WriterMoves
  <2>3. LogCanStep /\ InHand(l) => ENABLED <<WriteThread>>_vars
    BY DEF LogCanStep, InHand
  <2> QED  BY <1>0, <2>1, <2>2, <2>3, PTL DEF FairSpec, Spec, Fairness
<1> QED  BY <1>1, <1>2 DEF LinesMoveUp

\* The places of the write thread between the last line and its end.
Empties == isClose /\ queue = <<>>
LastLine == Empties /\ writer = "got" /\ msg # Empty
LastPop == Empties /\ writer = "pop"
LastCheck == Empties /\ writer = "got" /\ msg = Empty
ToJoin == Empties /\ writer = "ended" /\ dtor = "join"
Gone == dtor = "gone"

LEMMA EndSteps ==
  ASSUME LogInv, [Next]_vars
  PROVE  /\ LastLine => LastLine' \/ LastPop' \/ Gone'
         /\ LastPop => LastPop' \/ LastCheck' \/ Gone'
         /\ LastCheck => LastCheck' \/ ToJoin' \/ Gone'
         /\ ToJoin => ToJoin' \/ Gone'
<1> USE DEF LogInv, TypeOK, ExitInv, Empties, LastLine, LastPop, LastCheck, ToJoin, Gone
<1>1. CASE WriteThread
  BY <1>1 DEF WriteThread, Wait, Pop, Flush, CheckExit, MayPop
<1>2. CASE (\E l \in Lines : Push(l)) \/ SpuriousWakeup \/ Destructor \/ UNCHANGED vars
  BY <1>2 DEF Push, SpuriousWakeup, Destructor, SetExit, Close, Join, Notified, vars
<1> QED  BY <1>1, <1>2 DEF Next

LEMMA EndHelps ==
  ASSUME LogInv
  PROVE  /\ LastLine /\ WriteThread => LastPop'
         /\ LastPop /\ WriteThread => LastCheck'
         /\ LastCheck /\ WriteThread => ToJoin' \/ Gone'
         /\ ToJoin /\ (Close \/ Join) => Gone'
<1> USE DEF LogInv, TypeOK, ExitInv, Empties, LastLine, LastPop, LastCheck, ToJoin, Gone
<1>1. ASSUME WriteThread
      PROVE  /\ LastLine => LastPop'
             /\ LastPop => LastCheck'
             /\ LastCheck => ToJoin' \/ Gone'
  BY <1>1 DEF WriteThread, Wait, Pop, Flush, CheckExit, MayPop
<1>2. ToJoin /\ (Close \/ Join) => Gone'
  BY DEF Close, Join
<1> QED  BY <1>1, <1>2

\* The destructor closes the queue once it has begun, and ends once the queue is
\* empty (logger.cc:29-37, 39-65).
DestructorMovesOn ==
  /\ isExit ~> isClose
  /\ isClose /\ queue = <<>> ~> dtor = "gone"

\* Whatever is logged meanwhile, neither the queue nor the thread stops it.
THEOREM DestructorAdvances == FairSpec /\ []LogCanStep => DestructorMovesOn
<1> DEFINE Cond == FairSpec /\ []LogCanStep
<1>0. Cond => []LogInv
  BY LogAlways, PTL DEF FairSpec
<1>1. Cond => (isExit ~> isClose)
  <2>1. LogInv /\ isExit => isClose \/ dtor = "exit"
    BY DEF LogInv, TypeOK, ExitInv
  <2>2. dtor = "exit" /\ [Next]_vars => (dtor = "exit")' \/ isClose'
    BY DEF Next, WriteThread, Destructor, Push, Wait, Pop, Flush, CheckExit, SpuriousWakeup,
           SetExit, Close, Join, vars
  <2>3. dtor = "exit" /\ <<Close \/ Join>>_vars => isClose'
    BY DEF Close, Join
  <2>4. LogCanStep /\ dtor = "exit" => ENABLED <<Close \/ Join>>_vars
    BY DEF LogCanStep
  <2> QED  BY <1>0, <2>1, <2>2, <2>3, <2>4, PTL DEF FairSpec, Spec, Fairness
<1>2. Cond => (Empties ~> Gone)
  <2>1. /\ LogInv /\ LastLine /\ [Next]_vars => LastLine' \/ LastPop' \/ Gone'
        /\ LogInv /\ LastPop /\ [Next]_vars => LastPop' \/ LastCheck' \/ Gone'
        /\ LogInv /\ LastCheck /\ [Next]_vars => LastCheck' \/ ToJoin' \/ Gone'
        /\ LogInv /\ ToJoin /\ [Next]_vars => ToJoin' \/ Gone'
    BY EndSteps
  <2>2. /\ LogInv /\ LastLine /\ <<WriteThread>>_vars => LastPop'
        /\ LogInv /\ LastPop /\ <<WriteThread>>_vars => LastCheck'
        /\ LogInv /\ LastCheck /\ <<WriteThread>>_vars => ToJoin' \/ Gone'
        /\ LogInv /\ ToJoin /\ <<Close \/ Join>>_vars => Gone'
    BY EndHelps
  <2>3. LogCanStep /\ (LastLine \/ LastPop \/ LastCheck) => ENABLED <<WriteThread>>_vars
    BY DEF LogCanStep, MayPop, LastLine, LastPop, LastCheck, Empties
  <2>4. LogCanStep /\ ToJoin => ENABLED <<Close \/ Join>>_vars
    BY DEF LogCanStep, ToJoin
  <2>5. LogInv /\ Empties => LastLine \/ LastPop \/ LastCheck \/ ToJoin \/ Gone
    BY DEF LogInv, TypeOK, NoSleepOverWork, ExitInv, Empties, LastLine, LastPop, LastCheck, ToJoin, Gone
  <2> QED  BY <1>0, <2>1, <2>2, <2>3, <2>4, <2>5, PTL DEF FairSpec, Spec, Fairness
<1> QED  BY <1>1, <1>2 DEF DestructorMovesOn, Empties, Gone
=============================================================================
