------------------------------- MODULE LogQueue -------------------------------
(***************************************************************************)
(* mprpc's asynchronous log: any thread pushes lines into a LockQueue, one *)
(* write thread pops them and appends them to the file of the day, and the *)
(* destructor of MprpcLogger closes the queue and joins the thread.        *)
(*                                                                         *)
(* Push, Pop and Close hold mutex_ from end to end, but for the time that  *)
(* Pop spends in condition_.wait: each is one step here, and Pop is two    *)
(* when it waits.  The end of the queue is told by an empty line, which    *)
(* Pop makes up when there is nothing left; a line that is logged is never *)
(* empty, since the macros of logger.h put a time stamp in front of it.    *)
(***************************************************************************)
EXTENDS Naturals, Sequences

CONSTANTS
  Lines,      \* the lines that are logged, each at most once
  Empty       \* the empty line, T()

ASSUME LogAssumption == Empty \notin Lines

VARIABLES
  queue,      \* queue_ of the LockQueue
  isClose,    \* is_close_
  isExit,     \* is_exit_ of the logger
  writer,     \* the write thread: "pop" (about to call Pop), "waiting" (in
              \* condition_.wait), "got" (Pop has returned), "ended"
  msg,        \* what Pop returned
  dtor,       \* the thread that destroys the logger: "alive", "exit" (is_exit_
              \* is set), "join" (the queue is closed), "gone"
  file,       \* the lines written
  accepted    \* history: the lines that Push took, in order

vars == <<queue, isClose, isExit, writer, msg, dtor, file, accepted>>

Elems(s) == {s[i] : i \in DOMAIN s}

TypeOK ==
  /\ queue \in Seq(Lines)
  /\ isClose \in BOOLEAN
  /\ isExit \in BOOLEAN
  /\ writer \in {"pop", "waiting", "got", "ended"}
  /\ msg \in Lines \cup {Empty}
  /\ dtor \in {"alive", "exit", "join", "gone"}
  /\ file \in Seq(Lines)
  /\ accepted \in Seq(Lines)

\* The constructor starts the write thread.
Init ==
  /\ queue = <<>>
  /\ isClose = FALSE
  /\ isExit = FALSE
  /\ writer = "pop"
  /\ msg = Empty
  /\ dtor = "alive"
  /\ file = <<>>
  /\ accepted = <<>>
-----------------------------------------------------------------------------
(* The threads that log *)

\* notify_one, notify_all: there is only the write thread to wake.
Notified == IF writer = "waiting" THEN "pop" ELSE writer

\* Broken variant: notify_one is left out.
PushSilently(l) ==
  /\ ~isClose
  /\ l \notin Elems(accepted)
  /\ queue' = Append(queue, l)
  /\ accepted' = Append(accepted, l)
  /\ UNCHANGED <<isClose, isExit, writer, msg, dtor, file>>

\* A Push after Close does nothing; a line may be logged as long as the
\* destructor has not returned.
Push(l) ==
  /\ ~isClose
  /\ l \notin Elems(accepted)
  /\ queue' = Append(queue, l)
  /\ accepted' = Append(accepted, l)
  /\ writer' = Notified
  /\ UNCHANGED <<isClose, isExit, msg, dtor, file>>
-----------------------------------------------------------------------------
(* The write thread *)

\* The predicate that condition_.wait tests.
MayPop == queue # <<>> \/ isClose

Wait ==
  /\ writer = "pop"
  /\ ~MayPop
  /\ writer' = "waiting"
  /\ UNCHANGED <<queue, isClose, isExit, msg, dtor, file, accepted>>

\* condition_.wait may return without a notification: the predicate is tested
\* again.
SpuriousWakeup ==
  /\ writer = "waiting"
  /\ writer' = "pop"
  /\ UNCHANGED <<queue, isClose, isExit, msg, dtor, file, accepted>>

\* Broken variant: a closed queue is taken for an empty one.
PopClosedIsEmpty ==
  /\ writer = "pop"
  /\ MayPop
  /\ writer' = "got"
  /\ IF isClose
       THEN msg' = Empty /\ UNCHANGED queue
       ELSE msg' = Head(queue) /\ queue' = Tail(queue)
  /\ UNCHANGED <<isClose, isExit, dtor, file, accepted>>

\* What was pushed before Close is still popped; only then comes T().
Pop ==
  /\ writer = "pop"
  /\ MayPop
  /\ writer' = "got"
  /\ IF queue = <<>>
       THEN msg' = Empty /\ UNCHANGED queue
       ELSE msg' = Head(queue) /\ queue' = Tail(queue)
  /\ UNCHANGED <<isClose, isExit, dtor, file, accepted>>

\* FlushLogThread after Pop: write the line, or look at is_exit_.
Flush ==
  /\ writer = "got"
  /\ msg # Empty
  /\ file' = Append(file, msg)
  /\ writer' = "pop"
  /\ UNCHANGED <<queue, isClose, isExit, msg, dtor, accepted>>

\* Broken variant: the flag is not looked at.
CheckExitForgotten ==
  /\ writer = "got"
  /\ msg = Empty
  /\ writer' = "pop"
  /\ UNCHANGED <<queue, isClose, isExit, msg, dtor, file, accepted>>

CheckExit ==
  /\ writer = "got"
  /\ msg = Empty
  /\ writer' = IF isExit THEN "ended" ELSE "pop"
  /\ UNCHANGED <<queue, isClose, isExit, msg, dtor, file, accepted>>
-----------------------------------------------------------------------------
(* ~MprpcLogger *)

SetExit ==
  /\ dtor = "alive"
  /\ dtor' = "exit"
  /\ isExit' = TRUE
  /\ UNCHANGED <<queue, isClose, writer, msg, file, accepted>>

\* Broken variant: nobody is notified.
CloseSilently ==
  /\ dtor = "exit"
  /\ dtor' = "join"
  /\ isClose' = TRUE
  /\ UNCHANGED <<queue, isExit, writer, msg, file, accepted>>

Close ==
  /\ dtor = "exit"
  /\ dtor' = "join"
  /\ isClose' = TRUE
  /\ writer' = Notified
  /\ UNCHANGED <<queue, isExit, msg, file, accepted>>

Join ==
  /\ dtor = "join"
  /\ writer = "ended"
  /\ dtor' = "gone"
  /\ UNCHANGED <<queue, isClose, isExit, writer, msg, file, accepted>>
-----------------------------------------------------------------------------
WriteThread == Wait \/ Pop \/ Flush \/ CheckExit

Destructor == SetExit \/ Close \/ Join

Next == (\E l \in Lines : Push(l)) \/ WriteThread \/ SpuriousWakeup \/ Destructor

Spec == Init /\ [][Next]_vars

\* The write thread is scheduled, and a destructor that has begun goes on.  No
\* spurious wake-up is counted on.
Fairness == WF_vars(WriteThread) /\ WF_vars(Close \/ Join)

FairSpec == Spec /\ Fairness
-----------------------------------------------------------------------------
(* Properties *)

\* When the destructor has joined the write thread, every line that Push took is
\* in the file, in the order of the pushes: closing drains, it does not discard
\* (lockqueue.h:26-45, logger.cc:29-37).
Drained == dtor = "gone" => file = accepted

\* The write thread never sleeps in condition_.wait while there is a line to
\* write or the queue is closed (lockqueue.h:22-23, 29-30, 43-44).
NoSleepOverWork == writer = "waiting" => queue = <<>> /\ ~isClose

\* A line that was pushed is written: whatever the destructor does
\* (logger.cc:39-65).
LinesWritten == \A l \in Lines : l \in Elems(accepted) ~> l \in Elems(file)

\* The destructor comes to its end (logger.cc:29-37).
DestructorEnds == isExit ~> dtor = "gone"
=============================================================================
