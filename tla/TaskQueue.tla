------------------------------ MODULE TaskQueue ------------------------------
(***************************************************************************)
(* What an EventLoop promises to a thread that hands it work, whatever the *)
(* interleaving of threads, eventfd writes and epoll_wait returns: each    *)
(* functor that was queued is run at most once, the functors are run in    *)
(* the order in which they were queued, and none is run once the loop has  *)
(* stopped.  EventLoop.tla is shown to implement this specification.       *)
(***************************************************************************)
EXTENDS Sequences

CONSTANT Tasks      \* the functors; each is a distinct object

VARIABLES todo,     \* queued and not yet started, oldest first
          ran,      \* started, in the order in which they were started
          open      \* FALSE once the loop has stopped

vars == <<todo, ran, open>>

Elems(s) == {s[i] : i \in DOMAIN s}

Init ==
  /\ todo = <<>>
  /\ ran = <<>>
  /\ open = TRUE

\* A functor is queued once, also after the loop has stopped: nobody runs it.
Submit(t) ==
  /\ t \notin Elems(todo) \cup Elems(ran)
  /\ todo' = Append(todo, t)
  /\ UNCHANGED <<ran, open>>

RunNext ==
  /\ open
  /\ todo # <<>>
  /\ ran' = Append(ran, Head(todo))
  /\ todo' = Tail(todo)
  /\ UNCHANGED open

Stop ==
  /\ open
  /\ open' = FALSE
  /\ UNCHANGED <<todo, ran>>

Next == (\E t \in Tasks : Submit(t)) \/ RunNext \/ Stop

Spec == Init /\ [][Next]_vars
=============================================================================
