----------------------------- MODULE EPollPoller -----------------------------
(***************************************************************************)
(* A Channel and its registration with the epoll instance of its loop.     *)
(* index_ is what the poller remembers of the channel, epoll what the      *)
(* kernel knows: each updateChannel must choose EPOLL_CTL_ADD, MOD or DEL  *)
(* so that the two agree, or epoll_ctl fails.                              *)
(***************************************************************************)
EXTENDS FiniteSets

Events == {"read", "write"}
Indices == {"kNew", "kAdded", "kDeleted"}

Channels == [events     : SUBSET Events,     \* events_
             index      : Indices,           \* index_
             registered : BOOLEAN,           \* the fd is in the epoll set
             interest   : SUBSET Events]     \* with these events

NewChannel == [events |-> {}, index |-> "kNew", registered |-> FALSE, interest |-> {}]

IsWriting(c) == "write" \in c.events

\* What epoll_ctl does: ADD wants an fd that is not registered, MOD and DEL one
\* that is; otherwise it fails and changes nothing (LOG_FATAL or LOG_ERROR).
CtlAdd(c) == IF c.registered THEN c
             ELSE [c EXCEPT !.registered = TRUE, !.interest = c.events]
CtlMod(c) == IF c.registered THEN [c EXCEPT !.interest = c.events] ELSE c
CtlDel(c) == [c EXCEPT !.registered = FALSE, !.interest = {}]

\* A channel that is not kAdded is added whatever its events are, also when
\* they are empty.
UpdateChannel(c) ==
  IF c.index # "kAdded" THEN CtlAdd([c EXCEPT !.index = "kAdded"])
  ELSE IF c.events = {}  THEN CtlDel([c EXCEPT !.index = "kDeleted"])
  ELSE CtlMod(c)

RemoveChannel(c) ==
  [(IF c.index = "kAdded" THEN CtlDel(c) ELSE c) EXCEPT !.index = "kNew"]

AbleRead(c)     == UpdateChannel([c EXCEPT !.events = @ \cup {"read"}])
AbleWrite(c)    == UpdateChannel([c EXCEPT !.events = @ \cup {"write"}])
DisableWrite(c) == UpdateChannel([c EXCEPT !.events = @ \ {"write"}])
DisableAll(c)   == UpdateChannel([c EXCEPT !.events = {}])

\* index_, events_ and the kernel tell the same story.
Coherent(c) ==
  /\ c.registered <=> c.index = "kAdded"
  /\ c.registered => c.interest = c.events
=============================================================================
