------------------------------- MODULE RpcCall --------------------------------
(***************************************************************************)
(* MprpcChannel::CallMethod: look the method's address up, connect, send   *)
(* the request, receive once, parse, close.  Each call has a connection of *)
(* its own.  It runs against the providers of Registry, which may crash,   *)
(* and over a network that delivers an answer in pieces.                   *)
(*                                                                         *)
(* An answer is known by its size.  protobuf parses the empty string as a  *)
(* message whose fields are all absent; a proper prefix of a message it    *)
(* may parse or not.  The sockets block; SIGPIPE is ignored.               *)
(***************************************************************************)
EXTENDS Registry

CONSTANTS
  Calls,       \* calls of CallMethod
  Sizes,       \* the sizes that a serialized response may have
  BufSize,     \* 1024 in the code
  NoAnswer,    \* the provider has not answered
  NoProvider   \* the call is not connected

ASSUME CallAssumption ==
  /\ Sizes \subseteq Nat
  /\ BufSize \in Nat \ {0}
  /\ NoAnswer \notin Sizes
  /\ NoProvider \notin Providers

VARIABLES
  pc,          \* per call, where CallMethod is; "done" when it has returned
  addr,        \* the provider whose address was looked up
  fd,          \* clientfd: "none", "open", "closed"
  link,        \* the provider's end: "none", "up", "ended" (FIN), "reset"
  asked,       \* whether the request was sent
  answer,      \* the size of the response that the provider sent, or NoAnswer
  came,        \* how many bytes of it have come to the caller
  failed,      \* whether controller->SetFailed was called
  got          \* how many bytes were parsed into the response

callVars == <<pc, addr, fd, link, asked, answer, came, failed, got>>

vars == <<regVars, callVars>>

TypeOK ==
  /\ RegTypeOK
  /\ pc \in [Calls -> {"start", "lookup", "socket", "connect", "send", "recv", "done"}]
  /\ addr \in [Calls -> Providers \cup {NoProvider}]
  /\ fd \in [Calls -> {"none", "open", "closed"}]
  /\ link \in [Calls -> {"none", "up", "ended", "reset"}]
  /\ asked \in [Calls -> BOOLEAN]
  /\ answer \in [Calls -> Sizes \cup {NoAnswer}]
  /\ failed \in [Calls -> BOOLEAN]
  /\ came \in [Calls -> Nat] /\ got \in [Calls -> Nat]
  /\ \A c \in Calls : answer[c] = NoAnswer => came[c] = 0
  /\ \A c \in Calls : answer[c] # NoAnswer => came[c] \in 0 .. answer[c]
  /\ \A c \in Calls : got[c] \in 0 .. BufSize /\ got[c] <= came[c]

Init ==
  /\ RegInit
  /\ pc = [c \in Calls |-> "start"]
  /\ addr = [c \in Calls |-> NoProvider]
  /\ fd = [c \in Calls |-> "none"]
  /\ link = [c \in Calls |-> "none"]
  /\ asked = [c \in Calls |-> FALSE]
  /\ answer = [c \in Calls |-> NoAnswer]
  /\ came = [c \in Calls |-> 0]
  /\ failed = [c \in Calls |-> FALSE]
  /\ got = [c \in Calls |-> 0]
-----------------------------------------------------------------------------
(* CallMethod.  RPC failures are told by the controller. *)

At(c, here) == pc[c] = here

Continue(c, there) ==
  /\ pc' = [pc EXCEPT ![c] = there]
  /\ UNCHANGED failed

Fail(c) ==
  /\ pc' = [pc EXCEPT ![c] = "done"]
  /\ failed' = [failed EXCEPT ![c] = TRUE]

Closes(c) == fd' = [fd EXCEPT ![c] = IF @ = "open" THEN "closed" ELSE @]

\* The request, or its header, may fail to serialize.
Serialize(c) ==
  /\ At(c, "start")
  /\ Continue(c, "lookup") \/ Fail(c)
  /\ UNCHANGED <<addr, fd, link, asked, answer, came, got>>

\* GetData on a session of its own; the provider's address is well formed.
Lookup(c) ==
  /\ At(c, "lookup")
  /\ IF method = NoSession
       THEN Fail(c) /\ UNCHANGED addr
       ELSE Continue(c, "socket") /\ addr' = [addr EXCEPT ![c] = method[1]]
  /\ UNCHANGED <<fd, link, asked, answer, came, got>>

Socket(c) ==
  /\ At(c, "socket")
  /\ \/ Continue(c, "connect") /\ fd' = [fd EXCEPT ![c] = "open"]
     \/ Fail(c) /\ UNCHANGED fd
  /\ UNCHANGED <<addr, link, asked, answer, came, got>>

\* Broken variant: the socket is not closed when the connection fails.
ConnectLeaks(c) ==
  /\ At(c, "connect")
  /\ IF run[addr[c]] = "serving"
       THEN Continue(c, "send") /\ link' = [link EXCEPT ![c] = "up"]
       ELSE Fail(c) /\ UNCHANGED link
  /\ UNCHANGED <<addr, fd, asked, answer, came, got>>

\* The address may be that of a provider that is gone, or not yet listening.
Connect(c) ==
  /\ At(c, "connect")
  /\ IF run[addr[c]] = "serving"
       THEN Continue(c, "send") /\ link' = [link EXCEPT ![c] = "up"] /\ UNCHANGED fd
       ELSE Fail(c) /\ Closes(c) /\ UNCHANGED link
  /\ UNCHANGED <<addr, asked, answer, came, got>>

\* send fails on a connection that was reset; otherwise it may still be lost.
Send(c) ==
  /\ At(c, "send")
  /\ IF link[c] = "reset"
       THEN Fail(c) /\ Closes(c) /\ UNCHANGED asked
       ELSE Continue(c, "recv") /\ asked' = [asked EXCEPT ![c] = TRUE] /\ UNCHANGED fd
  /\ UNCHANGED <<addr, link, answer, came, got>>

\* Everything that the provider sent has come.
Exhausted(c) == answer[c] = NoAnswer \/ came[c] = answer[c]

\* Broken variant: waits until the provider closes or the buffer is full.
CanRecvAll(c) == came[c] >= BufSize \/ link[c] = "reset" \/ (link[c] = "ended" /\ Exhausted(c))
\* recv without flags returns with the bytes that are there, with 0 at the end of
\* the stream, and with -1 on a connection that was reset.
CanRecv(c) == came[c] > 0 \/ link[c] = "reset" \/ (link[c] = "ended" /\ Exhausted(c))

\* What one recv takes.
Received(c) == IF came[c] < BufSize THEN came[c] ELSE BufSize

\* A cut response may happen to parse.
ParseMayFail(c) == Received(c) # 0 /\ Received(c) # answer[c]

Recv(c) ==
  /\ At(c, "recv")
  /\ CanRecv(c)
  /\ IF came[c] = 0 /\ link[c] = "reset"
       THEN Fail(c) /\ UNCHANGED got
       ELSE \/ Continue(c, "done") /\ got' = [got EXCEPT ![c] = Received(c)]
            \/ ParseMayFail(c) /\ Fail(c) /\ UNCHANGED got
  /\ Closes(c)
  /\ UNCHANGED <<addr, link, asked, answer, came>>

CallMethod(c) ==
  Serialize(c) \/ Lookup(c) \/ Socket(c) \/ Connect(c) \/ Send(c) \/ Recv(c)
-----------------------------------------------------------------------------
(* The providers, and the network *)

\* The closure runs: the response is sent.  Nothing is sent of an empty one.
Answer(c) ==
  /\ link[c] = "up" /\ asked[c] /\ answer[c] = NoAnswer
  /\ \E s \in Sizes : answer' = [answer EXCEPT ![c] = s]
  /\ UNCHANGED <<regVars, pc, addr, fd, link, asked, came, failed, got>>

\* OnMessage finds the request wrong, or the response does not serialize:
\* conn->shutdown().
Refuse(c) ==
  /\ link[c] = "up" /\ asked[c] /\ answer[c] = NoAnswer
  /\ link' = [link EXCEPT ![c] = "ended"]
  /\ UNCHANGED <<regVars, pc, addr, fd, asked, answer, came, failed, got>>

\* A provider that crashes drops its connections, some with a reset.
ProviderCrash(p) ==
  /\ Crash(p)
  /\ \E R \in SUBSET {c \in Calls : addr[c] = p /\ link[c] = "up"} :
       link' = [c \in Calls |->
                  IF addr[c] = p /\ link[c] = "up"
                    THEN IF c \in R THEN "reset" ELSE "ended"
                    ELSE link[c]]
  /\ UNCHANGED <<pc, addr, fd, asked, answer, came, failed, got>>

\* Some more of an answer comes.
Arrive(c) ==
  /\ answer[c] # NoAnswer /\ link[c] # "reset" /\ fd[c] = "open"
  /\ \E n \in (came[c] + 1) .. answer[c] : came' = [came EXCEPT ![c] = n]
  /\ UNCHANGED <<regVars, pc, addr, fd, link, asked, answer, failed, got>>
-----------------------------------------------------------------------------
RegStep == RegNext /\ UNCHANGED callVars

CallStep(c) == CallMethod(c) /\ UNCHANGED regVars

Next ==
  \/ RegStep
  \/ \E c \in Calls : CallStep(c) \/ Answer(c) \/ Refuse(c) \/ Arrive(c)
  \/ \E p \in Providers : ProviderCrash(p)

Spec == Init /\ [][Next]_vars

\* A caller's thread is scheduled, and TCP delivers.  A provider need not answer.
CallFair(c) == WF_vars(CallStep(c)) /\ WF_vars(Arrive(c))

Fairness ==
  /\ RegFairness
  /\ \A c \in Calls : CallFair(c)

FairSpec == Spec /\ Fairness
-----------------------------------------------------------------------------
(* Properties *)

\* Every way out of CallMethod leaves no socket open (mprpcchannel.cc:82-138).
NoLeak == \A c \in Calls : pc[c] = "done" => fd[c] # "open"

\* A call returns when the provider has sent a byte or the connection has ended;
\* no step waits for more than that (mprpcchannel.cc:117-139).
Returns ==
  \A c \in Calls :
    (link[c] \in {"ended", "reset"} \/ (answer[c] # NoAnswer /\ answer[c] > 0))
      ~> pc[c] = "done"
=============================================================================
