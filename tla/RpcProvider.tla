------------------------------ MODULE RpcProvider ------------------------------
(***************************************************************************)
(* RpcProvider::OnMessage on one connection.  The client sends a stream of *)
(* request frames                                                          *)
(*                                                                         *)
(*   | LenSize bytes: size of the header | header | arguments |            *)
(*                                                                         *)
(* the header tells the size of the arguments; the stream arrives in       *)
(* pieces of any size, in the input buffer (a ByteQueue), and after each   *)
(* piece the loop thread runs OnMessage.  A byte is known by its place in  *)
(* the stream: frame i ends with byte End[i].  A frame is shorter than     *)
(* 2^31 bytes, as protobuf's messages are, so that its 32-bit size does    *)
(* not wrap.  A service may run its closure at once or later, on any       *)
(* thread.                                                                 *)
(***************************************************************************)
EXTENDS Naturals, Sequences

CONSTANTS
  N,         \* how many frames the client sends
  LenSize,   \* 4 in the code
  Header,    \* per frame: the size of its header
  End        \* per frame: where it ends in the stream

ASSUME StreamAssumption ==
  /\ N \in Nat
  /\ LenSize \in Nat \ {0}
  /\ Header \in [1 .. N -> Nat]
  /\ End \in [0 .. N -> Nat]
  /\ End[0] = 0
  /\ \A i \in 1 .. N : \A h \in 0 .. i - 1 : End[h] + LenSize + Header[i] <= End[i]

Kinds == {"good",       \* it reaches a method
          "badHeader",  \* the header cannot be parsed
          "badBody"}    \* unknown service or method, or unparsable arguments

VARIABLES
  kind,        \* what the client sends, frame by frame
  arrived,     \* bytes that readFd put into the input buffer
  retrieved,   \* bytes that OnMessage took out of it
  at,          \* the loop thread: "idle", at the top of the while loop ("parse"),
               \* or between CallMethod and retrieve ("called")
  state,       \* the connection: "up", "shut" (shutdown() was called), "down"
  dispatched,  \* the frames for which CallMethod was called, in order
  open,        \* those whose closure has not run
  answered     \* those whose response was handed to conn->send, in order

vars == <<kind, arrived, retrieved, at, state, dispatched, open, answered>>

Elems(s) == {s[i] : i \in DOMAIN s}

TypeOK ==
  /\ kind \in [1 .. N -> Kinds]
  /\ arrived \in 0 .. End[N]
  /\ retrieved \in 0 .. arrived
  /\ at \in {"idle", "parse", "called"}
  /\ state \in {"up", "shut", "down"}
  /\ dispatched \in Seq(1 .. N)
  /\ open \subseteq 1 .. N
  /\ answered \in Seq(1 .. N)

Init ==
  /\ kind \in [1 .. N -> Kinds]
  /\ arrived = 0
  /\ retrieved = 0
  /\ at = "idle"
  /\ state = "up"
  /\ dispatched = <<>>
  /\ open = {}
  /\ answered = <<>>
-----------------------------------------------------------------------------
(* The input buffer *)

Readable == arrived - retrieved

\* The frame that starts with the first readable byte.
Starts(i) == i \in 1 .. N /\ End[i - 1] = retrieved

HasHeader(i) == Readable >= LenSize + Header[i]

TotalSize(i) == End[i] - End[i - 1]

\* Broken variant: waits for one byte more.
IsWholeAndMore(i) == Readable > TotalSize(i)
IsWhole(i) == Readable >= TotalSize(i)

\* Broken variant: the length field is not counted.
RetrieveForgetsLength(i) == retrieved' = retrieved + (TotalSize(i) - LenSize)
\* Buffer::retrieve: at most what is readable.
RetrieveFrame(i) ==
  retrieved' = IF TotalSize(i) >= Readable THEN arrived ELSE retrieved + TotalSize(i)
-----------------------------------------------------------------------------
(* OnMessage *)

\* handleRead: a piece of the stream arrives; shutdown() does not end reading.
Receive(n) ==
  /\ at = "idle"
  /\ state # "down"
  /\ n \in 1 .. (End[N] - arrived)
  /\ arrived' = arrived + n
  /\ at' = "parse"
  /\ UNCHANGED <<kind, retrieved, state, dispatched, open, answered>>

\* One of the three comparisons of readableBytes() fails: wait for more.
NeedMore ==
  /\ at = "parse"
  /\ \/ Readable < LenSize
     \/ \E i \in 1 .. N : Starts(i) /\ ~HasHeader(i)
     \/ \E i \in 1 .. N : Starts(i) /\ kind[i] # "badHeader" /\ ~IsWhole(i)
  /\ at' = "idle"
  /\ UNCHANGED <<kind, arrived, retrieved, state, dispatched, open, answered>>

MustReject(i) ==
  \/ kind[i] = "badHeader" /\ HasHeader(i)
  \/ kind[i] = "badBody" /\ IsWhole(i)

\* shutdown() has an effect on a connected connection only.
ShutDown == state' = IF state = "up" THEN "shut" ELSE state

\* Broken variant: the frame is skipped and the next one served.
RejectSkips(i) ==
  /\ at = "parse"
  /\ Starts(i)
  /\ MustReject(i)
  /\ ShutDown
  /\ RetrieveFrame(i)
  /\ UNCHANGED <<kind, arrived, at, dispatched, open, answered>>

\* An error ends OnMessage; the frame stays in the buffer, to be rejected again
\* if more bytes arrive.
Reject(i) ==
  /\ at = "parse"
  /\ Starts(i)
  /\ MustReject(i)
  /\ ShutDown
  /\ at' = "idle"
  /\ UNCHANGED <<kind, arrived, retrieved, dispatched, open, answered>>

CanServe(i) == kind[i] = "good" /\ IsWhole(i)

\* CallMethod with a closure that holds request, response and connection.
Dispatch(i) ==
  /\ at = "parse"
  /\ Starts(i)
  /\ CanServe(i)
  /\ dispatched' = Append(dispatched, i)
  /\ open' = open \cup {i}
  /\ at' = "called"
  /\ UNCHANGED <<kind, arrived, retrieved, state, answered>>

\* Broken variant: one frame per call of OnMessage.
RetireOnce ==
  /\ at = "called"
  /\ RetrieveFrame(dispatched[Len(dispatched)])
  /\ at' = "idle"
  /\ UNCHANGED <<kind, arrived, state, dispatched, open, answered>>

\* retrieve, and back to the top of the loop.
Retire ==
  /\ at = "called"
  /\ RetrieveFrame(dispatched[Len(dispatched)])
  /\ at' = "parse"
  /\ UNCHANGED <<kind, arrived, state, dispatched, open, answered>>
-----------------------------------------------------------------------------
(* The closure, and the end of the connection *)

\* RpcProviderClosure::Run and SendRpcResponse.  The response may fail to
\* serialize; send() drops it when the connection is not connected.
Answer(i) ==
  /\ i \in open
  /\ open' = open \ {i}
  /\ \/ /\ answered' = IF state = "up" THEN Append(answered, i) ELSE answered
        /\ UNCHANGED state
     \/ ShutDown /\ UNCHANGED answered
  /\ UNCHANGED <<kind, arrived, retrieved, at, dispatched>>

\* handleClose; OnConnection calls shutdown(), which does nothing any more.
Down ==
  /\ at = "idle"
  /\ state # "down"
  /\ state' = "down"
  /\ UNCHANGED <<kind, arrived, retrieved, at, dispatched, open, answered>>
-----------------------------------------------------------------------------
OnMessage ==
  \/ NeedMore
  \/ \E i \in 1 .. N : Reject(i) \/ Dispatch(i)
  \/ Retire

Next ==
  \/ \E n \in 1 .. End[N] : Receive(n)
  \/ OnMessage
  \/ \E i \in 1 .. N : Answer(i)
  \/ Down

Spec == Init /\ [][Next]_vars

\* The loop thread goes on, and services run their closures.  Nothing is assumed
\* of the client.
ClosureFair(i) == WF_vars(Answer(i))
ClosuresFair == \A i \in 1 .. N : ClosureFair(i)

Fairness == WF_vars(OnMessage) /\ ClosuresFair

FairSpec == Spec /\ Fairness
-----------------------------------------------------------------------------
(* Properties *)

\* However the stream is cut, the frames are dispatched from the first on, each
\* once, and the buffer always starts where a frame starts
\* (rpcprovider.cc:134-214).
InStep ==
  /\ \A k \in 1 .. Len(dispatched) : dispatched[k] = k
  /\ retrieved = End[IF at = "called" THEN Len(dispatched) - 1 ELSE Len(dispatched)]

\* No frame is served past one that was rejected, also when the client goes on
\* sending after the shutdown (rpcprovider.cc:151-200).
NothingPastReject ==
  \A i \in Elems(dispatched) : \A j \in 1 .. i : kind[j] = "good"

\* When OnMessage returns, it has served every frame that has wholly arrived:
\* none waits for bytes of the next one (rpcprovider.cc:134-147, 213).
NothingLeftBehind ==
  \A i \in 1 .. N :
    at = "idle" /\ i = Len(dispatched) + 1 /\ kind[i] = "good" => arrived < End[i]

\* A frame that has arrived behind good ones is served, and then answered
\* unless the connection ended first (rpcprovider.cc:35-41, 208, 217-229).
Served ==
  \A i \in 1 .. N :
    (arrived >= End[i] /\ \A j \in 1 .. i : kind[j] = "good")
      ~> (i \in Elems(answered) \/ state # "up")
=============================================================================
