----------------------------- MODULE RpcCallProofs -----------------------------
(***************************************************************************)
(* Theorems about Registry and RpcCall, for any numbers of providers,      *)
(* starts and calls, any sizes of responses and any receive buffer: type   *)
(* correctness, no socket left open, a lone provider is registered, how a  *)
(* registration is lost, whose the node is, and what a call tells its      *)
(* caller.  Then what must happen, from the steps that fairness is about:  *)
(* the address of a dead provider goes, and a call returns.                *)
(***************************************************************************)
EXTENDS RpcCall, TLAPS

LEMMA TypeInit == Init => TypeOK
<1> SUFFICES ASSUME Init PROVE TypeOK
  OBVIOUS
<1>1. starts \in [Providers -> 0 .. MaxStarts]
  BY RegistryAssumption DEF Init, RegInit
<1>2. service \in BOOLEAN /\ method \in Sessions \cup {NoSession} /\ live \subseteq Sessions
  BY DEF Init, RegInit
<1>3. run \in [Providers -> Phases]
  BY DEF Init, RegInit, Phases
<1> QED  BY <1>1, <1>2, <1>3, CallAssumption DEF Init, TypeOK, RegTypeOK

\* A session that ZooKeeper knows is one that can own a node.
LEMMA TypeRegStep ==
  ASSUME TypeOK, RegNext
  PROVE  RegTypeOK'
<1> USE DEF GoesTo, Phases
<1>1. ASSUME NEW p \in Providers, Start(p)
      PROVE  RegTypeOK'
  <2>1. starts[p] + 1 \in 1 .. MaxStarts
    BY <1>1, RegistryAssumption DEF Start, TypeOK, RegTypeOK
  <2>2. live' \subseteq Sessions
    BY <1>1, <2>1 DEF Start, TypeOK, RegTypeOK, Sessions
  <2>3. starts' \in [Providers -> 0 .. MaxStarts]
    BY <1>1, <2>1, RegistryAssumption DEF Start, TypeOK, RegTypeOK
  <2> QED  BY <1>1, <2>2, <2>3 DEF Start, TypeOK, RegTypeOK
<1>2. ASSUME NEW p \in Providers, CheckService(p) \/ CheckMethod(p)
      PROVE  RegTypeOK'
  BY <1>2 DEF CheckService, CheckMethod, TypeOK, RegTypeOK, Sessions
<1>3. ASSUME NEW p \in Providers, CreateService(p)
      PROVE  RegTypeOK'
  BY <1>3 DEF CreateService, TypeOK, RegTypeOK, Sessions
<1>4. ASSUME NEW p \in Providers, CreateMethod(p)
      PROVE  RegTypeOK'
  <2>1. method' \in Sessions \cup {NoSession}
    BY <1>4 DEF CreateMethod, Connected, TypeOK, RegTypeOK
  <2> QED  BY <1>4, <2>1 DEF CreateMethod, TypeOK, RegTypeOK, Sessions
<1>5. ASSUME NEW x \in Sessions, Expire(x)
      PROVE  RegTypeOK'
  BY <1>5 DEF Expire, TypeOK, RegTypeOK
<1> QED  BY <1>1, <1>2, <1>3, <1>4, <1>5, RegNext DEF RegNext, Register

LEMMA TypeCallStep ==
  ASSUME TypeOK, NEW c \in Calls, CallStep(c)
  PROVE  TypeOK'
<1> USE DEF CallStep, At, Continue, Fail, Closes, regVars
<1>0. RegTypeOK'
  BY DEF TypeOK, RegTypeOK, Sessions
<1>1. CASE Serialize(c)
  BY <1>0, <1>1 DEF Serialize, TypeOK
<1>2. CASE Lookup(c)
  <2>1. addr' \in [Calls -> Providers \cup {NoProvider}]
    BY <1>2 DEF Lookup, TypeOK, RegTypeOK, Sessions
  <2> QED  BY <1>0, <1>2, <2>1 DEF Lookup, TypeOK
<1>3. CASE Socket(c)
  BY <1>0, <1>3 DEF Socket, TypeOK
<1>4. CASE Connect(c)
  BY <1>0, <1>4 DEF Connect, TypeOK
<1>5. CASE Send(c)
  BY <1>0, <1>5 DEF Send, TypeOK
<1>6. CASE Recv(c)
  <2>1. Received(c) \in 0 .. BufSize /\ Received(c) <= came[c]
    BY CallAssumption DEF Received, TypeOK
  <2>2. /\ got' \in [Calls -> Nat]
        /\ \A d \in Calls : got'[d] \in 0 .. BufSize /\ got'[d] <= came[d]
    BY <1>6, <2>1, CallAssumption DEF Recv, TypeOK
  <2>3. fd' \in [Calls -> {"none", "open", "closed"}]
    BY <1>6 DEF Recv, TypeOK
  <2>4. /\ pc' \in [Calls -> {"start", "lookup", "socket", "connect", "send", "recv", "done"}]
        /\ failed' \in [Calls -> BOOLEAN]
    BY <1>6 DEF Recv, TypeOK
  <2>5. UNCHANGED <<addr, link, asked, answer, came>>
    BY <1>6 DEF Recv
  <2> QED  BY <1>0, <2>2, <2>3, <2>4, <2>5 DEF TypeOK
<1> QED  BY <1>1, <1>2, <1>3, <1>4, <1>5, <1>6 DEF CallMethod

LEMMA TypeWorld ==
  ASSUME TypeOK, NEW c \in Calls, Answer(c) \/ Refuse(c) \/ Arrive(c)
  PROVE  TypeOK'
<1>0. RegTypeOK'
  BY DEF Answer, Refuse, Arrive, regVars, TypeOK, RegTypeOK, Sessions
<1>1. CASE Answer(c)
  <2>1. PICK s \in Sizes : answer' = [answer EXCEPT ![c] = s]
    BY <1>1 DEF Answer
  <2>2. s \in Nat /\ s # NoAnswer /\ came[c] = 0
    BY <1>1, CallAssumption DEF Answer, TypeOK
  <2> QED  BY <1>0, <1>1, <2>1, <2>2 DEF Answer, TypeOK
<1>2. CASE Refuse(c)
  BY <1>0, <1>2 DEF Refuse, TypeOK
<1>3. CASE Arrive(c)
  <2>1. answer[c] \in Nat
    BY <1>3, CallAssumption DEF Arrive, TypeOK
  <2>2. PICK n \in (came[c] + 1) .. answer[c] : came' = [came EXCEPT ![c] = n]
    BY <1>3 DEF Arrive
  <2>3. n \in Nat /\ came[c] < n /\ n <= answer[c]
    BY <2>1, <2>2 DEF TypeOK
  <2>4. came' \in [Calls -> Nat]
    BY <2>2, <2>3 DEF TypeOK
  <2>5. \A d \in Calls : answer[d] # NoAnswer => came'[d] \in 0 .. answer[d]
    BY <2>1, <2>2, <2>3 DEF TypeOK
  <2>6. \A d \in Calls : answer[d] = NoAnswer => came'[d] = 0
    BY <1>3, <2>2 DEF Arrive, TypeOK
  <2>7. \A d \in Calls : got[d] <= came'[d]
    BY <2>2, <2>3 DEF TypeOK
  <2> QED  BY <1>0, <1>3, <2>4, <2>5, <2>6, <2>7 DEF Arrive, TypeOK
<1> QED  BY <1>1, <1>2, <1>3

LEMMA TypeCrash ==
  ASSUME TypeOK, NEW p \in Providers, ProviderCrash(p)
  PROVE  TypeOK'
<1>1. RegTypeOK'
  BY DEF ProviderCrash, Crash, GoesTo, Phases, TypeOK, RegTypeOK, Sessions
<1>2. link' \in [Calls -> {"none", "up", "ended", "reset"}]
  BY DEF ProviderCrash, TypeOK
<1> QED  BY <1>1, <1>2 DEF ProviderCrash, TypeOK

LEMMA TypeNext == TypeOK /\ [Next]_vars => TypeOK'
<1> SUFFICES ASSUME TypeOK, [Next]_vars PROVE TypeOK'
  OBVIOUS
<1>1. CASE RegStep
  <2>1. RegTypeOK'
    BY <1>1, TypeRegStep DEF RegStep
  <2> QED  BY <1>1, <2>1 DEF RegStep, callVars, TypeOK
<1>2. CASE UNCHANGED vars
  BY <1>2 DEF vars, regVars, callVars, TypeOK, RegTypeOK, Sessions
<1> QED  BY <1>1, <1>2, TypeCallStep, TypeWorld, TypeCrash DEF Next

\* Registry and calls keep their types: no call parses more than has come or than
\* its buffer holds (mprpcchannel.cc:117-128).
THEOREM TypeCorrect == Spec => []TypeOK
<1> QED  BY TypeInit, TypeNext, PTL DEF Spec
-----------------------------------------------------------------------------
(* Sockets *)

\* A socket is open only while CallMethod stands between socket() and a return.
SocketInv == \A c \in Calls : fd[c] = "open" => pc[c] \in {"connect", "send", "recv"}

LEMMA SocketCall ==
  ASSUME TypeOK, SocketInv, NEW c \in Calls, CallStep(c)
  PROVE  SocketInv'
<1> USE DEF CallStep, At, Continue, Fail, Closes, SocketInv, TypeOK
<1>1. CASE Serialize(c)
  BY <1>1 DEF Serialize
<1>2. CASE Lookup(c)
  BY <1>2 DEF Lookup
<1>3. CASE Socket(c)
  BY <1>3 DEF Socket
<1>4. CASE Connect(c)
  BY <1>4 DEF Connect
<1>5. CASE Send(c)
  BY <1>5 DEF Send
<1>6. CASE Recv(c)
  BY <1>6 DEF Recv
<1> QED  BY <1>1, <1>2, <1>3, <1>4, <1>5, <1>6 DEF CallMethod

LEMMA SocketNext == TypeOK /\ SocketInv /\ [Next]_vars => SocketInv'
<1> SUFFICES ASSUME TypeOK, SocketInv, [Next]_vars PROVE SocketInv'
  OBVIOUS
<1>1. CASE UNCHANGED <<pc, fd>>
  BY <1>1 DEF SocketInv
<1>2. \/ \E c \in Calls : CallStep(c)
      \/ UNCHANGED <<pc, fd>>
  BY DEF Next, RegStep, Answer, Refuse, Arrive, ProviderCrash, vars, callVars
<1> QED  BY <1>1, <1>2, SocketCall

\* Whatever fails, CallMethod returns with its socket closed (mprpcchannel.cc:82-138).
THEOREM NoSocketLeaks == Spec => []NoLeak
<1>1. Init => SocketInv
  BY DEF Init, SocketInv
<1>2. SocketInv => NoLeak
  BY DEF SocketInv, NoLeak
<1> QED  BY <1>1, <1>2, TypeCorrect, SocketNext, PTL DEF Spec
-----------------------------------------------------------------------------
(* Registration *)

\* p is in its first run, and nobody else has ever been started.
Lone(p) == starts[p] = 1 /\ \A q \in Providers \ {p} : starts[q] = 0

\* A node's owner was started; so the lone provider finds no method node, and what
\* is there when it serves it has created itself, unless its session is over.
RegInv ==
  /\ \A p \in Providers : starts[p] = 0 => run[p] = "off"
  /\ method # NoSession => method[2] <= starts[method[1]]
  /\ \A p \in Providers :
       Lone(p) =>
         /\ run[p] \in {"checkService", "createService", "checkMethod", "createMethod"}
              => method = NoSession
         /\ run[p] = "serving" /\ Connected(p) => method = Session(p)

LEMMA RegInvNext == TypeOK /\ RegInv /\ [Next]_vars => RegInv'
<1> SUFFICES ASSUME TypeOK, RegInv, [Next]_vars PROVE RegInv'
  OBVIOUS
<1> USE RegistryAssumption DEF GoesTo, TypeOK, RegTypeOK, Sessions, Lone, Connected, Session
<1>1. ASSUME NEW p \in Providers, Start(p)
      PROVE  RegInv'
  <2>1. \A q \in Providers : starts'[q] = 0 => run'[q] = "off"
    BY <1>1 DEF Start, RegInv
  <2>2. method' # NoSession => method'[2] <= starts'[method'[1]]
    BY <1>1 DEF Start, RegInv
  <2>3. ASSUME NEW q \in Providers, Lone(q)'
        PROVE  q = p /\ method = NoSession
    BY <1>1, <2>3 DEF Start, RegInv
  <2> QED  BY <1>1, <2>1, <2>2, <2>3 DEF Start, RegInv
<1>2. ASSUME NEW p \in Providers, CheckService(p)
      PROVE  RegInv'
  BY <1>2 DEF CheckService, RegInv
<1>3. ASSUME NEW p \in Providers, CreateService(p)
      PROVE  RegInv'
  BY <1>3 DEF CreateService, RegInv
<1>4. ASSUME NEW p \in Providers, CheckMethod(p)
      PROVE  RegInv'
  BY <1>4 DEF CheckMethod, RegInv
<1>5. ASSUME NEW p \in Providers, CreateMethod(p)
      PROVE  RegInv'
  BY <1>5 DEF CreateMethod, RegInv
<1>6. ASSUME NEW x \in Sessions, Expire(x)
      PROVE  RegInv'
  BY <1>6 DEF Expire, RegInv
<1>7. ASSUME NEW p \in Providers, Crash(p)
      PROVE  RegInv'
  BY <1>7 DEF Crash, RegInv
<1>8. CASE UNCHANGED regVars
  BY <1>8 DEF regVars, RegInv
<1>9. \/ RegNext
      \/ \E p \in Providers : Crash(p)
      \/ UNCHANGED regVars
  BY DEF Next, RegStep, CallStep, Answer, Refuse, Arrive, ProviderCrash, vars
<1> QED  BY <1>1, <1>2, <1>3, <1>4, <1>5, <1>6, <1>7, <1>8, <1>9 DEF RegNext, Register

\* A provider that is started for the first time, without a competitor, and serves
\* in a live session owns the method node.
LoneIsRegistered ==
  \A p \in Providers :
    /\ run[p] = "serving" /\ starts[p] = 1 /\ Connected(p)
    /\ \A q \in Providers \ {p} : starts[q] = 0
    => method = Session(p)

\* However often the others crash and start later, a provider that comes first is
\* in the registry before it serves (rpcprovider.cc:100-117).
THEOREM LoneProviderIsRegistered == Spec => []LoneIsRegistered
<1>1. Init => RegInv
  BY DEF Init, RegInit, RegInv, Lone
<1>2. RegInv => LoneIsRegistered
  BY DEF RegInv, LoneIsRegistered, Lone
<1> QED  BY <1>1, <1>2, TypeCorrect, RegInvNext, PTL DEF Spec
-----------------------------------------------------------------------------
(* The registry's nodes and sessions *)

\* The method node belongs to a session that ZooKeeper knows, and that was opened.
OwnerInv ==
  /\ method # NoSession => method \in live
  /\ method # NoSession => method[2] <= starts[method[1]]

LEMMA OwnerNext == TypeOK /\ OwnerInv /\ [Next]_vars => OwnerInv'
<1> SUFFICES ASSUME TypeOK, OwnerInv, [Next]_vars PROVE OwnerInv'
  OBVIOUS
<1> USE RegistryAssumption DEF GoesTo, TypeOK, RegTypeOK, Sessions, Connected, Session, OwnerInv
<1>1. ASSUME NEW p \in Providers, Start(p)
      PROVE  OwnerInv'
  BY <1>1 DEF Start
<1>2. ASSUME NEW p \in Providers, CheckService(p) \/ CheckMethod(p) \/ CreateService(p)
      PROVE  OwnerInv'
  BY <1>2 DEF CheckService, CheckMethod, CreateService
<1>3. ASSUME NEW p \in Providers, CreateMethod(p)
      PROVE  OwnerInv'
  BY <1>3 DEF CreateMethod
<1>4. ASSUME NEW x \in Sessions, Expire(x)
      PROVE  OwnerInv'
  BY <1>4 DEF Expire, NodeKind
<1>5. ASSUME NEW p \in Providers, Crash(p)
      PROVE  OwnerInv'
  BY <1>5 DEF Crash
<1>6. CASE UNCHANGED regVars
  BY <1>6 DEF regVars
<1>7. \/ RegNext
      \/ \E p \in Providers : Crash(p)
      \/ UNCHANGED regVars
  BY DEF Next, RegStep, CallStep, Answer, Refuse, Arrive, ProviderCrash, vars
<1> QED  BY <1>1, <1>2, <1>3, <1>4, <1>5, <1>6, <1>7 DEF RegNext, Register

\* The node a caller finds is never left over from a session that ZooKeeper has
\* already ended: it goes in the same step (zkclient.cc:68-92).
THEOREM OwnerLives == Spec => [](method # NoSession => method \in live)
<1>1. Init => OwnerInv
  BY DEF Init, RegInit, OwnerInv
<1>2. OwnerInv => (method # NoSession => method \in live)
  BY DEF OwnerInv
<1> QED  BY <1>1, <1>2, TypeCorrect, OwnerNext, PTL DEF Spec

LEMMA OwnerAlways == Spec => []OwnerInv
<1>1. Init => OwnerInv
  BY DEF Init, RegInit, OwnerInv
<1> QED  BY <1>1, TypeCorrect, OwnerNext, PTL DEF Spec

LEMMA UnregisteredStep ==
  ASSUME TypeOK, OwnerInv, [Next]_vars, NEW p \in Providers, ~Unregistered(p), Unregistered(p)'
  PROVE  method \in live \ live' /\ method # Session(p)
<1> USE RegistryAssumption DEF GoesTo, TypeOK, RegTypeOK, Sessions, Connected, Session, Unregistered
<1>1. ASSUME NEW q \in Providers, Start(q)
      PROVE  FALSE
  BY <1>1 DEF Start
<1>2. ASSUME NEW q \in Providers, CheckService(q) \/ CreateService(q)
      PROVE  FALSE
  BY <1>2 DEF CheckService, CreateService
<1>3. ASSUME NEW q \in Providers, CheckMethod(q)
      PROVE  FALSE
  BY <1>3 DEF CheckMethod
<1>4. ASSUME NEW q \in Providers, CreateMethod(q)
      PROVE  FALSE
  BY <1>4 DEF CreateMethod
<1>5. ASSUME NEW x \in Sessions, Expire(x)
      PROVE  method \in live \ live' /\ method # Session(p)
  <2>1. method = x /\ x \in live /\ x \notin live'
    BY <1>5 DEF Expire
  <2>2. x # Session(p)
    BY <1>5 DEF Expire
  <2> QED  BY <2>1, <2>2
<1>6. ASSUME NEW q \in Providers, Crash(q)
      PROVE  FALSE
  BY <1>6 DEF Crash
<1>7. CASE UNCHANGED regVars
  BY <1>7 DEF regVars
<1>8. \/ RegNext
      \/ \E q \in Providers : Crash(q)
      \/ UNCHANGED regVars
  BY DEF Next, RegStep, CallStep, Answer, Refuse, Arrive, ProviderCrash, vars
<1> QED  BY <1>1, <1>2, <1>3, <1>4, <1>5, <1>6, <1>7, <1>8 DEF RegNext, Register

\* What ServingIsRegistered does not cover, and nothing else, for any providers: the
\* session of a node that was found, and not created, ends.  So a provider that
\* created its node itself is in the registry for as long as it serves and its
\* session lives, whatever the others do (zkclient.cc:68-92).
THEOREM RegistrationLostOnlyThere == Spec => UnregisteredOnlyThere
<1>1. TypeOK /\ OwnerInv /\ [Next]_vars =>
        [\A p \in Providers :
           ~Unregistered(p) /\ Unregistered(p)' =>
             method \in live \ live' /\ method # Session(p)]_regVars
  BY UnregisteredStep
<1> QED  BY <1>1, TypeCorrect, OwnerAlways, PTL DEF Spec, UnregisteredOnlyThere

\* The address of a provider that is gone does not stay in the registry: its node
\* disappears with its session.
DeadAddressGoes ==
  \A x \in Sessions : method = x /\ ~InUse(x) ~> method # x

\* The hypothesis of the next theorem: ZooKeeper can end any session it knows.
ExpiryCanHappen ==
  \A x \in Sessions :
    x \in live /\ ~InUse(x) => ENABLED <<~InUse(x) /\ Expire(x)>>_regVars

\* A session out of use stays out of use: a provider that is started again opens a
\* new one.
LEMMA UnusedStays ==
  ASSUME NEW x \in Sessions, TypeOK, OwnerInv, method = x, ~InUse(x), [Next]_vars
  PROVE  (method = x /\ ~InUse(x))' \/ (method # x)'
<1> USE RegistryAssumption DEF GoesTo, TypeOK, RegTypeOK, Sessions, Session, InUse, OwnerInv
<1>0. x[1] \in Providers /\ x[2] \in Nat /\ x = <<x[1], x[2]>> /\ x # NoSession
  OBVIOUS
<1>1. ASSUME NEW p \in Providers, Start(p)
      PROVE  (method = x /\ ~InUse(x))' \/ (method # x)'
  <2>1. x[2] <= starts[x[1]]
    BY <1>0
  <2>2. CASE p = x[1]
    <3>1. starts'[p] = starts[p] + 1
      BY <1>1 DEF Start
    <3> QED  BY <1>0, <1>1, <2>1, <2>2, <3>1 DEF Start
  <2>3. CASE p # x[1]
    BY <1>0, <1>1, <2>3 DEF Start
  <2> QED  BY <2>2, <2>3
<1>2. ASSUME NEW p \in Providers, Register(p) \/ Crash(p)
      PROVE  (method = x /\ ~InUse(x))' \/ (method # x)'
  BY <1>0, <1>2 DEF Register, CheckService, CheckMethod, CreateService, CreateMethod, Crash
<1>3. ASSUME NEW y \in Sessions, Expire(y)
      PROVE  (method = x /\ ~InUse(x))' \/ (method # x)'
  BY <1>0, <1>3 DEF Expire
<1>4. CASE UNCHANGED regVars
  BY <1>4 DEF regVars
<1>5. \/ RegNext
      \/ \E p \in Providers : Crash(p)
      \/ UNCHANGED regVars
  BY DEF Next, RegStep, CallStep, Answer, Refuse, Arrive, ProviderCrash, vars
<1> QED  BY <1>1, <1>2, <1>3, <1>4, <1>5 DEF RegNext

\* However many providers come and go, the node of a session that nobody uses is
\* removed, provided that ZooKeeper can end that session (rpcprovider.cc:107-110).
THEOREM DeadAddressIsRemoved == FairSpec /\ []ExpiryCanHappen => DeadAddressGoes
<1> SUFFICES ASSUME NEW x \in Sessions
             PROVE  FairSpec /\ []ExpiryCanHappen => (method = x /\ ~InUse(x) ~> method # x)
  BY DEF DeadAddressGoes
<1>1. TypeOK /\ OwnerInv /\ (method = x /\ ~InUse(x)) /\ [Next]_vars
        => (method = x /\ ~InUse(x))' \/ (method # x)'
  BY UnusedStays
<1>2. TypeOK /\ (method = x /\ ~InUse(x)) /\ <<~InUse(x) /\ Expire(x)>>_regVars => (method # x)'
  BY RegistryAssumption DEF Expire, NodeKind, Sessions
<1>3. OwnerInv /\ ExpiryCanHappen /\ (method = x /\ ~InUse(x))
        => ENABLED <<~InUse(x) /\ Expire(x)>>_regVars
  BY RegistryAssumption DEF OwnerInv, ExpiryCanHappen, Sessions
<1>4. Fairness => ExpireFair(x)
  BY DEF Fairness, RegFairness
<1> QED  BY <1>1, <1>2, <1>3, <1>4, TypeCorrect, OwnerAlways, PTL DEF FairSpec, Spec, ExpireFair
-----------------------------------------------------------------------------
(* A call returns *)

\* Where a call stands when the provider's end, the request and the answer exist.
CallInv ==
  \A c \in Calls :
    /\ pc[c] \in {"connect", "send", "recv"} => fd[c] = "open"
    /\ link[c] # "none" => pc[c] \in {"send", "recv", "done"}
    /\ pc[c] \in {"send", "recv"} => link[c] # "none"
    /\ answer[c] # NoAnswer => asked[c] /\ link[c] # "none"
    /\ asked[c] => pc[c] \in {"recv", "done"}

LEMMA CallInvNext == TypeOK /\ CallInv /\ [Next]_vars => CallInv'
<1> SUFFICES ASSUME TypeOK, CallInv, [Next]_vars PROVE CallInv'
  OBVIOUS
<1> USE DEF At, Continue, Fail, Closes, CallInv, TypeOK
<1>1. ASSUME NEW c \in Calls, CallStep(c)
      PROVE  CallInv'
  <2>1. CASE Serialize(c)
    BY <2>1 DEF Serialize
  <2>2. CASE Lookup(c)
    BY <2>2 DEF Lookup
  <2>3. CASE Socket(c)
    BY <2>3 DEF Socket
  <2>4. CASE Connect(c)
    BY <2>4 DEF Connect
  <2>5. CASE Send(c)
    BY <2>5 DEF Send
  <2>6. CASE Recv(c)
    BY <2>6 DEF Recv
  <2> QED  BY <1>1, <2>1, <2>2, <2>3, <2>4, <2>5, <2>6 DEF CallStep, CallMethod
<1>2. ASSUME NEW c \in Calls, Answer(c)
      PROVE  CallInv'
  BY <1>2 DEF Answer
<1>3. ASSUME NEW c \in Calls, Refuse(c)
      PROVE  CallInv'
  BY <1>3 DEF Refuse
<1>4. ASSUME NEW c \in Calls, Arrive(c)
      PROVE  CallInv'
  BY <1>4 DEF Arrive
<1>5. ASSUME NEW p \in Providers, ProviderCrash(p)
      PROVE  CallInv'
  BY <1>5 DEF ProviderCrash
<1>6. CASE UNCHANGED callVars
  BY <1>6 DEF callVars
<1> QED  BY <1>1, <1>2, <1>3, <1>4, <1>5, <1>6 DEF Next, RegStep, vars

LEMMA CallAlways == Spec => []CallInv
<1>1. Init => CallInv
  BY DEF Init, CallInv
<1> QED  BY <1>1, TypeCorrect, CallInvNext, PTL DEF Spec

\* What makes a call return: the connection is over, or there is a byte to receive.
Due(c) == link[c] \in {"ended", "reset"} \/ (answer[c] # NoAnswer /\ answer[c] > 0)
ToSend(c) == Due(c) /\ pc[c] = "send"
ToCome(c) == Due(c) /\ pc[c] = "recv" /\ ~CanRecv(c)
ToRecv(c) == pc[c] = "recv" /\ CanRecv(c)
Over(c) == pc[c] = "done"

\* The hypothesis of the next theorem: where their guards hold, send and recv
\* return, and a byte that was sent comes.
CallsCanStep ==
  \A c \in Calls :
    /\ pc[c] = "send" \/ ToRecv(c) => ENABLED <<CallStep(c)>>_vars
    /\ /\ answer[c] # NoAnswer /\ came[c] < answer[c]
       /\ link[c] # "reset" /\ fd[c] = "open"
       => ENABLED <<Arrive(c)>>_vars

LEMMA DueCases ==
  ASSUME NEW c \in Calls, TypeOK, CallInv
  PROVE  /\ Due(c) => ToSend(c) \/ ToCome(c) \/ ToRecv(c) \/ Over(c)
         /\ ToCome(c) => /\ answer[c] # NoAnswer /\ came[c] < answer[c]
                         /\ link[c] # "reset" /\ fd[c] = "open"
<1>1. Due(c) => pc[c] \in {"send", "recv", "done"}
  BY DEF Due, CallInv
<1>2. ASSUME ToCome(c)
      PROVE  /\ answer[c] # NoAnswer /\ came[c] < answer[c]
             /\ link[c] # "reset" /\ fd[c] = "open"
  <2>1. came[c] = 0 /\ link[c] # "reset" /\ fd[c] = "open"
    BY <1>2 DEF ToCome, CanRecv, CallInv, TypeOK
  <2>2. answer[c] # NoAnswer /\ answer[c] # 0
    BY <1>2, <2>1 DEF ToCome, CanRecv, Exhausted, Due, CallInv, TypeOK
  <2>3. answer[c] \in Nat
    BY <2>2, CallAssumption DEF TypeOK
  <2> QED  BY <2>1, <2>2, <2>3
<1> QED  BY <1>1, <1>2 DEF ToSend, ToCome, ToRecv, Over

\* Nothing that is due is withdrawn.
LEMMA DueStays ==
  ASSUME NEW c \in Calls, TypeOK, CallInv, [Next]_vars
  PROVE  /\ Due(c) => Due(c)'
         /\ CanRecv(c) => CanRecv(c)'
<1> USE DEF TypeOK, Due, CanRecv, Exhausted
<1>1. ASSUME NEW d \in Calls, CallStep(d)
      PROVE  answer' = answer /\ came' = came /\ (link[c] # "none" => link'[c] = link[c])
  BY <1>1 DEF CallStep, CallMethod, Serialize, Lookup, Socket, Connect, Send, Recv, At, CallInv
<1>2. ASSUME NEW d \in Calls, Answer(d)
      PROVE  link' = link /\ came' = came /\ (c # d => answer'[c] = answer[c])
  BY <1>2 DEF Answer
<1>3. ASSUME NEW d \in Calls, Answer(d)
      PROVE  link[d] = "up" /\ answer[d] = NoAnswer /\ came[d] = 0
  BY <1>3 DEF Answer
<1>4. ASSUME NEW d \in Calls, Refuse(d)
      PROVE  /\ answer' = answer /\ came' = came
             /\ link[c] # "up" => link'[c] = link[c]
             /\ link[c] = "up" => link'[c] \in {"up", "ended"}
  BY <1>4 DEF Refuse
<1>5. ASSUME NEW d \in Calls, Arrive(d)
      PROVE  link' = link /\ answer' = answer /\ came'[c] >= came[c] /\ came'[c] \in Nat
             /\ (answer[c] # NoAnswer /\ came[c] = answer[c] => came'[c] = came[c])
             /\ (c # d => came'[c] = came[c]) /\ answer[d] # NoAnswer
  <2>1. answer[d] \in Nat /\ came[d] \in Nat
    BY <1>5, CallAssumption DEF Arrive
  <2>2. PICK n \in (came[d] + 1) .. answer[d] : came' = [came EXCEPT ![d] = n]
    BY <1>5 DEF Arrive
  <2> QED  BY <1>5, <2>1, <2>2 DEF Arrive
<1>6. ASSUME NEW p \in Providers, ProviderCrash(p)
      PROVE  /\ answer' = answer /\ came' = came
             /\ link[c] # "up" => link'[c] = link[c]
  BY <1>6 DEF ProviderCrash
<1>7. CASE UNCHANGED callVars
  BY <1>7 DEF callVars
<1>8. CASE \E d \in Calls : CallStep(d)
  BY <1>1, <1>8
<1>9. CASE \E d \in Calls : Answer(d)
  BY <1>2, <1>3, <1>9
<1>10. CASE \E d \in Calls : Refuse(d)
  BY <1>4, <1>10
<1>11. CASE \E d \in Calls : Arrive(d)
  BY <1>5, <1>11
<1>12. CASE \E p \in Providers : ProviderCrash(p)
  BY <1>6, <1>12
<1> QED  BY <1>7, <1>8, <1>9, <1>10, <1>11, <1>12 DEF Next, RegStep, vars

\* A call that waits to send or to receive does so, or waits on.
LEMMA PcStays ==
  ASSUME NEW c \in Calls, TypeOK, CallInv, [Next]_vars
  PROVE  /\ pc[c] = "send" => pc'[c] \in {"send", "recv", "done"}
         /\ pc[c] = "recv" => pc'[c] \in {"recv", "done"}
<1>1. ASSUME NEW d \in Calls, CallStep(d)
      PROVE  /\ pc[c] = "send" => pc'[c] \in {"send", "recv", "done"}
             /\ pc[c] = "recv" => pc'[c] \in {"recv", "done"}
  BY <1>1 DEF CallStep, CallMethod, Serialize, Lookup, Socket, Connect, Send, Recv,
              At, Continue, Fail, TypeOK
<1>2. CASE UNCHANGED pc
  BY <1>2
<1>3. UNCHANGED pc \/ \E d \in Calls : CallStep(d)
  BY DEF Next, RegStep, Answer, Refuse, Arrive, ProviderCrash, vars, callVars
<1> QED  BY <1>1, <1>2, <1>3

LEMMA CallGetsOn ==
  ASSUME NEW c \in Calls, TypeOK, CallInv, <<CallStep(c)>>_vars
  PROVE  /\ ToSend(c) => ~(pc'[c] = "send")
         /\ ToRecv(c) => pc'[c] = "done"
  BY DEF CallStep, CallMethod, Serialize, Lookup, Socket, Connect, Send, Recv,
         At, Continue, Fail, TypeOK, ToSend, ToRecv

LEMMA ArrivalHelps ==
  ASSUME NEW c \in Calls, TypeOK, CallInv, ToCome(c), <<Arrive(c)>>_vars
  PROVE  ToRecv(c)'
<1>1. answer[c] \in Nat /\ came[c] \in Nat
  BY DueCases, CallAssumption DEF TypeOK
<1>2. came'[c] > 0
  BY <1>1 DEF Arrive, TypeOK
<1>3. pc' = pc
  BY DEF Arrive
<1> QED  BY <1>2, <1>3 DEF ToRecv, ToCome, CanRecv

\* A call whose provider has sent a byte or is gone returns: where it waits, what
\* it waits for is there or on its way (mprpcchannel.cc:82-139).
THEOREM CallsReturn == FairSpec /\ []CallsCanStep => Returns
<1> SUFFICES ASSUME NEW c \in Calls
             PROVE  FairSpec /\ []CallsCanStep => (Due(c) ~> Over(c))
  BY DEF Returns, Due, Over
<1>1. TypeOK /\ CallInv /\ ToSend(c) /\ [Next]_vars
        => ToSend(c)' \/ (ToCome(c)' \/ ToRecv(c)' \/ Over(c)')
  BY DueStays, PcStays DEF ToSend, ToCome, ToRecv, Over
<1>2. TypeOK /\ CallInv /\ ToSend(c) /\ [Next]_vars /\ <<CallStep(c)>>_vars
        => ToCome(c)' \/ ToRecv(c)' \/ Over(c)'
  BY <1>1, CallGetsOn DEF ToSend
<1>3. TypeOK /\ CallInv /\ ToCome(c) /\ [Next]_vars
        => ToCome(c)' \/ (ToRecv(c)' \/ Over(c)')
  BY DueStays, PcStays DEF ToCome, ToRecv, Over
<1>4. TypeOK /\ CallInv /\ ToCome(c) /\ <<Arrive(c)>>_vars => ToRecv(c)'
  BY ArrivalHelps
<1>5. TypeOK /\ CallInv /\ ToRecv(c) /\ [Next]_vars => ToRecv(c)' \/ Over(c)'
  BY DueStays, PcStays DEF ToRecv, Over
<1>6. TypeOK /\ CallInv /\ ToRecv(c) /\ <<CallStep(c)>>_vars => Over(c)'
  BY CallGetsOn DEF Over
<1>7. CallsCanStep => (ToSend(c) \/ ToRecv(c) => ENABLED <<CallStep(c)>>_vars)
  BY DEF CallsCanStep, ToSend
<1>8. TypeOK /\ CallInv /\ CallsCanStep /\ ToCome(c) => ENABLED <<Arrive(c)>>_vars
  BY DueCases DEF CallsCanStep
<1>9. TypeOK /\ CallInv /\ Due(c) => ToSend(c) \/ ToCome(c) \/ ToRecv(c) \/ Over(c)
  BY DueCases
<1>10. Fairness => CallFair(c)
  BY DEF Fairness
<1> QED  BY <1>1, <1>2, <1>3, <1>4, <1>5, <1>6, <1>7, <1>8, <1>9, <1>10,
            TypeCorrect, CallAlways, PTL DEF FairSpec, Spec, CallFair
-----------------------------------------------------------------------------
(* What a call that returned tells its caller *)

\* A return that is not a failure comes from recv: it parsed what had come, up to
\* the size of the buffer; with no answer at all, it parsed nothing, at the end of
\* a stream that the provider closed.
Told ==
  \A c \in Calls :
    pc[c] = "done" /\ ~failed[c] =>
      /\ asked[c] /\ fd[c] = "closed"
      /\ got[c] = Received(c)
      /\ answer[c] = NoAnswer => got[c] = 0 /\ link[c] = "ended"

ToldInv ==
  /\ \A c \in Calls : failed[c] => pc[c] = "done"
  /\ \A c \in Calls : pc[c] = "recv" => asked[c]
  /\ Told

LEMMA ToldNext == TypeOK /\ CallInv /\ ToldInv /\ [Next]_vars => ToldInv'
<1> SUFFICES ASSUME TypeOK, CallInv, ToldInv, [Next]_vars PROVE ToldInv'
  OBVIOUS
<1> USE CallAssumption DEF At, Continue, Fail, Closes, ToldInv, Told, Received
<1>1. ASSUME NEW c \in Calls, CallStep(c)
      PROVE  ToldInv'
  <2>1. CASE Serialize(c)
    BY <2>1 DEF Serialize, TypeOK
  <2>2. CASE Lookup(c)
    BY <2>2 DEF Lookup, TypeOK
  <2>3. CASE Socket(c)
    BY <2>3 DEF Socket, TypeOK
  <2>4. CASE Connect(c)
    BY <2>4 DEF Connect, TypeOK
  <2>5. CASE Send(c)
    BY <2>5 DEF Send, TypeOK
  <2>6. CASE Recv(c)
    <3>1. fd[c] = "open" /\ asked[c] /\ ~failed[c] /\ link[c] # "none"
      BY <2>6 DEF Recv, CallInv
    <3>2. answer[c] = NoAnswer /\ ~(came[c] = 0 /\ link[c] = "reset")
            => came[c] = 0 /\ link[c] = "ended"
      BY <2>6 DEF Recv, CanRecv, TypeOK
    <3> QED  BY <2>6, <3>1, <3>2 DEF Recv, TypeOK
  <2> QED  BY <1>1, <2>1, <2>2, <2>3, <2>4, <2>5, <2>6 DEF CallStep, CallMethod
<1>2. ASSUME NEW c \in Calls, Answer(c)
      PROVE  ToldInv'
  <2>1. ~(pc[c] = "done" /\ ~failed[c])
    BY <1>2 DEF Answer
  <2> QED  BY <1>2, <2>1 DEF Answer, TypeOK
<1>3. ASSUME NEW c \in Calls, Refuse(c)
      PROVE  ToldInv'
  BY <1>3 DEF Refuse, TypeOK
<1>4. ASSUME NEW c \in Calls, Arrive(c)
      PROVE  ToldInv'
  <2>1. ~(pc[c] = "done" /\ ~failed[c])
    BY <1>4 DEF Arrive
  <2> QED  BY <1>4, <2>1 DEF Arrive, TypeOK
<1>5. ASSUME NEW p \in Providers, ProviderCrash(p)
      PROVE  ToldInv'
  BY <1>5 DEF ProviderCrash, TypeOK
<1>6. CASE UNCHANGED callVars
  BY <1>6 DEF callVars
<1> QED  BY <1>1, <1>2, <1>3, <1>4, <1>5, <1>6 DEF Next, RegStep, vars

\* CallMethod reports success for the bytes of one recv and for a connection that
\* was closed without an answer, and for nothing else; what comes after it
\* returned changes nothing of it (mprpcchannel.cc:117-139).
THEOREM CallTells == Spec => []Told
<1>1. Init => ToldInv
  BY DEF Init, ToldInv, Told
<1>2. ToldInv => Told
  BY DEF ToldInv
<1> QED  BY <1>1, <1>2, TypeCorrect, CallAlways, ToldNext, PTL DEF Spec
=============================================================================
