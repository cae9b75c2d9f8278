------------------------------- MODULE Registry -------------------------------
(***************************************************************************)
(* The registration of one service with one method in ZooKeeper: what      *)
(* RpcProvider::Run does through ZkClient before it serves.  The service   *)
(* node is persistent; the method node, with the provider's address, is    *)
(* ephemeral: it goes with the session that created it.                    *)
(*                                                                         *)
(* A provider may crash at any moment and be started again at the same     *)
(* address; its old session lives on until ZooKeeper expires it.  The      *)
(* session of a running provider may expire too (a partition): nothing in  *)
(* the code reacts to that.                                                *)
(***************************************************************************)
EXTENDS Naturals

CONSTANTS
  Providers,   \* the processes that offer the service
  MaxStarts,   \* bound: how often each of them is started
  NoSession    \* the owner of a node that does not exist

ASSUME RegistryAssumption ==
  /\ MaxStarts \in Nat
  /\ NoSession \notin Providers \X Nat

VARIABLES
  service,     \* whether the service node exists
  method,      \* the session that owns the method node, or NoSession
  live,        \* the sessions that ZooKeeper knows
  starts,      \* per provider, how often it was started
  run          \* per provider, where Run is

regVars == <<service, method, live, starts, run>>

Sessions == Providers \X (1 .. MaxStarts)

Phases ==
  {"off",                               \* not running: never started, or crashed
   "checkService", "createService",     \* Create of the service: zoo_exists, zoo_create
   "checkMethod", "createMethod",       \* Create of the method
   "serving",                           \* in event_loop_.loop()
   "exited"}                            \* exit(EXIT_FAILURE)

RegTypeOK ==
  /\ service \in BOOLEAN
  /\ method \in Sessions \cup {NoSession}
  /\ live \subseteq Sessions
  /\ starts \in [Providers -> 0 .. MaxStarts]
  /\ run \in [Providers -> Phases]

RegInit ==
  /\ service = FALSE
  /\ method = NoSession
  /\ live = {}
  /\ starts = [p \in Providers |-> 0]
  /\ run = [p \in Providers |-> "off"]
-----------------------------------------------------------------------------
Session(p) == <<p, starts[p]>>

Connected(p) == Session(p) \in live

\* The process that opened the session still runs.
InUse(x) == run[x[1]] \notin {"off", "exited"} /\ x = Session(x[1])

\* The last argument of the two calls of Create.
NodeKind == [service |-> "persistent", method |-> "ephemeral"]

GoesTo(p, phase) == run' = [run EXCEPT ![p] = phase]

\* A new process: ZkClient::Start opens a session and waits until it is connected.
Start(p) ==
  /\ run[p] \in {"off", "exited"}
  /\ starts[p] < MaxStarts
  /\ starts' = [starts EXCEPT ![p] = @ + 1]
  /\ live' = live \cup {<<p, starts[p] + 1>>}
  /\ GoesTo(p, "checkService")
  /\ UNCHANGED <<service, method>>

\* zoo_exists.  Any answer but ZNONODE skips the creation, that of an expired
\* session too.
CheckService(p) ==
  /\ run[p] = "checkService"
  /\ GoesTo(p, IF Connected(p) /\ ~service THEN "createService" ELSE "checkMethod")
  /\ UNCHANGED <<service, method, live, starts>>

\* zoo_create of a persistent node; any error ends the process.
CreateService(p) ==
  /\ run[p] = "createService"
  /\ IF Connected(p) /\ ~service
       THEN service' = TRUE /\ GoesTo(p, "checkMethod")
       ELSE GoesTo(p, "exited") /\ UNCHANGED service
  /\ UNCHANGED <<method, live, starts>>

\* Broken variant: zoo_create only when the answer is ZOK.
CheckMethodInverted(p) ==
  /\ run[p] = "checkMethod"
  /\ GoesTo(p, IF Connected(p) /\ method # NoSession THEN "createMethod" ELSE "serving")
  /\ UNCHANGED <<service, method, live, starts>>

CheckMethod(p) ==
  /\ run[p] = "checkMethod"
  /\ GoesTo(p, IF Connected(p) /\ method = NoSession THEN "createMethod" ELSE "serving")
  /\ UNCHANGED <<service, method, live, starts>>

\* zoo_create with ZOO_EPHEMERAL; ZooKeeper wants the parent to exist.
CreateMethod(p) ==
  /\ run[p] = "createMethod"
  /\ IF Connected(p) /\ service /\ method = NoSession
       THEN method' = Session(p) /\ GoesTo(p, "serving")
       ELSE GoesTo(p, "exited") /\ UNCHANGED method
  /\ UNCHANGED <<service, live, starts>>

Crash(p) ==
  /\ run[p] \notin {"off", "exited"}
  /\ GoesTo(p, "off")
  /\ UNCHANGED <<service, method, live, starts>>

\* ZooKeeper ends a session of which it hears no more; its ephemeral nodes go.
Expire(x) ==
  /\ x \in live
  /\ live' = live \ {x}
  /\ method' = IF method = x /\ NodeKind.method = "ephemeral" THEN NoSession ELSE method
  /\ UNCHANGED <<service, starts, run>>

Register(p) == CheckService(p) \/ CreateService(p) \/ CheckMethod(p) \/ CreateMethod(p)

RegNext ==
  \/ \E p \in Providers : Start(p) \/ Register(p)
  \/ \E x \in Sessions : Expire(x)

\* A process that runs gets on with Run, and a session that nobody uses expires.
RegisterFair(p) == WF_regVars(Register(p))
ExpireFair(x) == WF_regVars(~InUse(x) /\ Expire(x))

RegFairness ==
  /\ \A p \in Providers : RegisterFair(p)
  /\ \A x \in Sessions : ExpireFair(x)
-----------------------------------------------------------------------------
(* Properties *)

\* A provider serves, its session lives, and its method cannot be looked up.
Unregistered(p) == run[p] = "serving" /\ Connected(p) /\ method = NoSession

\* Whatever crashes, restarts and expires, a provider gets there in one way only:
\* it had found a node and created none, and now the session that this node belongs
\* to ends.  It is never so from its first moment of serving, and one that created
\* its node keeps it (rpcprovider.cc:100-117, zkclient.cc:68-92).
UnregisteredOnlyThere ==
  [][\A p \in Providers :
       ~Unregistered(p) /\ Unregistered(p)' =>
         method \in live \ live' /\ method # Session(p)]_regVars

\* "After it starts, a provider has its services and methods registered in
\* ZooKeeper" (mprpc-main/README.md): while a provider serves and its session
\* lives, its method can be looked up.
ServingIsRegistered ==
  \A p \in Providers : run[p] = "serving" /\ Connected(p) => method # NoSession
=============================================================================
