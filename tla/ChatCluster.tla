----------------------------- MODULE ChatCluster ------------------------------
(***************************************************************************)
(* Login, logout, disconnection and chat messages on a cluster of chat     *)
(* servers.  The servers share the user table and the offline messages     *)
(* (MySQL) and reach each other through Redis channels, one per user; each *)
(* keeps in _userConnMap the connections of the users that are logged in   *)
(* at it.                                                                  *)
(*                                                                         *)
(* Every handler runs on the loop thread of its connection, and every      *)
(* access to the database, to the map or to Redis is a step of it: between *)
(* two of them any other handler may run, on any server.  The steps on the *)
(* map are atomic here, which the code does not ensure: it has no lock.    *)
(*                                                                         *)
(* A connection belongs to one client, which logs in as one user, may log  *)
(* out, and closes it then (ChatClient.cpp).  A group message is one       *)
(* message to each member (groupChat does for each what oneChat does).     *)
(***************************************************************************)
EXTENDS Naturals, Sequences

CONSTANTS
  Users, Servers, Conns, Msgs,
  UserOf,     \* per connection, the user that logs in over it
  ServerOf,   \* per connection, the server that nginx chose
  To,         \* per message, its addressee
  From,       \* per message, the server that gets it from the sender
  Stored,     \* the messages that are in the offlinemessage table at the start
  NoConn      \* no entry in _userConnMap

ASSUME ClusterAssumption ==
  /\ UserOf \in [Conns -> Users]
  /\ ServerOf \in [Conns -> Servers]
  /\ To \in [Msgs -> Users]
  /\ From \in [Msgs -> Servers]
  /\ Stored \subseteq Msgs
  /\ NoConn \notin Conns

VARIABLES
  state,       \* user table: "offline" or "online"
  offline,     \* the messages in the offlinemessage table
  userConnMap, \* per server and user
  crashed,     \* the servers that have crashed
  commands,    \* per server, what is on its way to Redis
  subscribed,  \* Redis: pairs of a server and the user whose channel it subscribes
  inbox,       \* per server, the published messages on their way to its observer
  at,          \* per connection, where its handler is; "idle", "gone"
  up,          \* per connection, whether the client still has it open
  session,     \* per connection, what its client did: "out", "in", "leaving"
  fetched,     \* per connection, the offline messages that login has read
  sending,     \* per message, where oneChat is with it
  found,       \* the connection that oneChat or the observer found for it
  told         \* the messages that were sent to a client

tables == <<state, offline>>
redisVars == <<commands, subscribed, inbox>>
connVars == <<at, up, session, fetched>>
msgVars == <<sending, found, told>>
vars == <<tables, userConnMap, crashed, redisVars, connVars, msgVars>>

Handlers ==
  {"idle",
   "setOnline", "insert", "subscribe", "query", "remove", "reply",   \* login
   "logoutOffline", "logoutUnsubscribe",                             \* loginout
   "closeErase", "closeOffline", "closeUnsubscribe",                 \* clientCloseException
   "gone"}

Commands == {"subscribe", "unsubscribe"} \X Users

MsgsTo(u) == {m \in Msgs : To[m] = u}

TypeOK ==
  /\ state \in [Users -> {"offline", "online"}]
  /\ offline \subseteq Msgs
  /\ userConnMap \in [Servers -> [Users -> Conns \cup {NoConn}]]
  /\ crashed \subseteq Servers
  /\ commands \in [Servers -> Seq(Commands)]
  /\ subscribed \subseteq Servers \X Users
  /\ inbox \in [Servers -> SUBSET Msgs]
  /\ at \in [Conns -> Handlers]
  /\ up \in [Conns -> BOOLEAN]
  /\ session \in [Conns -> {"out", "in", "leaving"}]
  /\ fetched \in [Conns -> SUBSET Msgs]
  /\ \A c \in Conns : fetched[c] \subseteq MsgsTo(UserOf[c])
  /\ sending \in [Msgs -> {"new", "query", "send", "publish", "store", "done", "cut"}]
  /\ found \in [Msgs -> Conns \cup {NoConn}]
  /\ told \subseteq Msgs

Init ==
  /\ state = [u \in Users |-> "offline"]
  /\ offline = Stored
  /\ userConnMap = [s \in Servers |-> [u \in Users |-> NoConn]]
  /\ crashed = {}
  /\ commands = [s \in Servers |-> <<>>]
  /\ subscribed = {}
  /\ inbox = [s \in Servers |-> {}]
  /\ at = [c \in Conns |-> "idle"]
  /\ up = [c \in Conns |-> TRUE]
  /\ session = [c \in Conns |-> "out"]
  /\ fetched = [c \in Conns |-> {}]
  /\ sending = [m \in Msgs |-> IF m \in Stored THEN "done" ELSE "new"]
  /\ found = [m \in Msgs |-> NoConn]
  /\ told = {}
-----------------------------------------------------------------------------
Entry(c) == userConnMap[ServerOf[c]][UserOf[c]]

SetEntry(c, d) == userConnMap' = [userConnMap EXCEPT ![ServerOf[c]][UserOf[c]] = d]

SetState(c, value) == state' = [state EXCEPT ![UserOf[c]] = value]

\* A handler goes from one step to the next.
Step(c, here, there) ==
  /\ at[c] = here
  /\ at' = [at EXCEPT ![c] = there]

\* redisAppendCommand and redisBufferWrite: Redis gets the command later.
Command(c, verb) ==
  commands' = [commands EXCEPT ![ServerOf[c]] = Append(@, <<verb, UserOf[c]>>)]
-----------------------------------------------------------------------------
(* login, with a password that is right *)

\* A user that is online is refused.
CheckState(c) ==
  /\ up[c] /\ session[c] = "out"
  /\ state[UserOf[c]] = "offline"
  /\ Step(c, "idle", "setOnline")
  /\ UNCHANGED <<tables, userConnMap, crashed, redisVars, up, session, fetched, msgVars>>

SetOnline(c) ==
  /\ Step(c, "setOnline", "insert")
  /\ SetState(c, "online")
  /\ UNCHANGED <<offline, userConnMap, crashed, redisVars, up, session, fetched, msgVars>>

\* insert leaves an entry that is there alone.
InsertConn(c) ==
  /\ Step(c, "insert", "subscribe")
  /\ IF Entry(c) = NoConn THEN SetEntry(c, c) ELSE UNCHANGED userConnMap
  /\ UNCHANGED <<tables, crashed, redisVars, up, session, fetched, msgVars>>

Subscribe(c) ==
  /\ Step(c, "subscribe", "query")
  /\ Command(c, "subscribe")
  /\ UNCHANGED <<tables, userConnMap, crashed, subscribed, inbox, up, session, fetched, msgVars>>

StoredFor(u) == offline \cap MsgsTo(u)

QueryOffline(c) ==
  /\ Step(c, "query", IF StoredFor(UserOf[c]) = {} THEN "reply" ELSE "remove")
  /\ fetched' = [fetched EXCEPT ![c] = StoredFor(UserOf[c])]
  /\ UNCHANGED <<tables, userConnMap, crashed, redisVars, up, session, msgVars>>

\* The rows are deleted by user, whatever was read.
RemoveOffline(c) ==
  /\ Step(c, "remove", "reply")
  /\ offline' = offline \ MsgsTo(UserOf[c])
  /\ UNCHANGED <<state, userConnMap, crashed, redisVars, up, session, fetched, msgVars>>

Reply(c) ==
  /\ Step(c, "reply", "idle")
  /\ told' = told \cup fetched[c]
  /\ fetched' = [fetched EXCEPT ![c] = {}]
  /\ session' = [session EXCEPT ![c] = "in"]
  /\ UNCHANGED <<tables, userConnMap, crashed, redisVars, up, sending, found>>

Login(c) ==
  \/ CheckState(c) \/ SetOnline(c) \/ InsertConn(c) \/ Subscribe(c)
  \/ QueryOffline(c) \/ RemoveOffline(c) \/ Reply(c)
-----------------------------------------------------------------------------
(* loginout and clientCloseException *)

\* ChatClient::loginout: the client sends the message and closes.
LeaveClient(c) ==
  /\ up[c] /\ session[c] = "in"
  /\ session' = [session EXCEPT ![c] = "leaving"]
  /\ up' = [up EXCEPT ![c] = FALSE]
  /\ UNCHANGED <<tables, userConnMap, crashed, redisVars, at, fetched, msgVars>>

Disconnect(c) ==
  /\ up[c]
  /\ up' = [up EXCEPT ![c] = FALSE]
  /\ UNCHANGED <<tables, userConnMap, crashed, redisVars, at, session, fetched, msgVars>>

\* The entry is erased by user: it may be that of another connection.
Logout(c) ==
  /\ session[c] = "leaving"
  /\ session' = [session EXCEPT ![c] = "out"]
  /\ Step(c, "idle", "logoutOffline")
  /\ SetEntry(c, NoConn)
  /\ UNCHANGED <<tables, crashed, redisVars, up, fetched, msgVars>>

\* The map is searched for the connection.
CloseScan(c) ==
  /\ ~up[c]
  /\ Step(c, "idle", IF Entry(c) = c THEN "closeErase" ELSE "gone")
  /\ UNCHANGED <<tables, userConnMap, crashed, redisVars, up, session, fetched, msgVars>>

\* Broken variants: the entry stays, or the user stays online.
CloseEraseForgotten(c) ==
  /\ Step(c, "closeErase", "closeOffline")
  /\ UNCHANGED <<tables, userConnMap, crashed, redisVars, up, session, fetched, msgVars>>

CloseEraseOnly(c) ==
  /\ Step(c, "closeErase", "closeUnsubscribe")
  /\ SetEntry(c, NoConn)
  /\ UNCHANGED <<tables, crashed, redisVars, up, session, fetched, msgVars>>

CloseErase(c) ==
  /\ Step(c, "closeErase", "closeOffline")
  /\ SetEntry(c, NoConn)
  /\ UNCHANGED <<tables, crashed, redisVars, up, session, fetched, msgVars>>

SetOffline(c) ==
  /\ \/ Step(c, "logoutOffline", "logoutUnsubscribe")
     \/ Step(c, "closeOffline", "closeUnsubscribe")
  /\ SetState(c, "offline")
  /\ UNCHANGED <<offline, userConnMap, crashed, redisVars, up, session, fetched, msgVars>>

Unsubscribe(c) ==
  /\ \/ Step(c, "logoutUnsubscribe", "idle")
     \/ Step(c, "closeUnsubscribe", "gone")
  /\ Command(c, "unsubscribe")
  /\ UNCHANGED <<tables, userConnMap, crashed, subscribed, inbox, up, session, fetched, msgVars>>

Close(c) == CloseScan(c) \/ CloseErase(c)

Leave(c) == Logout(c) \/ Close(c) \/ SetOffline(c) \/ Unsubscribe(c)
-----------------------------------------------------------------------------
(* oneChat *)

Goes(m, here, there) ==
  /\ sending[m] = here
  /\ sending' = [sending EXCEPT ![m] = there]

\* find, in the map of the server that has the sender's connection.
FindConn(m) ==
  /\ From[m] \notin crashed
  /\ Goes(m, "new", "query")
  /\ found' = [found EXCEPT ![m] = userConnMap[From[m]][To[m]]]
  /\ UNCHANGED <<tables, userConnMap, crashed, redisVars, connVars, told>>

QueryState(m) ==
  /\ Goes(m, "query", CASE state[To[m]] = "offline" -> "store"
                        [] state[To[m]] = "online" /\ found[m] # NoConn -> "send"
                        [] OTHER -> "publish")
  /\ UNCHANGED <<tables, userConnMap, crashed, redisVars, connVars, found, told>>

\* To the connection that was found; what send does is in TcpConnection.
SendToConn(m) ==
  /\ Goes(m, "send", "done")
  /\ told' = told \cup {m}
  /\ UNCHANGED <<tables, userConnMap, crashed, redisVars, connVars, found>>

\* PUBLISH reaches the servers that are subscribed when Redis gets it.
Publish(m) ==
  /\ Goes(m, "publish", "done")
  /\ inbox' = [s \in Servers |->
                 IF <<s, To[m]>> \in subscribed THEN inbox[s] \cup {m} ELSE inbox[s]]
  /\ UNCHANGED <<tables, userConnMap, crashed, commands, subscribed, connVars, found, told>>

StoreOffline(m) ==
  /\ Goes(m, "store", "done")
  /\ offline' = offline \cup {m}
  /\ UNCHANGED <<state, userConnMap, crashed, redisVars, connVars, found, told>>

OneChat(m) == FindConn(m) \/ QueryState(m) \/ SendToConn(m) \/ Publish(m) \/ StoreOffline(m)
-----------------------------------------------------------------------------
(* Redis, and the observer thread of each server *)

RedisExecutes(s) ==
  /\ commands[s] # <<>>
  /\ commands' = [commands EXCEPT ![s] = Tail(@)]
  /\ LET verb == Head(commands[s])[1]
         chan == <<s, Head(commands[s])[2]>>
     IN subscribed' = IF verb = "subscribe" THEN subscribed \cup {chan} ELSE subscribed \ {chan}
  /\ UNCHANGED <<tables, userConnMap, crashed, inbox, connVars, msgVars>>

\* handleRedisSubscribeMessage.  A message that reaches two servers may be sent
\* and stored.
Observe(s, m) ==
  /\ m \in inbox[s]
  /\ inbox' = [inbox EXCEPT ![s] = @ \ {m}]
  /\ IF userConnMap[s][To[m]] # NoConn
       THEN told' = told \cup {m} /\ UNCHANGED offline
       ELSE offline' = offline \cup {m} /\ UNCHANGED told
  /\ UNCHANGED <<state, userConnMap, crashed, commands, subscribed, connVars, sending, found>>

\* A server dies: its connections, map and subscriptions are gone, the tables stay.
Crash(s) ==
  /\ s \notin crashed
  /\ crashed' = crashed \cup {s}
  /\ userConnMap' = [userConnMap EXCEPT ![s] = [u \in Users |-> NoConn]]
  /\ commands' = [commands EXCEPT ![s] = <<>>]
  /\ subscribed' = {x \in subscribed : x[1] # s}
  /\ inbox' = [inbox EXCEPT ![s] = {}]
  /\ at' = [c \in Conns |-> IF ServerOf[c] = s THEN "gone" ELSE at[c]]
  /\ up' = [c \in Conns |-> ServerOf[c] # s /\ up[c]]
  /\ fetched' = [c \in Conns |-> IF ServerOf[c] = s THEN {} ELSE fetched[c]]
  /\ sending' = [m \in Msgs |->
                   IF From[m] = s /\ sending[m] # "done" THEN "cut" ELSE sending[m]]
  /\ UNCHANGED <<tables, session, found, told>>
-----------------------------------------------------------------------------
Next ==
  \/ \E c \in Conns : Login(c) \/ LeaveClient(c) \/ Disconnect(c) \/ Leave(c)
  \/ \E m \in Msgs : OneChat(m)
  \/ \E s \in Servers : RedisExecutes(s) \/ Crash(s) \/ \E m \in Msgs : Observe(s, m)

Spec == Init /\ [][Next]_vars
-----------------------------------------------------------------------------
(* Properties *)

\* A connection that is closed and handled is in no map: a message cannot be sent
\* to it any more (ChatService.cpp:211-232).
NoDeadEntry ==
  \A s \in Servers, u \in Users :
    userConnMap[s][u] # NoConn => at[userConnMap[s][u]] # "gone"

\* When all connections of a user are over, on servers that did not crash, the
\* user is offline and can log in again, however the logins and the closings
\* were interleaved (ChatService.cpp:16-21, 104-116, 224-230).
NobodyLeftOnline ==
  \A u \in Users :
    (\A c \in Conns : UserOf[c] = u => at[c] = "gone" /\ ServerOf[c] \notin crashed)
      => state[u] = "offline"

\* "When another server finds that the user is online but not here, it publishes
\* the message, and the server that holds the connection delivers it in the end"
\* (chat-main/README.md): as long as no server crashes, a message that was handled
\* has been sent, or is stored, or is on its way.
NoMessageLost ==
  \A m \in Msgs :
    crashed = {} /\ sending[m] = "done" =>
      \/ m \in told \cup offline
      \/ \E s \in Servers : m \in inbox[s]
      \/ \E c \in Conns : m \in fetched[c]
=============================================================================
