------------------------------ MODULE ChatProofs ------------------------------
(***************************************************************************)
(* Theorems about the chat system.  About ChatCluster, for any numbers of  *)
(* users, servers, connections and messages, with crashes: type            *)
(* correctness, no entry of a connection that is over, no user left        *)
(* online, and the only three ways in which a message is lost.  About      *)
(* ChatClient, for any numbers of connections, commands, pushes and        *)
(* groups: type correctness, one reader of the connection at a time,       *)
(* tables that agree, the framing that the menu keeps, what the client     *)
(* dies of, and that it comes back to its user.                            *)
(***************************************************************************)
EXTENDS ChatCluster, ChatClient, SequenceTheorems, TLAPS

LEMMA TypeInit == Init => TypeOK
<1>1. <<>> \in Seq(Commands)
  OBVIOUS
<1> QED  BY <1>1, ClusterAssumption DEF Init, TypeOK, Handlers

\* What a connection stands for.
LEMMA OfConn ==
  ASSUME NEW c \in Conns
  PROVE  UserOf[c] \in Users /\ ServerOf[c] \in Servers
<1> QED  BY ClusterAssumption

\* Entries are written by connections, for their own user and server.
LEMMA TypeEntry ==
  ASSUME TypeOK, NEW c \in Conns, NEW d \in Conns \cup {NoConn}, SetEntry(c, d)
  PROVE  userConnMap' \in [Servers -> [Users -> Conns \cup {NoConn}]]
<1> QED  BY OfConn DEF TypeOK, SetEntry

LEMMA TypeCommand ==
  ASSUME TypeOK, NEW c \in Conns, NEW verb \in {"subscribe", "unsubscribe"}, Command(c, verb)
  PROVE  commands' \in [Servers -> Seq(Commands)]
<1>1. <<verb, UserOf[c]>> \in Commands
  BY OfConn DEF Commands
<1>2. Append(commands[ServerOf[c]], <<verb, UserOf[c]>>) \in Seq(Commands)
  BY <1>1, OfConn DEF TypeOK
<1> QED  BY <1>2, OfConn DEF TypeOK, Command

LEMMA TypeLogin ==
  ASSUME TypeOK, NEW c \in Conns, Login(c)
  PROVE  TypeOK'
<1> USE DEF Step, Handlers, tables, redisVars, connVars, msgVars
<1>0. TypeOK
  OBVIOUS
<1>1. CASE CheckState(c)
  BY <1>1 DEF CheckState, TypeOK
<1>2. CASE SetOnline(c)
  BY <1>2, OfConn DEF SetOnline, SetState, TypeOK
<1>3. CASE InsertConn(c)
  <2>1. userConnMap' \in [Servers -> [Users -> Conns \cup {NoConn}]]
    BY <1>0, <1>3, TypeEntry DEF InsertConn, TypeOK
  <2> QED  BY <1>3, <2>1 DEF InsertConn, TypeOK
<1>4. CASE Subscribe(c)
  <2>1. commands' \in [Servers -> Seq(Commands)]
    BY <1>0, <1>4, TypeCommand DEF Subscribe
  <2> QED  BY <1>4, <2>1 DEF Subscribe, TypeOK
<1>5. CASE QueryOffline(c)
  BY <1>5 DEF QueryOffline, StoredFor, MsgsTo, TypeOK
<1>6. CASE RemoveOffline(c)
  BY <1>6 DEF RemoveOffline, TypeOK
<1>7. CASE Reply(c)
  BY <1>7 DEF Reply, TypeOK
<1> QED  BY <1>1, <1>2, <1>3, <1>4, <1>5, <1>6, <1>7 DEF Login

LEMMA TypeLeave ==
  ASSUME TypeOK, NEW c \in Conns, LeaveClient(c) \/ Disconnect(c) \/ Leave(c)
  PROVE  TypeOK'
<1> USE DEF Step, Handlers, tables, redisVars, connVars, msgVars
<1>0. TypeOK
  OBVIOUS
<1>1. CASE LeaveClient(c)
  BY <1>1 DEF LeaveClient, TypeOK
<1>2. CASE Disconnect(c)
  BY <1>2 DEF Disconnect, TypeOK
<1>3. CASE Logout(c)
  <2>1. userConnMap' \in [Servers -> [Users -> Conns \cup {NoConn}]]
    BY <1>0, <1>3, TypeEntry DEF Logout
  <2> QED  BY <1>3, <2>1 DEF Logout, TypeOK
<1>4. CASE CloseScan(c)
  BY <1>4 DEF CloseScan, TypeOK
<1>5. CASE CloseErase(c)
  <2>1. userConnMap' \in [Servers -> [Users -> Conns \cup {NoConn}]]
    BY <1>0, <1>5, TypeEntry DEF CloseErase
  <2> QED  BY <1>5, <2>1 DEF CloseErase, TypeOK
<1>6. CASE SetOffline(c)
  BY <1>6, OfConn DEF SetOffline, SetState, TypeOK
<1>7. CASE Unsubscribe(c)
  <2>1. commands' \in [Servers -> Seq(Commands)]
    BY <1>0, <1>7, TypeCommand DEF Unsubscribe
  <2> QED  BY <1>7, <2>1 DEF Unsubscribe, TypeOK
<1> QED  BY <1>1, <1>2, <1>3, <1>4, <1>5, <1>6, <1>7 DEF Leave, Close

LEMMA TypeOneChat ==
  ASSUME TypeOK, NEW m \in Msgs, OneChat(m)
  PROVE  TypeOK'
<1> USE DEF Goes, tables, redisVars, connVars
<1>0. To[m] \in Users /\ From[m] \in Servers
  BY ClusterAssumption
<1>1. CASE FindConn(m)
  BY <1>0, <1>1 DEF FindConn, TypeOK
<1>2. CASE QueryState(m)
  BY <1>2 DEF QueryState, TypeOK
<1>3. CASE SendToConn(m)
  BY <1>3 DEF SendToConn, TypeOK
<1>4. CASE Publish(m)
  BY <1>4 DEF Publish, TypeOK
<1>5. CASE StoreOffline(m)
  BY <1>5 DEF StoreOffline, TypeOK
<1> QED  BY <1>1, <1>2, <1>3, <1>4, <1>5 DEF OneChat

LEMMA TypeRest ==
  ASSUME TypeOK, NEW s \in Servers,
         RedisExecutes(s) \/ Crash(s) \/ \E m \in Msgs : Observe(s, m)
  PROVE  TypeOK'
<1> USE DEF tables, redisVars, connVars, msgVars
<1>1. CASE RedisExecutes(s)
  <2>1. /\ Head(commands[s]) \in Commands
        /\ Tail(commands[s]) \in Seq(Commands)
    BY <1>1 DEF RedisExecutes, TypeOK
  <2>2. commands' \in [Servers -> Seq(Commands)]
    BY <1>1, <2>1 DEF RedisExecutes, TypeOK
  <2>3. Head(commands[s])[2] \in Users
    BY <2>1 DEF Commands
  <2>4. subscribed' \subseteq Servers \X Users
    BY <1>1, <2>3 DEF RedisExecutes, TypeOK
  <2> QED  BY <1>1, <2>2, <2>4 DEF RedisExecutes, TypeOK
<1>2. CASE Crash(s)
  <2>1. <<>> \in Seq(Commands)
    OBVIOUS
  <2> QED  BY <1>2, <2>1 DEF Crash, TypeOK, Handlers
<1>3. ASSUME NEW m \in Msgs, Observe(s, m) PROVE TypeOK'
  BY <1>3 DEF Observe, TypeOK
<1> QED  BY <1>1, <1>2, <1>3

LEMMA TypeNext == TypeOK /\ [Next]_vars => TypeOK'
<1>1. TypeOK /\ UNCHANGED vars => TypeOK'
  BY DEF TypeOK, vars, tables, redisVars, connVars, msgVars
<1> QED  BY <1>1, TypeLogin, TypeLeave, TypeOneChat, TypeRest DEF Next

\* Every variable keeps its type; a login reads only messages to its own user.
THEOREM TypeCorrect == Spec => []TypeOK
<1> QED  BY TypeInit, TypeNext, PTL DEF Spec
-----------------------------------------------------------------------------
(* No entry of a connection that is over *)

\* What the two invariants below depend on.
accounts == <<state, userConnMap, at, crashed>>

Over == {"closeOffline", "closeUnsubscribe", "gone"}

\* An entry is in the place of its connection, whose closing has not got so far
\* as to erase it.
EntryInv ==
  \A s \in Servers, u \in Users, c \in Conns :
    userConnMap[s][u] = c => UserOf[c] = u /\ ServerOf[c] = s /\ at[c] \notin Over

LEMMA EntryFrame == EntryInv /\ UNCHANGED accounts => EntryInv'
<1> QED  BY DEF EntryInv, accounts

\* SetEntry writes one place of the map.
LEMMA SetEntryAt ==
  ASSUME TypeOK, NEW c \in Conns, NEW d, SetEntry(c, d),
         NEW s \in Servers, NEW u \in Users
  PROVE  userConnMap'[s][u] =
           IF s = ServerOf[c] /\ u = UserOf[c] THEN d ELSE userConnMap[s][u]
<1> QED  BY OfConn DEF TypeOK, SetEntry

LEMMA EntryLogin ==
  ASSUME TypeOK, EntryInv, NEW c \in Conns, Login(c)
  PROVE  EntryInv'
<1> SUFFICES ASSUME NEW s \in Servers, NEW u \in Users, NEW d \in Conns,
                    userConnMap'[s][u] = d
             PROVE  UserOf[d] = u /\ ServerOf[d] = s /\ at'[d] \notin Over
  BY DEF EntryInv
<1>1. at[c] \notin Over /\ at'[c] \notin Over /\ \A e \in Conns \ {c} : at'[e] = at[e]
  BY DEF Login, CheckState, SetOnline, InsertConn, Subscribe, QueryOffline, RemoveOffline,
         Reply, Step, Over, TypeOK
<1>2. CASE userConnMap[s][u] = d
  BY <1>1, <1>2 DEF EntryInv
<1>3. CASE userConnMap[s][u] # d
  <2>1. InsertConn(c) /\ SetEntry(c, c)
    BY <1>3 DEF Login, CheckState, SetOnline, InsertConn, Subscribe, QueryOffline,
                RemoveOffline, Reply
  <2>2. s = ServerOf[c] /\ u = UserOf[c] /\ d = c
    BY <1>3, <2>1, SetEntryAt
  <2> QED  BY <1>1, <2>2
<1> QED  BY <1>2, <1>3

LEMMA EntryLeave ==
  ASSUME TypeOK, EntryInv, NEW c \in Conns, Leave(c)
  PROVE  EntryInv'
<1> SUFFICES ASSUME NEW s \in Servers, NEW u \in Users, NEW d \in Conns,
                    userConnMap'[s][u] = d
             PROVE  UserOf[d] = u /\ ServerOf[d] = s /\ at'[d] \notin Over
  BY DEF EntryInv
<1>0. d # NoConn
  BY ClusterAssumption
<1>1. \A e \in Conns \ {c} : at'[e] = at[e]
  BY DEF Leave, Close, Logout, CloseScan, CloseErase, SetOffline, Unsubscribe, Step, TypeOK
<1>2. userConnMap[s][u] = d
  <2>1. CASE Logout(c) \/ CloseErase(c)
    BY <1>0, <2>1, SetEntryAt DEF Logout, CloseErase
  <2>2. CASE CloseScan(c) \/ SetOffline(c) \/ Unsubscribe(c)
    BY <2>2 DEF CloseScan, SetOffline, Unsubscribe
  <2> QED  BY <2>1, <2>2 DEF Leave, Close
<1>3. UserOf[d] = u /\ ServerOf[d] = s /\ at[d] \notin Over
  BY <1>2 DEF EntryInv
<1>4. CASE d = c
  <2>1. CASE Logout(c)
    BY <1>3, <1>4, <2>1 DEF Logout, Step, Over, TypeOK
  <2>2. CASE CloseScan(c)
    <3>1. Entry(c) = c
      BY <1>2, <1>3, <1>4 DEF Entry
    <3> QED  BY <1>3, <1>4, <2>2, <3>1 DEF CloseScan, Step, Over, TypeOK
  <2>3. CASE CloseErase(c)
    BY <1>0, <1>3, <1>4, <2>3, SetEntryAt DEF CloseErase
  <2>4. CASE SetOffline(c)
    BY <1>3, <1>4, <2>4 DEF SetOffline, Step, Over, TypeOK
  <2>5. CASE Unsubscribe(c)
    BY <1>3, <1>4, <2>5 DEF Unsubscribe, Step, Over, TypeOK
  <2> QED  BY <1>3, <2>1, <2>2, <2>3, <2>4, <2>5 DEF Leave, Close
<1>5. CASE d # c
  BY <1>1, <1>3, <1>5
<1> QED  BY <1>4, <1>5

LEMMA EntryCrash ==
  ASSUME TypeOK, EntryInv, NEW s \in Servers, Crash(s)
  PROVE  EntryInv'
<1> SUFFICES ASSUME NEW t \in Servers, NEW u \in Users, NEW d \in Conns,
                    userConnMap'[t][u] = d
             PROVE  UserOf[d] = u /\ ServerOf[d] = t /\ at'[d] \notin Over
  BY DEF EntryInv
<1>1. t # s /\ userConnMap[t][u] = d
  BY ClusterAssumption DEF Crash, TypeOK
<1> QED  BY <1>1 DEF Crash, EntryInv

LEMMA EntryNext == TypeOK /\ EntryInv /\ [Next]_vars => EntryInv'
<1> SUFFICES ASSUME TypeOK, EntryInv, [Next]_vars PROVE EntryInv'
  OBVIOUS
<1>1. ASSUME NEW c \in Conns, LeaveClient(c) \/ Disconnect(c) PROVE EntryInv'
  BY <1>1, EntryFrame DEF accounts, LeaveClient, Disconnect, tables
<1>2. ASSUME NEW m \in Msgs, OneChat(m) PROVE EntryInv'
  BY <1>2, EntryFrame
     DEF accounts, OneChat, FindConn, QueryState, SendToConn, Publish, StoreOffline, tables,
         connVars
<1>3. ASSUME NEW s \in Servers, RedisExecutes(s) \/ \E m \in Msgs : Observe(s, m)
      PROVE  EntryInv'
  BY <1>3, EntryFrame DEF accounts, RedisExecutes, Observe, tables, connVars
<1>4. CASE UNCHANGED vars
  BY <1>4, EntryFrame DEF accounts, vars, tables, connVars
<1> QED  BY <1>1, <1>2, <1>3, <1>4, EntryLogin, EntryLeave, EntryCrash DEF Next

LEMMA EntryInit == Init => EntryInv
<1> QED  BY ClusterAssumption DEF Init, EntryInv

\* No map has an entry of a connection that is closed and handled.
THEOREM NoEntryIsDead == Spec => []NoDeadEntry
<1>1. TypeOK /\ EntryInv => NoDeadEntry
  BY DEF TypeOK, EntryInv, NoDeadEntry, Over
<1> QED  BY <1>1, TypeInit, TypeNext, EntryInit, EntryNext, PTL DEF Spec
-----------------------------------------------------------------------------
(* Nobody left online *)

\* A handler that has set, or is about to set, the state.
Pending == {"insert", "logoutOffline", "closeOffline"}

\* What will put user u offline again: a connection in a map, a handler that will
\* enter one or that has just erased one; unless a crash has ended it.
Witness(u, c) ==
  /\ UserOf[c] = u
  /\ \/ ServerOf[c] \in crashed
     \/ at[c] \in Pending
     \/ userConnMap[ServerOf[c]][u] = c

OnlineInv == \A u \in Users : state[u] = "online" => \E c \in Conns : Witness(u, c)

LEMMA OnlineFrame == OnlineInv /\ UNCHANGED accounts => OnlineInv'
<1> QED  BY DEF OnlineInv, Witness, accounts

LEMMA OnlineLogin ==
  ASSUME TypeOK, EntryInv, OnlineInv, NEW c \in Conns, Login(c)
  PROVE  OnlineInv'
<1> SUFFICES ASSUME NEW u \in Users, state'[u] = "online"
             PROVE  \E d \in Conns : Witness(u, d)'
  BY DEF OnlineInv
<1>1. CASE SetOnline(c)
  <2>1. at'[c] = "insert" /\ \A e \in Conns \ {c} : at'[e] = at[e]
    BY <1>1 DEF SetOnline, Step, TypeOK
  <2>2. CASE u = UserOf[c]
    BY <2>1, <2>2 DEF Witness, Pending
  <2>3. CASE u # UserOf[c]
    <3>1. state[u] = "online"
      BY <1>1, <2>3, OfConn DEF SetOnline, SetState, TypeOK
    <3>2. PICK d \in Conns : Witness(u, d)
      BY <3>1 DEF OnlineInv
    <3>3. d # c
      BY <2>3, <3>2 DEF Witness
    <3> QED  BY <1>1, <2>1, <3>2, <3>3 DEF Witness, SetOnline
  <2> QED  BY <2>2, <2>3
<1>2. CASE InsertConn(c)
  <2>0. state[u] = "online" /\ crashed' = crashed
    BY <1>2 DEF InsertConn, tables
  <2>1. PICK d \in Conns : Witness(u, d)
    BY <2>0 DEF OnlineInv
  <2>2. at[c] = "insert" /\ \A e \in Conns \ {c} : at'[e] = at[e]
    BY <1>2 DEF InsertConn, Step, TypeOK
  <2>3. CASE d = c
    <3>1. u = UserOf[c]
      BY <2>1, <2>3 DEF Witness
    <3>2. CASE Entry(c) = NoConn
      BY <1>2, <3>1, <3>2, OfConn, SetEntryAt DEF InsertConn, Witness
    <3>3. CASE Entry(c) # NoConn
      <4>1. Entry(c) \in Conns /\ userConnMap' = userConnMap
        BY <1>2, <3>3, OfConn DEF InsertConn, Entry, TypeOK
      <4>2. UserOf[Entry(c)] = u /\ ServerOf[Entry(c)] = ServerOf[c]
        BY <3>1, <4>1, OfConn DEF EntryInv, Entry
      <4> QED  BY <3>1, <4>1, <4>2 DEF Witness, Entry
    <3> QED  BY <3>2, <3>3
  <2>4. CASE d # c
    <3>1. userConnMap[ServerOf[d]][u] = d => userConnMap'[ServerOf[d]][u] = d
      <4>1. CASE Entry(c) = NoConn
        BY <1>2, <4>1, OfConn, SetEntryAt, ClusterAssumption DEF InsertConn, Entry
      <4>2. CASE Entry(c) # NoConn
        BY <1>2, <4>2 DEF InsertConn
      <4> QED  BY <4>1, <4>2
    <3> QED  BY <2>0, <2>1, <2>2, <2>4, <3>1 DEF Witness
  <2> QED  BY <2>3, <2>4
<1>3. CASE CheckState(c) \/ Subscribe(c) \/ QueryOffline(c) \/ RemoveOffline(c) \/ Reply(c)
  <2>1. UNCHANGED <<state, userConnMap, crashed>>
    BY <1>3 DEF CheckState, Subscribe, QueryOffline, RemoveOffline, Reply, tables
  <2>2. at[c] \notin Pending /\ \A e \in Conns \ {c} : at'[e] = at[e]
    BY <1>3 DEF CheckState, Subscribe, QueryOffline, RemoveOffline, Reply, Step, Pending, TypeOK
  <2>3. PICK d \in Conns : Witness(u, d)
    BY <2>1 DEF OnlineInv
  <2> QED  BY <2>1, <2>2, <2>3 DEF Witness
<1> QED  BY <1>1, <1>2, <1>3 DEF Login

LEMMA OnlineLeave ==
  ASSUME TypeOK, EntryInv, OnlineInv, NEW c \in Conns, Leave(c)
  PROVE  OnlineInv'
<1> SUFFICES ASSUME NEW u \in Users, state'[u] = "online"
             PROVE  \E d \in Conns : Witness(u, d)'
  BY DEF OnlineInv
<1>1. state[u] = "online" /\ crashed' = crashed
  BY OfConn DEF Leave, Close, Logout, CloseScan, CloseErase, SetOffline, Unsubscribe, SetState,
                tables, TypeOK
<1>2. PICK d \in Conns : Witness(u, d)
  BY <1>1 DEF OnlineInv
<1>3. \A e \in Conns \ {c} : at'[e] = at[e]
  BY DEF Leave, Close, Logout, CloseScan, CloseErase, SetOffline, Unsubscribe, Step, TypeOK
<1>4. CASE Logout(c) \/ CloseErase(c)
  <2>1. /\ at[c] \notin Pending
        /\ at'[c] \in Pending
    BY <1>4 DEF Logout, CloseErase, Step, Pending, TypeOK
  <2>2. CASE u = UserOf[c]
    BY <2>1, <2>2 DEF Witness
  <2>3. CASE u # UserOf[c]
    <3>1. userConnMap'[ServerOf[d]][u] = userConnMap[ServerOf[d]][u]
      BY <1>4, <2>3, OfConn, SetEntryAt DEF Logout, CloseErase
    <3>2. d # c
      BY <1>2, <2>3 DEF Witness
    <3> QED  BY <1>1, <1>2, <1>3, <3>1, <3>2 DEF Witness
  <2> QED  BY <2>2, <2>3
<1>5. CASE CloseScan(c) \/ Unsubscribe(c)
  <2>1. userConnMap' = userConnMap /\ at[c] \notin Pending
    BY <1>5 DEF CloseScan, Unsubscribe, Step, Pending
  <2> QED  BY <1>1, <1>2, <1>3, <2>1 DEF Witness
<1>6. CASE SetOffline(c)
  <2>1. u # UserOf[c] /\ userConnMap' = userConnMap
    BY <1>6, OfConn DEF SetOffline, SetState, TypeOK
  <2>2. d # c
    BY <1>2, <2>1 DEF Witness
  <2> QED  BY <1>1, <1>2, <1>3, <2>1, <2>2 DEF Witness
<1> QED  BY <1>4, <1>5, <1>6 DEF Leave, Close

LEMMA OnlineCrash ==
  ASSUME TypeOK, OnlineInv, NEW s \in Servers, Crash(s)
  PROVE  OnlineInv'
<1> SUFFICES ASSUME NEW u \in Users, state'[u] = "online"
             PROVE  \E d \in Conns : Witness(u, d)'
  BY DEF OnlineInv
<1>1. PICK d \in Conns : Witness(u, d)
  BY DEF OnlineInv, Crash, tables
<1>2. CASE ServerOf[d] = s \/ ServerOf[d] \in crashed
  BY <1>1, <1>2 DEF Witness, Crash
<1>3. CASE ServerOf[d] # s /\ ServerOf[d] \notin crashed
  <2>1. at'[d] = at[d] /\ userConnMap'[ServerOf[d]] = userConnMap[ServerOf[d]]
    BY <1>3, OfConn DEF Crash, TypeOK
  <2> QED  BY <1>1, <1>3, <2>1 DEF Witness
<1> QED  BY <1>2, <1>3

LEMMA OnlineNext == TypeOK /\ EntryInv /\ OnlineInv /\ [Next]_vars => OnlineInv'
<1> SUFFICES ASSUME TypeOK, EntryInv, OnlineInv, [Next]_vars PROVE OnlineInv'
  OBVIOUS
<1>1. ASSUME NEW c \in Conns, LeaveClient(c) \/ Disconnect(c) PROVE OnlineInv'
  BY <1>1, OnlineFrame DEF accounts, LeaveClient, Disconnect, tables
<1>2. ASSUME NEW m \in Msgs, OneChat(m) PROVE OnlineInv'
  BY <1>2, OnlineFrame
     DEF accounts, OneChat, FindConn, QueryState, SendToConn, Publish, StoreOffline, tables,
         connVars
<1>3. ASSUME NEW s \in Servers, RedisExecutes(s) \/ \E m \in Msgs : Observe(s, m)
      PROVE  OnlineInv'
  BY <1>3, OnlineFrame DEF accounts, RedisExecutes, Observe, tables, connVars
<1>4. CASE UNCHANGED vars
  BY <1>4, OnlineFrame DEF accounts, vars, tables, connVars
<1> QED  BY <1>1, <1>2, <1>3, <1>4, OnlineLogin, OnlineLeave, OnlineCrash DEF Next

LEMMA OnlineInit == Init => OnlineInv
<1> QED  BY DEF Init, OnlineInv

\* When all connections of a user are over and none of their servers has crashed,
\* the user is offline.
THEOREM NobodyStaysOnline == Spec => []NobodyLeftOnline
<1>1. TypeOK /\ EntryInv /\ OnlineInv => NobodyLeftOnline
  <2> SUFFICES ASSUME TypeOK, EntryInv, OnlineInv, NEW u \in Users, state[u] = "online",
                      NEW c \in Conns, Witness(u, c)
               PROVE  UserOf[c] = u /\ ~(at[c] = "gone" /\ ServerOf[c] \notin crashed)
    BY DEF OnlineInv, NobodyLeftOnline, TypeOK
  <2> QED  BY OfConn DEF Witness, Pending, EntryInv, Over
<1> QED  BY <1>1, TypeInit, TypeNext, EntryInit, EntryNext, OnlineInit, OnlineNext, PTL DEF Spec
-----------------------------------------------------------------------------
(* Where a message can be lost *)

\* What a login has read is in its hands until the reply: only then may it go.
FetchedInv == \A c \in Conns : fetched[c] # {} => at[c] \in {"remove", "reply"}

LEMMA FetchedAlways == Spec => []FetchedInv
<1>1. Init => FetchedInv
  BY DEF Init, FetchedInv
<1>2. TypeOK /\ FetchedInv /\ [Next]_vars => FetchedInv'
  <2> SUFFICES ASSUME TypeOK, FetchedInv, [Next]_vars PROVE FetchedInv'
    OBVIOUS
  <2>1. ASSUME NEW c \in Conns, Login(c) PROVE FetchedInv'
    BY <2>1 DEF Login, CheckState, SetOnline, InsertConn, Subscribe, QueryOffline, RemoveOffline,
                Reply, Step, FetchedInv, TypeOK
  <2>2. ASSUME NEW c \in Conns, LeaveClient(c) \/ Disconnect(c) \/ Leave(c) PROVE FetchedInv'
    BY <2>2 DEF LeaveClient, Disconnect, Leave, Logout, Close, CloseScan, CloseErase, SetOffline,
                Unsubscribe, Step, FetchedInv, TypeOK
  <2>3. ASSUME NEW s \in Servers, Crash(s) PROVE FetchedInv'
    BY <2>3 DEF Crash, FetchedInv, TypeOK
  <2>4. CASE UNCHANGED connVars
    BY <2>4 DEF connVars, FetchedInv
  <2>5. \/ \E c \in Conns : Login(c) \/ LeaveClient(c) \/ Disconnect(c) \/ Leave(c)
        \/ \E s \in Servers : Crash(s)
        \/ UNCHANGED connVars
    BY DEF Next, OneChat, FindConn, QueryState, SendToConn, Publish, StoreOffline, RedisExecutes,
           Observe, vars
  <2> QED  BY <2>1, <2>2, <2>3, <2>4, <2>5
<1> QED  BY <1>1, <1>2, TypeCorrect, PTL DEF Spec

\* The message is sent, or stored, or on its way to one or the other.
Safe(m) ==
  \/ sending[m] \notin {"done", "cut"}
  \/ m \in told \cup offline
  \/ \E s \in Servers : m \in inbox[s]
  \/ \E c \in Conns : m \in fetched[c]

\* Its addressee's rows are deleted though no login has read this one.
DeletedUnread(m) == \E c \in Conns : RemoveOffline(c) /\ m \in offline \ fetched[c]

\* It is published when Redis knows of no subscription of its addressee: the
\* SUBSCRIBE of the login waits to be sent or executed, the UNSUBSCRIBE of an
\* earlier session has been executed after a newer SUBSCRIBE, or the
\* addressee has left since its state was read.
PublishedToNobody(m) == Publish(m) /\ \A s \in Servers : <<s, To[m]>> \notin subscribed

\* What NoMessageLost does not cover, and nothing else: a message is lost by a
\* login that deletes what was stored behind its query, by a PUBLISH that has no
\* subscriber, whatever the reason, or with a server that crashes
\* (ChatService.cpp:117-129, 236-256).
LostOnlyThere ==
  \A m \in Msgs :
    Safe(m) /\ ~Safe(m)' =>
      DeletedUnread(m) \/ PublishedToNobody(m) \/ \E s \in Servers : Crash(s)

LEMMA LossStep == TypeOK /\ FetchedInv /\ [Next]_vars => LostOnlyThere
<1> SUFFICES ASSUME TypeOK, FetchedInv, [Next]_vars, NEW m \in Msgs,
                    Safe(m), ~Safe(m)', \A s \in Servers : ~Crash(s)
             PROVE  DeletedUnread(m) \/ PublishedToNobody(m)
  BY DEF LostOnlyThere
<1> USE DEF Safe, TypeOK
<1>1. ASSUME NEW c \in Conns, RemoveOffline(c)
      PROVE  DeletedUnread(m)
  BY <1>1 DEF RemoveOffline, DeletedUnread, redisVars, msgVars
<1>2. ASSUME NEW c \in Conns, Login(c), ~RemoveOffline(c)
      PROVE  FALSE
  BY <1>2 DEF Login, CheckState, SetOnline, InsertConn, Subscribe, QueryOffline, Reply, Step,
              FetchedInv, redisVars, msgVars, tables
<1>3. ASSUME NEW n \in Msgs, Publish(n)
      PROVE  PublishedToNobody(m)
  BY <1>3 DEF Publish, Goes, PublishedToNobody, tables, connVars
<1>4. ASSUME NEW n \in Msgs, OneChat(n), ~Publish(n)
      PROVE  FALSE
  BY <1>4 DEF OneChat, FindConn, QueryState, SendToConn, StoreOffline, Goes, tables, redisVars, connVars
<1>5. ASSUME NEW s \in Servers, NEW n \in Msgs, Observe(s, n)
      PROVE  FALSE
  BY <1>5 DEF Observe, connVars
<1>6. CASE UNCHANGED <<sending, told, offline, inbox, fetched>>
  BY <1>6
<1>7. \/ \E c \in Conns : Login(c)
      \/ \E n \in Msgs : OneChat(n)
      \/ \E s \in Servers : \E n \in Msgs : Observe(s, n)
      \/ UNCHANGED <<sending, told, offline, inbox, fetched>>
  BY DEF Next, LeaveClient, Disconnect, Leave, Logout, Close, CloseScan, CloseErase, SetOffline,
         Unsubscribe, RedisExecutes, vars, tables, redisVars, connVars, msgVars
<1> QED  BY <1>1, <1>2, <1>3, <1>4, <1>5, <1>6, <1>7

\* For any numbers of users, servers, connections and messages a message is lost in
\* one of these steps; every other step of every thread keeps it, however logins,
\* logouts, commands to Redis and observers interleave (ChatService.cpp:117-129,
\* 236-277).
THEOREM MessagesLostOnlyThere == Spec => [][LostOnlyThere]_vars
BY LossStep, TypeCorrect, FetchedAlways, PTL DEF Spec
-----------------------------------------------------------------------------
(* The client *)

LEMMA ClientTypeInit == ClientInit => ClientTypeOK
<1> SUFFICES ASSUME ClientInit PROVE ClientTypeOK
  OBVIOUS
<1>1. <<>> \in Seq(Requests) /\ <<>> \in Seq(Answers)
  BY EmptySeq
<1>2. TablesTypeOK
  BY DEF ClientInit, TablesInit, TablesTypeOK
<1>3. /\ stream \in [Links -> {"unused", "open", "shut"}]
      /\ requests \in [Links -> Seq(Requests)]
      /\ answers \in [Links -> Seq(Answers)]
      /\ handler \in [Links -> HandlerPCs]
      /\ made \in [Links -> {0} \cup GroupIds]
  BY <1>1 DEF ClientInit, HandlerPCs
<1>4. /\ loggedIn \in BOOLEAN /\ quitting \in BOOLEAN /\ hasFd \in BOOLEAN
      /\ serving \in BOOLEAN /\ misread \in BOOLEAN /\ lengthy \in BOOLEAN
  BY Zenon DEF ClientInit
<1> QED  BY <1>2, <1>3, <1>4, ClientAssumption
         DEF ClientInit, ClientTypeOK, MainPCs, ReaderPCs, Leaving

LEMMA DeliveredType ==
  ASSUME ClientTypeOK, NEW c, c \in Links, NEW r \in Requests,
         Delivered(c, r) \/ WriteLost(c) \/ WriteFails(c)
  PROVE  requests' \in [Links -> Seq(Requests)]
<1>1. requests[c] \in Seq(Requests) /\ requests \in [Links -> Seq(Requests)]
  BY DEF ClientTypeOK
<1>2. Append(requests[c], r) \in Seq(Requests)
  BY <1>1, AppendProperties
<1> QED  BY <1>1, <1>2 DEF Delivered, WriteLost, WriteFails

LEMMA TakesType ==
  ASSUME ClientTypeOK, NEW c, c \in Links, NEW k \in 1 .. Len(answers[c]), Takes(c, k)
  PROVE  answers' \in [Links -> Seq(Answers)]
<1>1. answers[c] \in Seq(Answers) /\ answers \in [Links -> Seq(Answers)]
  BY DEF ClientTypeOK
<1>2. SubSeq(answers[c], k + 1, Len(answers[c])) \in Seq(Answers)
  BY <1>1, LenProperties, SubSeqProperties
<1> QED  BY <1>1, <1>2 DEF Takes

LEMMA SendsType ==
  ASSUME ClientTypeOK, NEW c \in Links, NEW a \in Answers, Sends(c, a)
  PROVE  answers' \in [Links -> Seq(Answers)]
<1>1. answers[c] \in Seq(Answers) /\ answers \in [Links -> Seq(Answers)]
  BY DEF ClientTypeOK
<1>2. Append(answers[c], a) \in Seq(Answers)
  BY <1>1, AppendProperties
<1> QED  BY <1>1, <1>2 DEF Sends

LEMMA DieType ==
  ASSUME ClientTypeOK, Die
  PROVE  /\ main' \in MainPCs /\ reader' \in ReaderPCs
         /\ stream' \in [Links -> {"unused", "open", "shut"}]
         /\ UNCHANGED <<asked, fd, loggedIn, quitting, hasFd, readLink>>
BY DEF Die, ClientTypeOK, MainPCs, ReaderPCs

LEMMA HandlesType ==
  ASSUME ClientTypeOK, NEW c \in Links, NEW r, NEW pc \in HandlerPCs, Handles(c, r, pc)
  PROVE  /\ requests' \in [Links -> Seq(Requests)]
         /\ handler' \in [Links -> HandlerPCs]
<1>1. /\ requests[c] \in Seq(Requests) /\ requests[c] # <<>>
      /\ requests \in [Links -> Seq(Requests)] /\ handler \in [Links -> HandlerPCs]
  BY DEF ClientTypeOK, Handles
<1>2. Tail(requests[c]) \in Seq(Requests)
  BY <1>1, HeadTailProperties
<1> QED  BY <1>1, <1>2 DEF Handles

\* The connection that main uses is there.
ClientFd == main \in {"ask", "await", "begin", "session", "shutdown", "close"} => fd # 0

\* The main thread's steps that read no answer and do not end the client.
LEMMA MainType ==
  ASSUME ClientTypeOK, ClientFd,
         \/ Run \/ (\E r \in {"login", "reg"} : Choose(r))
         \/ AnswerFails \/ StartReader \/ Quit \/ Unset \/ Shutdown \/ CloseFd \/ JoinReader
  PROVE  ClientTypeOK'
<1> USE DEF ClientTypeOK, MainPCs, Leaving, ReaderPCs
<1>1. CASE Run \/ \E r \in {"login", "reg"} : Choose(r)
  <2>1. fd' \in {0} \cup Links /\ stream' \in [Links -> {"unused", "open", "shut"}]
    BY <1>1 DEF Run, Choose, Connect
  <2>2. main' \in MainPCs /\ asked' \in {"login", "reg"}
    BY <1>1 DEF Run, Choose
  <2>3. UNCHANGED <<loggedIn, quitting, readerVars, requests, answers, serverVars,
                    histVars, tableVars>>
    BY <1>1 DEF Run, Choose
  <2> QED  BY <2>1, <2>2, <2>3 DEF readerVars, serverVars, histVars, tableVars, TablesTypeOK
<1>2. CASE AnswerFails \/ StartReader \/ JoinReader
  BY <1>2 DEF AnswerFails, StartReader, JoinReader, readerVars, serverVars, histVars, tableVars,
              TablesTypeOK
<1>3. CASE Quit
  <2>1. quitting' \in BOOLEAN
    BY <1>3, Zenon DEF Quit
  <2> QED  BY <1>3, <2>1 DEF Quit, readerVars, serverVars, histVars, tableVars, TablesTypeOK
<1>4. CASE Unset
  <2>1. loggedIn' \in BOOLEAN
    BY <1>4, Zenon DEF Unset
  <2> QED  BY <1>4, <2>1 DEF Unset, readerVars, serverVars, histVars, tableVars, TablesTypeOK
<1>5. CASE Shutdown \/ CloseFd
  <2>1. fd \in Links /\ stream' \in [Links -> {"unused", "open", "shut"}]
    BY <1>5 DEF Shutdown, CloseFd, ClientFd
  <2>2. CASE Shutdown
    BY <2>1, <2>2 DEF Shutdown, readerVars, serverVars, histVars, tableVars, TablesTypeOK
  <2>3. CASE CloseFd
    BY <2>1, <2>3 DEF CloseFd, readerVars, serverVars, histVars, tableVars, TablesTypeOK
  <2> QED  BY <1>5, <2>2, <2>3
<1> QED  BY <1>1, <1>2, <1>3, <1>4, <1>5

LEMMA WriteType ==
  ASSUME ClientTypeOK, ClientFd,
         Ask \/ Loginout \/ \E r \in SessionCommands : WriteCommand(r)
  PROVE  ClientTypeOK'
<1> USE DEF ClientTypeOK
<1>1. CASE Ask
  <2>1. fd \in Links /\ asked \in Requests
    BY <1>1 DEF Ask, ClientFd, Requests
  <2>2. requests' \in [Links -> Seq(Requests)]
    BY <1>1, <2>1, DeliveredType DEF Ask
  <2> QED  BY <1>1, <2>2
           DEF Ask, MainPCs, readerVars, serverVars, histVars, tableVars, TablesTypeOK
<1>2. CASE Loginout
  <2>1. fd \in Links /\ "loginout" \in Requests
    BY <1>2 DEF Loginout, ClientFd, Requests
  <2>2. requests' \in [Links -> Seq(Requests)]
    BY <1>2, <2>1, DeliveredType DEF Loginout
  <2> QED  BY <1>2, <2>2
           DEF Loginout, MainPCs, Leaving, readerVars, serverVars, histVars, tableVars, TablesTypeOK
<1>3. ASSUME NEW r \in SessionCommands, WriteCommand(r)
      PROVE  ClientTypeOK'
  <2>1. fd \in Links /\ r \in Requests
    BY <1>3 DEF WriteCommand, ClientFd, Requests
  <2>2. requests' \in [Links -> Seq(Requests)]
    BY <1>3, <2>1, DeliveredType DEF WriteCommand
  <2>3. commanded' \in 0 .. MaxCommands
    BY <1>3, ClientAssumption DEF WriteCommand
  <2> QED  BY <1>3, <2>2, <2>3
           DEF WriteCommand, mainVars, readerVars, serverVars, tableVars, TablesTypeOK
<1> QED  BY <1>1, <1>2, <1>3

LEMMA AnswerType ==
  ASSUME ClientTypeOK, ClientFd,
         GetAnswer \/ AnswerThrows \/ AskKilled \/ SessionKilled
  PROVE  ClientTypeOK'
<1> USE DEF ClientTypeOK
<1>1. CASE GetAnswer
  <2>1. fd \in Links /\ answers[fd] \in Seq(Answers) /\ answers[fd] # <<>>
    BY <1>1 DEF GetAnswer, ClientFd
  <2>2. 1 \in 1 .. Len(answers[fd])
    BY <2>1, EmptySeq, LenProperties
  <2>3. answers' \in [Links -> Seq(Answers)]
    BY <1>1, <2>1, <2>2, TakesType DEF GetAnswer
  <2>4. loggedIn' \in BOOLEAN
    BY <1>1, Zenon DEF GetAnswer
  <2> QED  BY <1>1, <2>3, <2>4
           DEF GetAnswer, MainPCs, readerVars, serverVars, histVars, tableVars, TablesTypeOK
<1>2. CASE AnswerThrows
  <2>1. fd \in Links /\ answers[fd] \in Seq(Answers)
    BY <1>2 DEF AnswerThrows, ClientFd
  <2>2. answers' = answers \/ \E k \in 1 .. Len(answers[fd]) : Takes(fd, k)
    BY <1>2, <2>1, EmptySeq, LenProperties DEF AnswerThrows
  <2>3. answers' \in [Links -> Seq(Answers)]
    BY <2>1, <2>2, TakesType
  <2> QED  BY <1>2, <2>3, DieType
           DEF AnswerThrows, serverVars, histVars, tableVars, TablesTypeOK
<1>3. CASE AskKilled \/ SessionKilled
  <2>1. Die /\ UNCHANGED <<requests, answers, serverVars, histVars, tableVars>>
    BY <1>3 DEF AskKilled, SessionKilled, WriteFails
  <2> QED  BY <2>1, DieType DEF serverVars, histVars, tableVars, TablesTypeOK
<1> QED  BY <1>1, <1>2, <1>3

LEMMA ReaderType ==
  ASSUME ClientTypeOK, ReaderStep, reader = "read" => readLink \in Links
  PROVE  ClientTypeOK'
<1> USE DEF ClientTypeOK
<1>1. CASE ReaderTest \/ ReaderEnter \/ ReaderEnds
  BY <1>1 DEF ReaderTest, ReaderEnter, ReaderEnds, ReaderPCs, mainVars, serverVars, histVars,
              tableVars, TablesTypeOK
<1>2. CASE ReaderLoad
  <2>1. hasFd' \in BOOLEAN
    BY <1>2, Zenon DEF ReaderLoad
  <2> QED  BY <1>2, <2>1
           DEF ReaderLoad, ReaderPCs, mainVars, serverVars, histVars, tableVars, TablesTypeOK
<1>3. CASE ReaderPrints
  <2>1. readLink \in Links /\ answers[readLink] \in Seq(Answers) /\ answers[readLink] # <<>>
    BY <1>3 DEF ReaderPrints
  <2>2. 1 \in 1 .. Len(answers[readLink])
    BY <2>1, EmptySeq, LenProperties
  <2>3. answers' \in [Links -> Seq(Answers)]
    BY <1>3, <2>1, <2>2, TakesType DEF ReaderPrints
  <2> QED  BY <1>3, <2>3
           DEF ReaderPrints, ReaderPCs, mainVars, serverVars, histVars, tableVars, TablesTypeOK
<1>4. CASE ReaderThrows
  <2>1. answers' \in [Links -> Seq(Answers)]
    BY <1>4, TakesType DEF ReaderThrows
  <2> QED  BY <1>4, <2>1, DieType
           DEF ReaderThrows, serverVars, histVars, tableVars, TablesTypeOK
<1> QED  BY <1>1, <1>2, <1>3, <1>4 DEF ReaderStep

\* The steps of a handler that touch no table.
LEMMA AnsweringType ==
  ASSUME ClientTypeOK, NEW c \in Links,
         \/ Refuse(c) \/ Accept(c) \/ Enlist(c) \/ Welcome(c) \/ Register(c) \/ Chat(c)
         \/ HandleLoginout(c) \/ HandleEnd(c) \/ Push(c)
  PROVE  ClientTypeOK'
<1> USE DEF ClientTypeOK
<1>1. CASE Refuse(c) \/ Register(c)
  <2>1. "idle" \in HandlerPCs /\ {"refused", "reg"} \subseteq Answers
    BY DEF HandlerPCs, Answers, Welcomes
  <2>2. /\ requests' \in [Links -> Seq(Requests)] /\ handler' \in [Links -> HandlerPCs]
        /\ answers' \in [Links -> Seq(Answers)]
    BY <1>1, <2>1, HandlesType, SendsType DEF Refuse, Register
  <2> QED  BY <1>1, <2>2
           DEF Refuse, Register, mainVars, readerVars, histVars, tableVars, TablesTypeOK
<1>2. CASE Accept(c) \/ Chat(c)
  <2>1. /\ requests' \in [Links -> Seq(Requests)] /\ handler' \in [Links -> HandlerPCs]
    BY <1>2, HandlesType DEF Accept, Chat, HandlerPCs
  <2> QED  BY <1>2, <2>1 DEF Accept, Chat, mainVars, readerVars, histVars, tableVars, TablesTypeOK
<1>3. CASE Enlist(c) \/ HandleEnd(c)
  BY <1>3 DEF Enlist, HandleEnd, HandlerPCs, mainVars, readerVars, histVars, tableVars, TablesTypeOK
<1>4. CASE Welcome(c)
  <2>1. {"welcome", "pieces", "long"} \subseteq Answers
    BY DEF Answers, Welcomes
  <2>2. answers' \in [Links -> Seq(Answers)]
    BY <1>4, <2>1, SendsType DEF Welcome
  <2>3. lengthy' \in BOOLEAN
    BY <1>4, Zenon DEF Welcome
  <2> QED  BY <1>4, <2>2, <2>3
           DEF Welcome, HandlerPCs, mainVars, readerVars, tableVars, TablesTypeOK
<1>5. CASE HandleLoginout(c)
  <2>1. /\ requests' \in [Links -> Seq(Requests)] /\ handler' \in [Links -> HandlerPCs]
    BY <1>5, HandlesType DEF HandleLoginout, HandlerPCs
  <2> QED  BY <1>5, <2>1
           DEF HandleLoginout, mainVars, readerVars, histVars, tableVars, TablesTypeOK
<1>6. CASE Push(c)
  <2>1. answers' \in [Links -> Seq(Answers)]
    BY <1>6, SendsType DEF Push, Answers, Welcomes
  <2>2. pushed' \in 0 .. MaxPushes
    BY <1>6, ClientAssumption DEF Push
  <2> QED  BY <1>6, <2>1, <2>2
           DEF Push, mainVars, readerVars, serverVars, tableVars, TablesTypeOK
<1> QED  BY <1>1, <1>2, <1>3, <1>4, <1>5, <1>6

LEMMA InsertType ==
  ASSUME TablesTypeOK,
         \/ StatementFails
         \/ \E a, b \in People : InsertFriend(a, b)
         \/ \E g \in GroupIds : InsertGroup(g)
         \/ \E g \in GroupIds, role \in Roles : InsertMember(g, role)
  PROVE  TablesTypeOK'
<1> USE DEF TablesTypeOK
<1>1. CASE StatementFails
  <2>1. faulted' \in BOOLEAN
    BY <1>1, Zenon DEF StatementFails
  <2> QED  BY <1>1, <2>1 DEF StatementFails
<1>2. ASSUME NEW a \in People, NEW b \in People, InsertFriend(a, b) PROVE TablesTypeOK'
  BY <1>1, <1>2 DEF InsertFriend
<1>3. ASSUME NEW g \in GroupIds, InsertGroup(g) PROVE TablesTypeOK'
  BY <1>3 DEF InsertGroup
<1>4. ASSUME NEW g \in GroupIds, NEW role \in Roles, InsertMember(g, role) PROVE TablesTypeOK'
  BY <1>1, <1>4 DEF InsertMember
<1> QED  BY <1>1, <1>2, <1>3, <1>4

\* Between its two statements createGroup knows the group it has made.
ClientMade == \A c \in Links : handler[c] = "creator" => made[c] \in allgroup

\* The steps of a handler that write the tables.
LEMMA TablesType ==
  ASSUME ClientTypeOK, ClientMade, NEW c \in Links,
         AddFriend(c) \/ FriendBack(c) \/ CreateGroup(c) \/ AddCreator(c) \/ AddGroup(c)
  PROVE  ClientTypeOK'
<1> USE DEF ClientTypeOK
<1>0. People = {"user", "friend"} /\ Roles = {"creator", "normal"}
  BY DEF People, Roles
<1>1. CASE AddFriend(c)
  <2>1. TablesTypeOK'
    BY <1>0, <1>1, InsertType DEF AddFriend
  <2>2. /\ requests' \in [Links -> Seq(Requests)] /\ handler' \in [Links -> HandlerPCs]
    BY <1>1, HandlesType DEF AddFriend, HandlerPCs
  <2> QED  BY <1>1, <2>1, <2>2 DEF AddFriend, mainVars, readerVars, histVars
<1>2. CASE FriendBack(c)
  <2>1. TablesTypeOK'
    BY <1>0, <1>2, InsertType DEF FriendBack
  <2> QED  BY <1>2, <2>1 DEF FriendBack, HandlerPCs, mainVars, readerVars, histVars
<1>3. CASE CreateGroup(c)
  <2>1. TablesTypeOK'
    BY <1>3, InsertType DEF CreateGroup
  <2>2. /\ requests' \in [Links -> Seq(Requests)] /\ handler' \in [Links -> HandlerPCs]
    BY <1>3, HandlesType DEF CreateGroup, HandlerPCs
  <2>3. made' \in [Links -> {0} \cup GroupIds]
    BY <1>3 DEF CreateGroup
  <2> QED  BY <1>3, <2>1, <2>2, <2>3 DEF CreateGroup, mainVars, readerVars, histVars
<1>4. CASE AddCreator(c)
  <2>1. made[c] \in GroupIds
    BY <1>4 DEF AddCreator, ClientMade, TablesTypeOK
  <2>2. TablesTypeOK'
    BY <1>0, <1>4, <2>1, InsertType DEF AddCreator
  <2> QED  BY <1>4, <2>2 DEF AddCreator, HandlerPCs, mainVars, readerVars, histVars
<1>5. CASE AddGroup(c)
  <2>1. TablesTypeOK'
    BY <1>0, <1>5, InsertType DEF AddGroup
  <2>2. /\ requests' \in [Links -> Seq(Requests)] /\ handler' \in [Links -> HandlerPCs]
    BY <1>5, HandlesType DEF AddGroup, HandlerPCs
  <2> QED  BY <1>5, <2>1, <2>2 DEF AddGroup, mainVars, readerVars, histVars
<1> QED  BY <1>1, <1>2, <1>3, <1>4, <1>5

LEMMA DeathType ==
  ASSUME ClientTypeOK, Killed \/ Restarted \/ \E c \in Links : Misread(c)
  PROVE  ClientTypeOK'
<1> USE DEF ClientTypeOK
<1>1. CASE Restarted
  <2>1. serving' \in BOOLEAN
    BY <1>1, Zenon DEF Restarted
  <2> QED  BY <1>1, <2>1 DEF Restarted, mainVars, readerVars, histVars, tableVars, TablesTypeOK
<1>2. ASSUME ServerDies, misread' \in BOOLEAN
      PROVE  ClientTypeOK'
  <2>1. requests' \in [Links -> Seq(Requests)]
    BY <1>2, EmptySeq DEF ServerDies
  <2>2. handler' \in [Links -> HandlerPCs]
    BY <1>2 DEF ServerDies, HandlerPCs
  <2>3. serving' \in BOOLEAN /\ faulted' \in BOOLEAN
    BY <1>2, Zenon DEF ServerDies, TablesTypeOK
  <2>4. TablesTypeOK'
    BY <1>2, <2>3 DEF ServerDies, TablesTypeOK
  <2> QED  BY <1>2, <2>1, <2>2, <2>3, <2>4 DEF ServerDies, mainVars, readerVars
<1>3. CASE Killed
  BY <1>2, <1>3 DEF Killed
<1>4. CASE \E c \in Links : Misread(c)
  <2>1. misread' \in BOOLEAN
    BY <1>4, Zenon DEF Misread
  <2> QED  BY <1>2, <1>4, <2>1 DEF Misread
<1> QED  BY <1>1, <1>3, <1>4

\* What the type of a step rests on: descriptors are there when they are used.
ClientBase ==
  /\ ClientTypeOK
  /\ ClientFd
  /\ ClientMade
  /\ reader = "read" => readLink \in Links

LEMMA ClientTypeStep ==
  ASSUME ClientBase, [ClientNext]_clientVars
  PROVE  ClientTypeOK'
<1>1. CASE MainStep \/ UserStep
  BY <1>1, MainType, WriteType, AnswerType DEF MainStep, UserStep, ClientBase
<1>2. CASE ReaderStep
  BY <1>2, ReaderType DEF ClientBase
<1>3. ASSUME NEW c \in Links, HandlerStep(c) \/ Push(c) PROVE ClientTypeOK'
  BY <1>3, AnsweringType, TablesType DEF HandlerStep, ClientBase
<1>4. CASE Killed \/ Restarted \/ \E c \in Links : Misread(c)
  BY <1>4, DeathType DEF ClientBase
<1>5. CASE UNCHANGED clientVars
  BY <1>5 DEF ClientBase, ClientTypeOK, clientVars, mainVars, readerVars, serverVars, histVars,
              tableVars, TablesTypeOK
<1> QED  BY <1>1, <1>2, <1>3, <1>4, <1>5 DEF ClientNext

LEMMA ClientFdStep ==
  ASSUME ClientBase, [ClientNext]_clientVars
  PROVE  ClientFd' /\ (reader' = "read" => readLink' \in Links)
<1>1. CASE Run \/ \E r \in {"login", "reg"} : Choose(r)
  BY <1>1, ClientAssumption
     DEF Run, Choose, Connect, Links, readerVars, ClientBase, ClientFd, ClientTypeOK
<1>2. CASE Ask \/ GetAnswer \/ AnswerFails \/ StartReader \/ Loginout \/ Quit \/ Unset
           \/ Shutdown \/ CloseFd \/ JoinReader \/ \E r \in SessionCommands : WriteCommand(r)
  <2>1. UNCHANGED readLink /\ (reader' = "read" => reader = "read")
    BY <1>2 DEF Ask, GetAnswer, AnswerFails, StartReader, Loginout, Quit, Unset, Shutdown,
                CloseFd, JoinReader, WriteCommand, readerVars
  <2>2. ClientFd'
    BY <1>2 DEF Ask, GetAnswer, AnswerFails, StartReader, Loginout, Quit, Unset, Shutdown,
                CloseFd, JoinReader, WriteCommand, mainVars, ClientBase, ClientFd
  <2> QED  BY <2>1, <2>2 DEF ClientBase
<1>3. CASE AnswerThrows \/ AskKilled \/ SessionKilled \/ ReaderThrows
  BY <1>3 DEF AnswerThrows, AskKilled, SessionKilled, ReaderThrows, Die, ClientFd
<1>4. CASE ReaderTest \/ ReaderLoad \/ ReaderEnter \/ ReaderPrints \/ ReaderEnds
  <2>1. UNCHANGED <<main, fd>>
    BY <1>4 DEF ReaderTest, ReaderLoad, ReaderEnter, ReaderPrints, ReaderEnds, mainVars
  <2>2. reader' = "read" => readLink' \in Links
    BY <1>4 DEF ReaderTest, ReaderLoad, ReaderEnter, ReaderPrints, ReaderEnds,
                ClientBase, ClientTypeOK
  <2> QED  BY <2>1, <2>2 DEF ClientBase, ClientFd
<1>5. CASE UNCHANGED <<mainVars, readerVars>>
  BY <1>5 DEF mainVars, readerVars, ClientBase, ClientFd
<1>6. ASSUME NEW c \in Links, HandlerStep(c) \/ Misread(c) \/ Push(c)
      PROVE  UNCHANGED <<mainVars, readerVars>>
  BY <1>6 DEF HandlerStep, Misread, ServerDies, Push, Refuse, Accept, Enlist, Welcome, Register,
              Chat, AddFriend, FriendBack, CreateGroup, AddCreator, AddGroup, HandleLoginout, HandleEnd
<1>7. CASE Killed \/ Restarted \/ UNCHANGED clientVars
  BY <1>5, <1>7 DEF Killed, ServerDies, Restarted, clientVars
<1> QED  BY <1>1, <1>2, <1>3, <1>4, <1>5, <1>6, <1>7 DEF ClientNext, MainStep, UserStep, ReaderStep

\* What every step but those of the two-statement commands leaves alone.
LEMMA HandlersKeep ==
  ASSUME ClientBase, [ClientNext]_clientVars,
         \A c \in Links : ~(AddFriend(c) \/ FriendBack(c) \/ CreateGroup(c)
                              \/ AddCreator(c) \/ AddGroup(c))
  PROVE  /\ UNCHANGED <<friendRows, allgroup, groupuser, made>>
         /\ \A c \in Links : handler'[c] \in HalfWay => handler'[c] = handler[c]
         /\ faulted' = faulted \/ faulted' = TRUE
         /\ ~faulted' => /\ ~faulted
                         /\ \A c \in Links : handler[c] \in HalfWay => handler'[c] = handler[c]
<1>1. CASE MainStep \/ UserStep \/ ReaderStep \/ UNCHANGED clientVars
  <2>1. UNCHANGED <<friendRows, allgroup, groupuser, faulted, made, handler>>
    BY <1>1 DEF MainStep, GetAnswer, AnswerFails, AnswerThrows, StartReader, Unset, Shutdown,
         CloseFd, JoinReader, UserStep, Run, Choose, Ask, AskKilled, WriteCommand, Loginout,
         SessionKilled, Quit, ReaderStep, ReaderTest, ReaderLoad, ReaderEnter, ReaderPrints,
         ReaderThrows, ReaderEnds, serverVars, tableVars, clientVars
  <2> QED  BY <2>1
<1>2. ASSUME NEW c \in Links,
             \/ Refuse(c) \/ Accept(c) \/ Enlist(c) \/ Welcome(c) \/ Register(c) \/ Chat(c)
             \/ HandleLoginout(c) \/ HandleEnd(c) \/ Push(c)
      PROVE  /\ UNCHANGED <<friendRows, allgroup, groupuser, faulted, made>>
             /\ \A d \in Links : handler'[d] \in HalfWay => handler'[d] = handler[d]
             /\ \A d \in Links : handler[d] \in HalfWay => handler'[d] = handler[d]
  <2>1. UNCHANGED <<friendRows, allgroup, groupuser, faulted, made>>
    BY <1>2 DEF Refuse, Accept, Enlist, Welcome, Register, Chat, HandleLoginout, HandleEnd, Push,
                serverVars, tableVars
  <2>2. \/ handler' = handler
        \/ /\ handler[c] \notin HalfWay
           /\ \E pc \in HandlerPCs \ HalfWay : handler' = [handler EXCEPT ![c] = pc]
    BY <1>2 DEF Refuse, Accept, Enlist, Welcome, Register, Chat, HandleLoginout, HandleEnd, Push,
                Handles, HalfWay, HandlerPCs, serverVars
  <2> QED  BY <2>1, <2>2 DEF ClientBase, ClientTypeOK
<1>3. CASE Killed \/ \E c \in Links : Misread(c)
  <2>1. ServerDies
    BY <1>3 DEF Killed, Misread
  <2>2. \A c \in Links : handler'[c] = handler[c] \/ handler'[c] = "closed"
    BY <2>1 DEF ServerDies
  <2>3. faulted' = (faulted \/ \E c \in Links : handler[c] \in HalfWay)
    BY <2>1 DEF ServerDies
  <2>4. faulted' = faulted \/ faulted' = TRUE
    BY <2>3 DEF ClientBase, ClientTypeOK, TablesTypeOK
  <2>5. UNCHANGED <<friendRows, allgroup, groupuser, made>>
    BY <2>1 DEF ServerDies
  <2>6. \A c \in Links : handler'[c] \in HalfWay => handler'[c] = handler[c]
    BY <2>2 DEF HalfWay
  <2>7. ~faulted' => ~faulted /\ \A c \in Links : handler[c] \notin HalfWay
    BY <2>3, Zenon
  <2> QED  BY <2>4, <2>5, <2>6, <2>7
<1>4. CASE Restarted
  BY <1>4 DEF Restarted, tableVars
<1> QED  BY <1>1, <1>2, <1>3, <1>4 DEF ClientNext, HandlerStep

LEMMA ClientMadeStep ==
  ASSUME ClientBase, [ClientNext]_clientVars
  PROVE  ClientMade'
<1>1. ASSUME NEW c \in Links, CreateGroup(c)
      PROVE  ClientMade'
  <2>1. CASE \E g \in GroupIds : /\ Handles(c, "creategroup", "creator")
                                 /\ InsertGroup(g)
                                 /\ made' = [made EXCEPT ![c] = g]
    BY <2>1 DEF Handles, InsertGroup, ClientBase, ClientMade, ClientTypeOK
  <2>2. CASE Handles(c, "creategroup", "idle") /\ StatementFails /\ UNCHANGED made
    BY <2>2 DEF Handles, StatementFails, ClientBase, ClientMade, ClientTypeOK
  <2> QED  BY <1>1, <2>1, <2>2 DEF CreateGroup
<1>2. ASSUME NEW c \in Links, AddFriend(c) \/ FriendBack(c) \/ AddCreator(c) \/ AddGroup(c)
      PROVE  ClientMade'
  <2>1. UNCHANGED <<allgroup, made>>
    BY <1>2 DEF AddFriend, FriendBack, AddCreator, AddGroup, InsertFriend, InsertMember, StatementFails
  <2>2. \E pc \in {"idle", "back"} : handler' = [handler EXCEPT ![c] = pc]
    BY <1>2 DEF AddFriend, FriendBack, AddCreator, AddGroup, Handles
  <2> QED  BY <2>1, <2>2 DEF ClientBase, ClientMade, ClientTypeOK
<1>3. CASE \A c \in Links : ~(AddFriend(c) \/ FriendBack(c) \/ CreateGroup(c)
                                \/ AddCreator(c) \/ AddGroup(c))
  <2>1. /\ UNCHANGED <<allgroup, made>>
        /\ \A c \in Links : handler'[c] \in HalfWay => handler'[c] = handler[c]
    BY <1>3, HandlersKeep
  <2> QED  BY <2>1 DEF HalfWay, ClientBase, ClientMade
<1> QED  BY <1>1, <1>2, <1>3

LEMMA ClientBaseHolds == ClientSpec => []ClientBase
<1>1. ClientInit => ClientBase
  BY ClientTypeInit DEF ClientInit, ClientBase, ClientFd, ClientMade
<1>2. ClientBase /\ [ClientNext]_clientVars => ClientBase'
  BY ClientTypeStep, ClientFdStep, ClientMadeStep DEF ClientBase
<1> QED  BY <1>1, <1>2, PTL DEF ClientSpec

\* The type invariant of the client, the server's handlers and the tables
\* (ChatClient.cpp:22-110, ChatService.cpp:9-56).
THEOREM ClientTypeCorrect == ClientSpec => []ClientTypeOK
<1>1. ClientBase => ClientTypeOK
  BY DEF ClientBase
<1> QED  BY <1>1, ClientBaseHolds, PTL

\* One thread at a time reads the connection (ChatClient.cpp:151-155, 264-276).
THEOREM ClientOneReader == ClientSpec => []OneReader
<1> DEFINE Inv == OneReader /\ (main = "start" => reader = "none")
<1>1. ClientInit => Inv
  BY DEF ClientInit, OneReader
<1>2. Inv /\ [ClientNext]_clientVars => Inv'
  <2> SUFFICES ASSUME Inv, [ClientNext]_clientVars PROVE Inv'
    OBVIOUS
  <2>1. CASE Run \/ (\E r \in {"login", "reg"} : Choose(r)) \/ Ask \/ GetAnswer \/ AnswerFails
             \/ StartReader \/ Loginout \/ Quit \/ Unset \/ Shutdown \/ CloseFd \/ JoinReader
             \/ \E r \in SessionCommands : WriteCommand(r)
    BY <2>1 DEF Run, Choose, Ask, GetAnswer, AnswerFails, StartReader, Loginout, Quit, Unset,
                Shutdown, CloseFd, JoinReader, WriteCommand, readerVars, mainVars, OneReader
  <2>2. CASE AnswerThrows \/ AskKilled \/ SessionKilled \/ ReaderThrows
    BY <2>2 DEF AnswerThrows, AskKilled, SessionKilled, ReaderThrows, Die, OneReader
  <2>3. CASE ReaderTest \/ ReaderLoad \/ ReaderEnter \/ ReaderPrints \/ ReaderEnds
    BY <2>3 DEF ReaderTest, ReaderLoad, ReaderEnter, ReaderPrints, ReaderEnds, mainVars, OneReader
  <2>4. CASE UNCHANGED <<mainVars, readerVars>>
    BY <2>4 DEF mainVars, readerVars, OneReader
  <2>5. ASSUME NEW c \in Links, HandlerStep(c) \/ Misread(c) \/ Push(c)
        PROVE  UNCHANGED <<mainVars, readerVars>>
    BY <2>5 DEF HandlerStep, Misread, ServerDies, Push, Refuse, Accept, Enlist, Welcome, Register,
                Chat, AddFriend, FriendBack, CreateGroup, AddCreator, AddGroup, HandleLoginout,
                HandleEnd
  <2>6. CASE Killed \/ Restarted \/ UNCHANGED clientVars
    BY <2>4, <2>6 DEF Killed, ServerDies, Restarted, clientVars
  <2> QED  BY <2>1, <2>2, <2>3, <2>4, <2>5, <2>6
           DEF ClientNext, MainStep, UserStep, ReaderStep
<1>3. Inv => OneReader
  OBVIOUS
<1> QED  BY <1>1, <1>2, <1>3, PTL DEF ClientSpec

\* Where the two statements of addFriend and createGroup are: what the second one
\* has to complete is known to a handler that is between them.
FriendsAt ==
  /\ friendRows \subseteq {<<"user", "friend">>, <<"friend", "user">>}
  /\ <<"friend", "user">> \in friendRows => <<"user", "friend">> \in friendRows
  /\ <<"user", "friend">> \in friendRows =>
       <<"friend", "user">> \in friendRows \/ \E c \in Links : handler[c] = "back"
  /\ \A c \in Links : handler[c] = "back" => <<"user", "friend">> \in friendRows

GroupsAt ==
  \A g \in allgroup : HasCreator(g) \/ \E c \in Links : handler[c] = "creator" /\ made[c] = g

TablesInv ==
  /\ \A g \in GroupIds : HasCreator(g) => g \in allgroup
  /\ ~faulted => FriendsAt /\ GroupsAt

LEMMA FriendSteps ==
  ASSUME ClientBase, TablesInv, NEW c \in Links, AddFriend(c) \/ FriendBack(c)
  PROVE  TablesInv'
<1>1. UNCHANGED <<allgroup, groupuser, made>>
  BY DEF AddFriend, FriendBack, InsertFriend, StatementFails
<1>2. \A g \in GroupIds : HasCreator(g)' => g \in allgroup'
  BY <1>1 DEF TablesInv, HasCreator
<1>3. CASE faulted'
  BY <1>2, <1>3 DEF TablesInv
<1>4. CASE ~faulted'
  <2>1. ~faulted /\ FriendsAt /\ GroupsAt
    BY <1>4 DEF AddFriend, FriendBack, InsertFriend, StatementFails, TablesInv
  <2>2. \/ /\ friendRows' = friendRows \cup {<<"user", "friend">>}
           /\ handler[c] = "idle" /\ handler' = [handler EXCEPT ![c] = "back"]
        \/ /\ friendRows' = friendRows \cup {<<"friend", "user">>}
           /\ handler[c] = "back" /\ handler' = [handler EXCEPT ![c] = "idle"]
    BY <1>4 DEF AddFriend, FriendBack, InsertFriend, StatementFails, Handles
  <2>3. handler \in [Links -> HandlerPCs]
    BY DEF ClientBase, ClientTypeOK
  <2>4. FriendsAt'
    BY <2>1, <2>2, <2>3 DEF FriendsAt
  <2>5. \A d \in Links : handler[d] = "creator" => handler'[d] = "creator"
    BY <2>2, <2>3
  <2>6. GroupsAt'
    BY <1>1, <2>1, <2>5 DEF GroupsAt, HasCreator
  <2> QED  BY <1>2, <2>4, <2>6 DEF TablesInv
<1> QED  BY <1>3, <1>4

LEMMA GroupSteps ==
  ASSUME ClientBase, TablesInv, NEW c \in Links, CreateGroup(c) \/ AddCreator(c) \/ AddGroup(c)
  PROVE  TablesInv'
<1>0. handler \in [Links -> HandlerPCs] /\ made \in [Links -> {0} \cup GroupIds]
  BY DEF ClientBase, ClientTypeOK
<1>1. CASE CreateGroup(c)
  <2>1. CASE \E g \in GroupIds : /\ Handles(c, "creategroup", "creator")
                                 /\ InsertGroup(g)
                                 /\ made' = [made EXCEPT ![c] = g]
    <3>1. PICK g \in GroupIds : /\ handler[c] = "idle"
                                /\ handler' = [handler EXCEPT ![c] = "creator"]
                                /\ made' = [made EXCEPT ![c] = g]
                                /\ allgroup' = allgroup \cup {g}
                                /\ UNCHANGED <<friendRows, groupuser, faulted>>
      BY <2>1 DEF Handles, InsertGroup
    <3>2. \A d \in Links : d # c => handler'[d] = handler[d] /\ made'[d] = made[d]
      BY <1>0, <3>1
    <3>3. handler'[c] = "creator" /\ made'[c] = g
      BY <1>0, <3>1
    <3>4. FriendsAt => FriendsAt'
      BY <3>1, <3>2, <3>3 DEF FriendsAt
    <3>5. GroupsAt => GroupsAt'
      <4> SUFFICES ASSUME GroupsAt, NEW h \in allgroup \cup {g}
                   PROVE  HasCreator(h)' \/ \E d \in Links : handler'[d] = "creator" /\ made'[d] = h
        BY <3>1 DEF GroupsAt
      <4>1. CASE h = g
        BY <3>3, <4>1
      <4>2. CASE h \in allgroup
        <5>1. CASE HasCreator(h)
          BY <3>1, <5>1 DEF HasCreator
        <5>2. ASSUME NEW d \in Links, handler[d] = "creator", made[d] = h
              PROVE  handler'[d] = "creator" /\ made'[d] = h
          BY <3>1, <3>2, <5>2
        <5> QED  BY <4>2, <5>1, <5>2 DEF GroupsAt
      <4> QED  BY <4>1, <4>2
    <3> QED  BY <3>1, <3>4, <3>5 DEF TablesInv, HasCreator
  <2>2. CASE Handles(c, "creategroup", "idle") /\ StatementFails
    BY <2>2 DEF StatementFails, TablesInv, HasCreator
  <2> QED  BY <1>1, <2>1, <2>2 DEF CreateGroup
<1>2. CASE AddCreator(c)
  <2>1. /\ UNCHANGED <<friendRows, allgroup, made>>
        /\ handler[c] = "creator" /\ handler' = [handler EXCEPT ![c] = "idle"]
        /\ \/ UNCHANGED groupuser /\ faulted' = TRUE
           \/ /\ groupuser' = groupuser \cup {<<made[c], "creator">>}
              /\ UNCHANGED faulted
    BY <1>2 DEF AddCreator, InsertMember, StatementFails
  <2>2. made[c] \in allgroup
    BY <2>1 DEF ClientBase, ClientMade
  <2>3. \A g \in GroupIds : HasCreator(g)' => g \in allgroup'
    BY <2>1, <2>2 DEF TablesInv, HasCreator
  <2>4. ASSUME ~faulted' PROVE FriendsAt' /\ GroupsAt'
    <3>1. /\ groupuser' = groupuser \cup {<<made[c], "creator">>}
          /\ FriendsAt /\ GroupsAt
      BY <2>1, <2>4 DEF TablesInv
    <3>2. \A d \in Links : d # c => handler'[d] = handler[d]
      BY <1>0, <2>1
    <3>3. handler'[c] = "idle"
      BY <1>0, <2>1
    <3>4. FriendsAt'
      BY <2>1, <3>1, <3>2, <3>3 DEF FriendsAt
    <3>5. GroupsAt'
      BY <2>1, <3>1, <3>2 DEF GroupsAt, HasCreator
    <3> QED  BY <3>4, <3>5
  <2> QED  BY <2>3, <2>4 DEF TablesInv
<1>3. CASE AddGroup(c)
  <2>1. PICK g \in GroupIds : InsertMember(g, "normal")
    BY <1>3 DEF AddGroup
  <2>2. /\ UNCHANGED <<friendRows, allgroup, made>>
        /\ handler[c] = "idle" /\ handler' = [handler EXCEPT ![c] = "idle"]
        /\ \/ UNCHANGED groupuser /\ faulted' = TRUE
           \/ groupuser' = groupuser \cup {<<g, "normal">>} /\ UNCHANGED faulted
    BY <1>3, <2>1 DEF AddGroup, Handles, InsertMember, StatementFails
  <2>3. \A d \in Links : handler'[d] = handler[d]
    BY <1>0, <2>2
  <2>4. \A h : HasCreator(h)' <=> HasCreator(h)
    BY <2>2 DEF HasCreator
  <2> QED  BY <2>2, <2>3, <2>4 DEF TablesInv, FriendsAt, GroupsAt
<1> QED  BY <1>1, <1>2, <1>3

\* The friend and group tables agree (ChatService.cpp:25-56).
THEOREM ClientTablesAgree == ClientSpec => []TablesAgree
<1>1. ClientInit => TablesInv
  BY DEF ClientInit, TablesInit, TablesInv, FriendsAt, GroupsAt, HasCreator
<1>2. ClientBase /\ TablesInv /\ [ClientNext]_clientVars => TablesInv'
  <2> SUFFICES ASSUME ClientBase, TablesInv, [ClientNext]_clientVars PROVE TablesInv'
    OBVIOUS
  <2>1. CASE \E c \in Links : AddFriend(c) \/ FriendBack(c) \/ CreateGroup(c)
                                \/ AddCreator(c) \/ AddGroup(c)
    BY <2>1, FriendSteps, GroupSteps
  <2>2. CASE \A c \in Links : ~(AddFriend(c) \/ FriendBack(c) \/ CreateGroup(c)
                                  \/ AddCreator(c) \/ AddGroup(c))
    <3>1. /\ UNCHANGED <<friendRows, allgroup, groupuser, made>>
          /\ \A c \in Links : handler'[c] \in HalfWay => handler'[c] = handler[c]
          /\ faulted' = faulted \/ faulted' = TRUE
          /\ ~faulted' => /\ ~faulted
                          /\ \A c \in Links : handler[c] \in HalfWay => handler'[c] = handler[c]
      BY <2>2, HandlersKeep
    <3>2. \A g : HasCreator(g)' <=> HasCreator(g)
      BY <3>1 DEF HasCreator
    <3>3. ASSUME ~faulted' PROVE FriendsAt' /\ GroupsAt'
      <4>1. \A c \in Links : handler[c] \in HalfWay \/ handler'[c] \in HalfWay
                               => handler'[c] = handler[c]
        BY <3>1, <3>3
      <4>2. FriendsAt /\ GroupsAt
        BY <3>1, <3>3 DEF TablesInv
      <4>3. FriendsAt'
        BY <3>1, <4>1, <4>2 DEF FriendsAt, HalfWay
      <4>4. GroupsAt'
        BY <3>1, <3>2, <4>1, <4>2 DEF GroupsAt, HalfWay
      <4> QED  BY <4>3, <4>4
    <3> QED  BY <3>1, <3>2, <3>3 DEF TablesInv
  <2> QED  BY <2>1, <2>2
<1>3. ClientBase /\ TablesInv => TablesAgree
  <2> SUFFICES ASSUME TablesInv, ~faulted, \A c \in Links : handler[c] \notin HalfWay
               PROVE  Mutual /\ \A g \in allgroup : HasCreator(g)
    BY DEF TablesAgree, TablesInv
  <2>1. FriendsAt /\ GroupsAt
    BY DEF TablesInv
  <2>2. \A g \in allgroup : HasCreator(g)
    BY <2>1 DEF GroupsAt, HalfWay
  <2>3. <<"friend", "user">> \in friendRows <=> <<"user", "friend">> \in friendRows
    BY <2>1 DEF FriendsAt, HalfWay
  <2>4. Mutual
    BY <2>3 DEF Mutual, People
  <2> QED  BY <2>2, <2>4
<1> QED  BY <1>1, <1>2, <1>3, ClientBaseHolds, PTL DEF ClientSpec
-----------------------------------------------------------------------------
(* What is on the links *)

Every(s, S) == \A i \in DOMAIN s : s[i] \in S
OneReply(s) == \A i, j \in DOMAIN s : s[i] # "push" /\ s[j] # "push" => i = j

Pushes(c) == Every(answers[c], {"push"})
Answering(c) == handler[c] \in {"enlist", "welcome"}

\* No answer is due on the link: nobody waits for one who would have to tell it
\* from a push.
Silent(c) ==
  /\ Pushes(c)
  /\ ~Answering(c)
  /\ Every(requests[c], Requests \ {"login", "reg"})

\* Nothing at all is due.
Still(c) == Pushes(c) /\ ~Answering(c) /\ requests[c] = <<>>

\* At most one answer is due, and it is in one place only.
Owed(c) ==
  \/ requests[c] = <<asked>> /\ ~Answering(c) /\ Pushes(c)
  \/ requests[c] = <<>> /\ Answering(c) /\ Pushes(c)
  \/ requests[c] = <<>> /\ ~Answering(c) /\ OneReply(answers[c])

LinksInv ==
  /\ \A c \in Links : handler[c] = "closed" => requests[c] = <<>>
  /\ \A c \in Links : stream[c] = "unused" =>
       requests[c] = <<>> /\ answers[c] = <<>> /\ handler[c] = "idle"
  /\ \A c \in Links : \A i \in DOMAIN answers[c] :
       /\ answers[c][i] = "push" => pushed > 0
       /\ answers[c][i] \in {"pieces", "long"} => lengthy

\* What the places of the two threads say of the link that they use.
MainInv ==
  /\ fd # 0 /\ main \in {"menu", "ask", "await", "begin", "session", "unset", "shutdown"}
       => stream[fd] = "open"
  /\ fd # 0 /\ main \in {"menu", "ask", "begin"} => Still(fd)
  /\ main = "await" => Owed(fd)
  /\ fd # 0 /\ main \in {"session", "unset", "shutdown", "close"} => Silent(fd)
  /\ main = "join" => fd = 0

ReaderInv ==
  /\ reader \in {"test", "load", "enter", "read"} =>
       main \in {"session", "unset", "shutdown", "close", "join"}
  /\ reader = "read" => Silent(readLink)

\* Before the first command of a session a link carries one request at most.
FewInv ==
  commanded = 0 =>
    /\ \A c \in Links : /\ Len(requests[c]) <= 1
                        /\ Every(requests[c], {"login", "reg", "loginout"})
    /\ main = "session" => requests[fd] = <<>>

LEMMA EveryAppend ==
  ASSUME NEW T, NEW s \in Seq(T), NEW e \in T, NEW S, e \in S, Every(s, S)
  PROVE  Every(Append(s, e), S)
<1>1. /\ Len(Append(s, e)) = Len(s) + 1
      /\ \A i \in 1 .. Len(s) : Append(s, e)[i] = s[i]
      /\ Append(s, e)[Len(s) + 1] = e
  BY AppendProperties
<1>2. DOMAIN s = 1 .. Len(s) /\ Len(s) \in Nat
  BY LenProperties
<1>3. Append(s, e) \in Seq(T)
  BY AppendProperties
<1>4. DOMAIN Append(s, e) = 1 .. (Len(s) + 1)
  BY <1>1, <1>3, LenProperties
<1> QED  BY <1>1, <1>2, <1>4 DEF Every

LEMMA OneAppend ==
  ASSUME NEW T, NEW s \in Seq(T), NEW e \in T
  PROVE  /\ Every(s, {"push"}) => OneReply(Append(s, e))
         /\ OneReply(s) /\ e = "push" => OneReply(Append(s, e))
<1>1. /\ Len(Append(s, e)) = Len(s) + 1
      /\ \A i \in 1 .. Len(s) : Append(s, e)[i] = s[i]
      /\ Append(s, e)[Len(s) + 1] = e
  BY AppendProperties
<1>2. DOMAIN s = 1 .. Len(s) /\ Len(s) \in Nat
  BY LenProperties
<1>3. Append(s, e) \in Seq(T)
  BY AppendProperties
<1>4. DOMAIN Append(s, e) = 1 .. (Len(s) + 1)
  BY <1>1, <1>3, LenProperties
<1> QED  BY <1>1, <1>2, <1>4 DEF Every, OneReply

LEMMA EveryTail ==
  ASSUME NEW T, NEW s \in Seq(T), s # <<>>, NEW S, Every(s, S)
  PROVE  Head(s) \in S /\ Every(Tail(s), S)
<1>1. /\ Head(s) = s[1] /\ Tail(s) \in Seq(T)
      /\ Len(Tail(s)) = Len(s) - 1
      /\ \A i \in 1 .. Len(Tail(s)) : Tail(s)[i] = s[i + 1]
  BY HeadTailProperties
<1>2. DOMAIN s = 1 .. Len(s) /\ Len(s) \in Nat /\ Len(s) # 0
  BY EmptySeq, LenProperties
<1>3. DOMAIN Tail(s) = 1 .. Len(Tail(s))
  BY <1>1, LenProperties
<1> QED  BY <1>1, <1>2, <1>3 DEF Every

\* What a read leaves of the answers.
LEMMA TakenRest ==
  ASSUME NEW T, NEW s \in Seq(T), NEW k \in 1 .. Len(s),
         NEW t, t = SubSeq(s, k + 1, Len(s))
  PROVE  /\ \A i \in DOMAIN t : i + k \in DOMAIN s /\ t[i] = s[i + k]
         /\ t \in Seq(T)
<1>1. Len(s) \in Nat /\ DOMAIN s = 1 .. Len(s)
  BY LenProperties
<1> DEFINE m == k + 1
<1>3. m \in Int /\ Len(s) \in Int /\ \A i \in m .. Len(s) : s[i] \in T
  BY <1>1
<1>4. /\ t \in Seq(T)
      /\ Len(t) = IF m <= Len(s) THEN Len(s) - m + 1 ELSE 0
      /\ \A i \in 1 .. (Len(s) - m + 1) : t[i] = s[m + i - 1]
  BY <1>3, SubSeqProperties
<1>5. DOMAIN t = 1 .. Len(t)
  BY <1>4, LenProperties
<1>6. ASSUME NEW i \in DOMAIN t
      PROVE  i + k \in DOMAIN s /\ t[i] = s[i + k]
  <2>0. Len(t) = Len(s) - k
    <3>1. Len(s) \in Nat /\ k \in 1 .. Len(s) /\ m = k + 1
      BY <1>1 DEF m
    <3>2. Len(t) = IF m <= Len(s) THEN Len(s) - m + 1 ELSE 0
      BY <1>4
    <3> QED  BY <3>1, <3>2
  <2>1. i \in 1 .. (Len(s) - k)
    BY <1>5, <2>0, Zenon
  <2>2. t[i] = s[m + i - 1] /\ m + i - 1 = i + k
    BY <1>1, <1>4, <2>1
  <2> QED  BY <1>1, <2>1, <2>2
<1> QED  BY <1>4, <1>6

LEMMA LinkType ==
  ASSUME ClientTypeOK, NEW c \in Links
  PROVE  /\ requests[c] \in Seq(Requests) /\ answers[c] \in Seq(Answers)
         /\ handler \in [Links -> HandlerPCs] /\ requests \in [Links -> Seq(Requests)]
         /\ answers \in [Links -> Seq(Answers)]
BY DEF ClientTypeOK

\* The server takes a request off a link.
LEMMA HandlesLink ==
  ASSUME ClientTypeOK, NEW d \in Links, NEW r, NEW pc \in HandlerPCs, Handles(d, r, pc)
  PROVE  /\ requests[d] # <<>> /\ requests'[d] = Tail(requests[d]) /\ Head(requests[d]) = r
         /\ handler[d] = "idle" /\ handler'[d] = pc
         /\ \A c \in Links : c # d => requests'[c] = requests[c] /\ handler'[c] = handler[c]
BY LinkType DEF Handles

\* A step of the server on the link d, or the end of the server, neither brings
\* an answer nobody waits for nor a second one.
LEMMA ServerKeeps ==
  ASSUME ClientTypeOK, NEW d \in Links, HandlerStep(d) \/ Push(d) \/ ServerDies,
         NEW c \in Links
  PROVE  /\ Silent(c) => Silent(c)'
         /\ Still(c) => Still(c)'
         /\ asked \in {"login", "reg"} /\ Owed(c) => Owed(c)'
<1> USE DEF Silent, Still, Owed, Pushes, Answering
<1>0. UNCHANGED asked
  BY DEF HandlerStep, Push, ServerDies, Refuse, Accept, Enlist, Welcome, Register, Chat, AddFriend,
         FriendBack, CreateGroup, AddCreator, AddGroup, HandleLoginout, HandleEnd, mainVars
<1>1. ASSUME requests'[c] = requests[c], handler'[c] = handler[c], answers'[c] = answers[c]
      PROVE  /\ Silent(c) => Silent(c)'
             /\ Still(c) => Still(c)'
             /\ Owed(c) => Owed(c)'
  BY <1>0, <1>1
<1>2. Every(<<>>, {"push"}) /\ Every(<<>>, Requests \ {"login", "reg"})
  BY DEF Every
<1>3. Every(answers[c], {"push"}) => OneReply(answers[c])
  BY DEF Every, OneReply
<1>4. CASE ServerDies
  <2>1. /\ requests'[c] = <<>> /\ answers'[c] = answers[c]
        /\ handler'[c] = handler[c] \/ handler'[c] = "closed"
    BY <1>4 DEF ServerDies
  <2> QED  BY <1>0, <1>2, <1>3, <1>4, <2>1 DEF ServerDies
<1>5. ASSUME ~ServerDies, c # d
      PROVE  /\ Silent(c) => Silent(c)'
             /\ Still(c) => Still(c)'
             /\ Owed(c) => Owed(c)'
  <2>1. requests'[c] = requests[c]
    BY <1>5, LinkType DEF HandlerStep, Push, Refuse, Accept, Enlist, Welcome, Register, Chat,
       AddFriend, FriendBack, CreateGroup, AddCreator, AddGroup, HandleLoginout, HandleEnd, Handles
  <2>2. handler'[c] = handler[c]
    BY <1>5, LinkType DEF HandlerStep, Push, Refuse, Accept, Enlist, Welcome, Register, Chat,
       AddFriend, FriendBack, CreateGroup, AddCreator, AddGroup, HandleLoginout, HandleEnd, Handles,
       serverVars
  <2>3. answers'[c] = answers[c]
    BY <1>5, LinkType DEF HandlerStep, Push, Refuse, Accept, Enlist, Welcome, Register, Chat,
       AddFriend, FriendBack, CreateGroup, AddCreator, AddGroup, HandleLoginout, HandleEnd, Sends
  <2> QED  BY <1>1, <2>1, <2>2, <2>3
<1>6. CASE c = d /\ (Refuse(c) \/ Accept(c) \/ Register(c))
  <2>1. /\ requests[c] # <<>> /\ Head(requests[c]) \in {"login", "reg"}
        /\ requests'[c] = Tail(requests[c]) /\ handler[c] = "idle"
    BY <1>6, LinkType DEF Refuse, Accept, Register, Handles
  <2>2. ~Silent(c) /\ ~Still(c)
    BY <2>1, LinkType, EveryTail
  <2>3. ASSUME Owed(c), asked \in {"login", "reg"}
        PROVE  Owed(c)'
    <3>1. requests[c] = <<asked>> /\ Pushes(c)
      BY <2>1, <2>3
    <3>2. requests'[c] = <<>>
      BY <2>1, <3>1
    <3>3. CASE Accept(c)
      BY <1>0, <3>1, <3>2, <3>3, LinkType DEF Accept, Handles
    <3>4. CASE Refuse(c) \/ Register(c)
      <4>1. handler'[c] = "idle"
        BY <3>4, LinkType DEF Refuse, Register, Handles
      <4>2. PICK a \in Answers : answers'[c] = Append(answers[c], a)
        BY <3>4, LinkType DEF Refuse, Register, Sends, Answers, Welcomes
      <4>3. OneReply(answers'[c])
        BY <3>1, <4>2, LinkType, OneAppend
      <4> QED  BY <3>2, <4>1, <4>3
    <3> QED  BY <1>6, <3>3, <3>4
  <2> QED  BY <2>2, <2>3
<1>7. CASE c = d /\ (Chat(c) \/ AddFriend(c) \/ CreateGroup(c) \/ AddGroup(c) \/ HandleLoginout(c))
  <2>1. /\ requests[c] # <<>> /\ Head(requests[c]) \notin {"login", "reg"}
        /\ requests'[c] = Tail(requests[c]) /\ handler[c] = "idle"
        /\ handler'[c] \in {"idle", "back", "creator"}
    BY <1>7, LinkType DEF Chat, AddFriend, CreateGroup, AddGroup, HandleLoginout, Handles
  <2>2. answers' = answers
    BY <1>7 DEF Chat, AddFriend, CreateGroup, AddGroup, HandleLoginout
  <2>3. asked \in {"login", "reg"} => ~Owed(c)
    BY <2>1
  <2>4. Silent(c) => Silent(c)'
    BY <2>1, <2>2, LinkType, EveryTail
  <2> QED  BY <2>1, <2>3, <2>4
<1>8. CASE c = d /\ (Enlist(c) \/ FriendBack(c) \/ AddCreator(c) \/ HandleEnd(c))
  <2>1. /\ requests' = requests /\ answers' = answers
        /\ \/ handler[c] = "enlist" /\ handler'[c] = "welcome"
           \/ handler[c] \in {"idle", "back", "creator"} /\ handler'[c] \in {"idle", "closed"}
    BY <1>8, LinkType DEF Enlist, FriendBack, AddCreator, HandleEnd
  <2> QED  BY <1>0, <2>1
<1>9. CASE c = d /\ Welcome(c)
  <2>1. requests' = requests /\ handler[c] = "welcome" /\ handler'[c] = "idle"
    BY <1>9, LinkType DEF Welcome
  <2>2. PICK a \in Answers : answers'[c] = Append(answers[c], a)
    BY <1>9, LinkType DEF Welcome, Sends, Answers, Welcomes
  <2>3. Pushes(c) => OneReply(answers'[c])
    BY <2>2, LinkType, OneAppend
  <2> QED  BY <2>1, <2>3
<1>10. CASE c = d /\ Push(c)
  <2>1. requests' = requests /\ handler' = handler /\ answers'[c] = Append(answers[c], "push")
    BY <1>10, LinkType DEF Push, Sends, serverVars
  <2>2. "push" \in Answers /\ "push" \in {"push"}
    BY DEF Answers, Welcomes
  <2>3. Pushes(c) => Pushes(c)'
    BY <2>1, <2>2, LinkType, EveryAppend
  <2>4. OneReply(answers[c]) => OneReply(answers'[c])
    BY <2>1, <2>2, LinkType, OneAppend
  <2> QED  BY <1>0, <2>1, <2>3, <2>4
<1> QED  BY <1>4, <1>5, <1>6, <1>7, <1>8, <1>9, <1>10 DEF HandlerStep

LEMMA AppendAt ==
  ASSUME NEW T, NEW s \in Seq(T), NEW e \in T, NEW i \in DOMAIN Append(s, e)
  PROVE  Append(s, e)[i] = e \/ (i \in DOMAIN s /\ Append(s, e)[i] = s[i])
<1>1. /\ Len(Append(s, e)) = Len(s) + 1
      /\ \A j \in 1 .. Len(s) : Append(s, e)[j] = s[j]
      /\ Append(s, e)[Len(s) + 1] = e
      /\ Append(s, e) \in Seq(T)
  BY AppendProperties
<1>2. DOMAIN s = 1 .. Len(s) /\ Len(s) \in Nat
  BY LenProperties
<1>3. DOMAIN Append(s, e) = 1 .. (Len(s) + 1)
  BY <1>1, LenProperties
<1> QED  BY <1>1, <1>2, <1>3

LEMMA ServerLinks ==
  ASSUME ClientTypeOK, LinksInv, NEW d \in Links, HandlerStep(d) \/ Push(d) \/ ServerDies
  PROVE  LinksInv'
<1>1. /\ UNCHANGED stream
      /\ pushed > 0 => pushed' > 0
      /\ lengthy => lengthy'
  <2>1. UNCHANGED <<stream, pushed, lengthy>> \/ (Welcome(d) /\ UNCHANGED <<stream, pushed>>)
          \/ (Push(d) /\ UNCHANGED <<stream, lengthy>>)
    BY DEF HandlerStep, Push, ServerDies, Refuse, Accept, Enlist, Welcome, Register, Chat, AddFriend,
       FriendBack, CreateGroup, AddCreator, AddGroup, HandleLoginout, HandleEnd, histVars
  <2>2. Push(d) => pushed' = pushed + 1 /\ pushed \in Nat
    BY DEF Push, ClientTypeOK
  <2>3. Welcome(d) => lengthy' = lengthy \/ lengthy' = TRUE
    BY Zenon DEF Welcome
  <2> QED  BY <2>1, <2>2, <2>3
<1>2. ASSUME NEW c \in Links, handler'[c] = "closed"
      PROVE  requests'[c] = <<>>
  <2>1. CASE ServerDies
    BY <2>1 DEF ServerDies
  <2>2. CASE ~ServerDies
    <3>1. \/ handler[c] = "closed" /\ requests'[c] = requests[c]
          \/ HandleEnd(c)
      BY <1>2, <2>2, LinkType
         DEF HandlerStep, Push, Refuse, Accept, Enlist, Welcome, Register, Chat, AddFriend,
             FriendBack, CreateGroup, AddCreator, AddGroup, HandleLoginout, HandleEnd, Handles,
             serverVars
    <3> QED  BY <3>1 DEF HandleEnd, LinksInv
  <2> QED  BY <2>1, <2>2
<1>3. ASSUME NEW c \in Links, stream[c] = "unused"
      PROVE  requests'[c] = <<>> /\ answers'[c] = <<>> /\ handler'[c] = "idle"
  <2>1. requests[c] = <<>> /\ answers[c] = <<>> /\ handler[c] = "idle"
    BY <1>3 DEF LinksInv
  <2>2. CASE ServerDies
    BY <1>3, <2>1, <2>2 DEF ServerDies
  <2>3. CASE ~ServerDies
    <3>1. c # d
      BY <1>3, <2>1, <2>3
         DEF HandlerStep, Push, Refuse, Accept, Enlist, Welcome, Register, Chat, AddFriend,
             FriendBack, CreateGroup, AddCreator, AddGroup, HandleLoginout, HandleEnd, Handles
    <3>2. requests'[c] = requests[c] /\ handler'[c] = handler[c]
      BY <2>3, <3>1, LinkType DEF HandlerStep, Push, Refuse, Accept, Enlist, Welcome, Register, Chat,
         AddFriend, FriendBack, CreateGroup, AddCreator, AddGroup, HandleLoginout, HandleEnd, Handles,
         serverVars
    <3>3. answers'[c] = answers[c]
      BY <2>3, <3>1, LinkType DEF HandlerStep, Push, Refuse, Accept, Enlist, Welcome, Register, Chat,
         AddFriend, FriendBack, CreateGroup, AddCreator, AddGroup, HandleLoginout, HandleEnd, Sends
    <3> QED  BY <2>1, <3>2, <3>3
  <2> QED  BY <2>2, <2>3
<1>4. ASSUME NEW c \in Links, NEW i \in DOMAIN answers'[c]
      PROVE  /\ answers'[c][i] = "push" => pushed' > 0
             /\ answers'[c][i] \in {"pieces", "long"} => lengthy'
  <2>1. CASE answers'[c] = answers[c]
    BY <1>1, <1>4, <2>1 DEF LinksInv
  <2>2. ASSUME NEW a \in Answers, answers'[c] = Append(answers[c], a),
               a = "push" => pushed' > 0, a \in {"pieces", "long"} => lengthy'
        PROVE  /\ answers'[c][i] = "push" => pushed' > 0
               /\ answers'[c][i] \in {"pieces", "long"} => lengthy'
    <3>1. answers'[c][i] = a \/ (i \in DOMAIN answers[c] /\ answers'[c][i] = answers[c][i])
      BY <1>4, <2>2, LinkType, AppendAt
    <3> QED  BY <1>1, <2>2, <3>1 DEF LinksInv
  <2>3. CASE Refuse(d) \/ Register(d)
    <3>1. answers'[c] = answers[c] \/ \E a \in {"refused", "reg"} : answers'[c] = Append(answers[c], a)
      BY <2>3, LinkType DEF Refuse, Register, Sends
    <3> QED  BY <2>1, <2>2, <3>1 DEF Answers, Welcomes
  <2>4. CASE Welcome(d)
    <3>1. \/ answers'[c] = answers[c]
          \/ answers'[c] = Append(answers[c], "welcome")
          \/ lengthy' /\ \E a \in {"pieces", "long"} : answers'[c] = Append(answers[c], a)
      BY <2>4, LinkType DEF Welcome, Sends
    <3> QED  BY <2>1, <2>2, <3>1 DEF Answers, Welcomes
  <2>5. CASE Push(d)
    <3>1. answers'[c] = answers[c] \/ answers'[c] = Append(answers[c], "push")
      BY <2>5, LinkType DEF Push, Sends
    <3>2. pushed' > 0
      BY <2>5 DEF Push, ClientTypeOK
    <3> QED  BY <2>1, <2>2, <3>1, <3>2 DEF Answers, Welcomes
  <2>6. CASE answers' = answers
    BY <2>1, <2>6
  <2> QED  BY <2>3, <2>4, <2>5, <2>6
           DEF HandlerStep, ServerDies, Accept, Enlist, Chat, AddFriend, FriendBack, CreateGroup,
               AddCreator, AddGroup, HandleLoginout, HandleEnd
<1> QED  BY <1>1, <1>2, <1>3, <1>4 DEF LinksInv

\* Nor does the server put a request onto a link.
LEMMA ServerFew ==
  ASSUME ClientTypeOK, FewInv, NEW d \in Links, HandlerStep(d) \/ Push(d) \/ ServerDies,
         main = "session" => fd \in Links
  PROVE  FewInv'
<1> DEFINE First == {"login", "reg", "loginout"}
<1>1. UNCHANGED <<commanded, main, fd>>
  BY DEF HandlerStep, Push, ServerDies, Refuse, Accept, Enlist, Welcome, Register, Chat, AddFriend,
     FriendBack, CreateGroup, AddCreator, AddGroup, HandleLoginout, HandleEnd, histVars, mainVars
<1>2. ASSUME NEW c \in Links
      PROVE  \/ requests'[c] = requests[c]
             \/ requests'[c] = <<>>
             \/ requests[c] # <<>> /\ requests'[c] = Tail(requests[c])
  BY LinkType DEF HandlerStep, Push, ServerDies, Refuse, Accept, Enlist, Welcome, Register, Chat,
     AddFriend, FriendBack, CreateGroup, AddCreator, AddGroup, HandleLoginout, HandleEnd, Handles
<1>3. ASSUME NEW c \in Links, Len(requests[c]) <= 1, Every(requests[c], First)
      PROVE  Len(requests'[c]) <= 1 /\ Every(requests'[c], First)
  <2>1. Every(<<>>, First) /\ Len(<<>>) = 0
    BY DEF Every
  <2>2. requests[c] # <<>> => /\ Every(Tail(requests[c]), First)
                              /\ Len(Tail(requests[c])) = Len(requests[c]) - 1
    BY <1>3, LinkType, EveryTail, HeadTailProperties
  <2>3. Len(requests[c]) \in Nat
    BY LinkType, LenProperties
  <2>4. CASE requests'[c] = requests[c]
    BY <1>3, <2>4
  <2>5. CASE requests'[c] = <<>>
    BY <2>1, <2>5
  <2>6. CASE requests[c] # <<>> /\ requests'[c] = Tail(requests[c])
    BY <1>3, <2>2, <2>3, <2>6
  <2> QED  BY <1>2, <2>4, <2>5, <2>6
<1>4. ASSUME main = "session", requests[fd] = <<>>
      PROVE  requests'[fd] = <<>>
  BY <1>2, <1>4
<1> QED  BY <1>1, <1>3, <1>4 DEF FewInv

\* What is known of the links and of who uses them.
FramingInv == LinksInv /\ MainInv /\ ReaderInv /\ FewInv

LEMMA ServerFraming ==
  ASSUME ClientBase, FramingInv, NEW d \in Links, HandlerStep(d) \/ Push(d) \/ ServerDies
  PROVE  FramingInv'
<1>1. UNCHANGED <<mainVars, readerVars, stream>>
  BY DEF HandlerStep, Push, ServerDies, Refuse, Accept, Enlist, Welcome, Register, Chat, AddFriend,
     FriendBack, CreateGroup, AddCreator, AddGroup, HandleLoginout, HandleEnd
<1>2. /\ ClientTypeOK /\ asked \in {"login", "reg"}
      /\ fd # 0 => fd \in Links
      /\ main \in {"await", "session"} => fd \in Links
      /\ reader = "read" => readLink \in Links
  BY DEF ClientBase, ClientTypeOK, ClientFd
<1>3. LinksInv' /\ FewInv'
  BY <1>2, ServerLinks, ServerFew DEF FramingInv
<1>4. \A c \in Links : /\ Silent(c) => Silent(c)'
                       /\ Still(c) => Still(c)'
                       /\ Owed(c) => Owed(c)'
  BY <1>2, ServerKeeps
<1>5. MainInv'
  <2>1. fd # 0 => /\ Silent(fd) => Silent(fd)'
                  /\ Still(fd) => Still(fd)'
                  /\ Owed(fd) => Owed(fd)'
    <3>1. fd' = fd
      BY <1>1 DEF mainVars
    <3> QED  BY <1>2, <1>4, <3>1 DEF Silent, Still, Owed, Pushes, Answering
  <2>2. main = "await" => fd # 0
    BY DEF ClientBase, ClientFd
  <2> QED  BY <1>1, <2>1, <2>2 DEF FramingInv, MainInv, mainVars
<1>6. ReaderInv'
  BY <1>1, <1>2, <1>4 DEF FramingInv, ReaderInv, mainVars, readerVars
<1> QED  BY <1>3, <1>5, <1>6 DEF FramingInv

\* The client's steps that move no message.
LEMMA QuietFraming ==
  ASSUME ClientBase, FramingInv,
         \/ Run \/ (\E r \in {"login", "reg"} : Choose(r)) \/ AnswerFails \/ StartReader
         \/ Quit \/ Unset \/ Shutdown \/ CloseFd \/ JoinReader
         \/ ReaderTest \/ ReaderLoad \/ ReaderEnter \/ ReaderEnds
         \/ AskKilled \/ SessionKilled \/ Restarted \/ UNCHANGED clientVars
  PROVE  FramingInv'
<1>1. UNCHANGED <<requests, answers, handler, lengthy, commanded, pushed>>
  BY DEF Run, Choose, AnswerFails, StartReader, Quit, Unset, Shutdown, CloseFd, JoinReader,
     ReaderTest, ReaderLoad, ReaderEnter, ReaderEnds, AskKilled, SessionKilled, WriteFails, Restarted,
     serverVars, histVars, clientVars
<1>2. ASSUME NEW c \in Links
      PROVE  /\ Silent(c)' <=> Silent(c)
             /\ Still(c)' <=> Still(c)
             /\ asked' = asked => (Owed(c)' <=> Owed(c))
  <2>1. requests' = requests /\ answers' = answers /\ handler' = handler
    BY <1>1
  <2>2. Pushes(c)' <=> Pushes(c)
    BY <2>1 DEF Pushes
  <2>3. Answering(c)' <=> Answering(c)
    BY <2>1 DEF Answering
  <2>4. Silent(c)' <=> Silent(c)
    BY <2>1, <2>2, <2>3 DEF Silent
  <2>5. Still(c)' <=> Still(c)
    BY <2>1, <2>2, <2>3 DEF Still
  <2>6. asked' = asked => (Owed(c)' <=> Owed(c))
    BY <2>1, <2>2, <2>3 DEF Owed
  <2> QED  BY <2>4, <2>5, <2>6
<1>3. \A c \in Links : stream'[c] = "unused" => stream[c] = "unused"
  BY DEF Run, Choose, Connect, AnswerFails, StartReader, Quit, Unset, Shutdown, CloseFd, JoinReader,
     ReaderTest, ReaderLoad, ReaderEnter, ReaderEnds, AskKilled, SessionKilled, Die, Restarted,
     clientVars, ClientBase, ClientTypeOK
<1>4. LinksInv'
  BY <1>1, <1>3 DEF FramingInv, LinksInv
<1>5. /\ fd' = fd /\ fd \in Links =>
           /\ Silent(fd)' <=> Silent(fd)
           /\ Still(fd)' <=> Still(fd)
           /\ asked' = asked => (Owed(fd)' <=> Owed(fd))
      /\ readLink' = readLink /\ readLink \in Links => (Silent(readLink)' <=> Silent(readLink))
  BY <1>2 DEF Silent, Still, Owed, Pushes, Answering
<1>6. /\ fd # 0 <=> fd \in Links
      /\ main \in {"ask", "await", "begin", "session", "shutdown", "close"} => fd # 0
      /\ reader \in ReaderPCs /\ readLink \in {0} \cup Links
      /\ reader = "read" => readLink \in Links
  BY DEF ClientBase, ClientTypeOK, ClientFd, Links
<1>7. CASE Run \/ \E r \in {"login", "reg"} : Choose(r)
  <2>1. main' \in {"menu", "ask", "over"} /\ UNCHANGED readerVars
    BY <1>7 DEF Run, Choose, Connect, ClientBase, ClientTypeOK
  <2>2. reader \in {"none", "ended"}
    BY <1>6, <1>7 DEF Run, Choose, FramingInv, ReaderInv, ReaderPCs
  <2>3. ReaderInv' /\ FewInv'
    BY <1>1, <2>1, <2>2 DEF FramingInv, ReaderInv, FewInv, readerVars
  <2>4. ASSUME UNCHANGED <<fd, stream>>
        PROVE  MainInv'
    <3>1. main' = "over" \/ (main = "menu" /\ fd # 0) \/ (main = "menu" /\ fd' = 0)
      BY <1>6, <1>7, <2>4 DEF Run, Choose, Connect, ClientBase, ClientTypeOK
    <3> QED  BY <1>5, <1>6, <2>1, <2>3, <2>4, <3>1 DEF FramingInv, MainInv
  <2>5. ASSUME NEW c \in Links, stream[c] = "unused", stream'[c] = "open", fd' = c
        PROVE  MainInv'
    <3>1. Still(c)
      BY <2>5 DEF FramingInv, LinksInv, Still, Pushes, Answering, Every
    <3>2. Still(fd)'
      BY <1>1, <2>5, <3>1 DEF Still, Pushes, Answering, Every
    <3> QED  BY <2>1, <2>5, <3>2 DEF MainInv
  <2>6. MainInv'
    <3>1. \/ UNCHANGED <<fd, stream>>
          \/ \E c \in Links : stream[c] = "unused" /\ stream'[c] = "open" /\ fd' = c
      BY <1>7 DEF Run, Choose, Connect, ClientBase, ClientTypeOK
    <3> QED  BY <2>4, <2>5, <3>1
  <2> QED  BY <1>4, <2>3, <2>6 DEF FramingInv
<1>8. CASE AskKilled \/ SessionKilled
  BY <1>1, <1>4, <1>8 DEF AskKilled, SessionKilled, Die, MainInv, ReaderInv, FewInv, FramingInv
<1>9. CASE AnswerFails
  <2>1. /\ fd \in Links /\ stream[fd] = "open" /\ Owed(fd) /\ reader \in {"none", "ended"}
        /\ main = "await" /\ main' = "menu" /\ UNCHANGED <<fd, stream, reader, readLink>>
    BY <1>6, <1>9 DEF AnswerFails, FramingInv, MainInv, ReaderInv, ReaderPCs, readerVars
  <2>2. Still(fd)
    BY <1>9, <2>1 DEF AnswerFails, NothingComes, FramingInv, LinksInv, Still, Owed, Pushes, Answering,
       Every
  <2> QED  BY <1>1, <1>4, <1>5, <1>6, <2>1, <2>2 DEF FramingInv, MainInv, ReaderInv, FewInv
<1>10. CASE StartReader
  <2>1. /\ fd \in Links /\ stream[fd] = "open" /\ Still(fd)
        /\ main' = "session" /\ reader' = "test" /\ UNCHANGED <<fd, stream>>
    BY <1>6, <1>10 DEF StartReader, FramingInv, MainInv
  <2>2. Silent(fd) /\ requests[fd] = <<>>
    BY <2>1 DEF Still, Silent, Every
  <2> QED  BY <1>1, <1>4, <1>5, <1>6, <2>1, <2>2 DEF FramingInv, MainInv, ReaderInv, FewInv
<1>11. CASE Quit \/ Unset \/ Shutdown
  <2>1. /\ fd' = fd /\ UNCHANGED <<reader, readLink>>
        /\ \/ main = "menu" /\ main' = "unset" /\ stream' = stream
           \/ main = "unset" /\ main' = "join" /\ fd = 0 /\ stream' = stream
           \/ main = "unset" /\ main' = "shutdown" /\ fd # 0 /\ stream' = stream
           \/ main = "shutdown" /\ main' = "close"
    BY <1>11 DEF Quit, Unset, Shutdown, readerVars
  <2>2. fd # 0 /\ Still(fd) => Silent(fd)
    BY DEF Still, Silent, Every
  <2>3. MainInv'
    BY <1>5, <1>6, <2>1, <2>2 DEF FramingInv, MainInv
  <2>4. ReaderInv' /\ FewInv'
    BY <1>1, <1>5, <1>6, <2>1 DEF FramingInv, ReaderInv, FewInv
  <2> QED  BY <1>4, <2>3, <2>4 DEF FramingInv
<1>12. CASE CloseFd
  BY <1>1, <1>4, <1>5, <1>6, <1>12 DEF CloseFd, FramingInv, MainInv, ReaderInv, FewInv, readerVars
<1>13. CASE JoinReader
  BY <1>1, <1>4, <1>13 DEF JoinReader, FramingInv, MainInv, ReaderInv, FewInv
<1>14. CASE \/ ReaderTest \/ ReaderLoad \/ ReaderEnter \/ ReaderEnds
            \/ Restarted \/ UNCHANGED clientVars
  <2>1. UNCHANGED <<main, asked, fd, stream>>
    BY <1>14 DEF ReaderTest, ReaderLoad, ReaderEnter, ReaderEnds, Restarted, mainVars, clientVars
  <2>2. MainInv' /\ FewInv'
    BY <1>1, <1>5, <1>6, <2>1 DEF FramingInv, MainInv, FewInv
  <2>3. CASE ReaderEnter /\ reader' = "read"
    <3>1. fd \in Links /\ readLink' = fd /\ reader = "enter"
      BY <1>6, <2>3 DEF ReaderEnter
    <3>2. Silent(fd)
      BY <1>6, <3>1 DEF FramingInv, MainInv, ReaderInv
    <3>3. Silent(fd)'
      BY <1>5, <2>1, <3>1, <3>2
    <3>4. Silent(readLink)'
      BY <2>1, <3>1, <3>3 DEF Silent, Pushes, Answering
    <3> QED  BY <1>4, <2>1, <2>2, <3>1, <3>4 DEF FramingInv, ReaderInv
  <2>4. CASE ~(ReaderEnter /\ reader' = "read")
    <3>1. \/ UNCHANGED <<reader, readLink>>
          \/ reader = "test" /\ reader' \in {"load", "ended"}
          \/ reader = "load" /\ reader' = "enter"
          \/ reader' = "ended"
      BY <1>14, <2>4 DEF ReaderTest, ReaderLoad, ReaderEnter, ReaderEnds, Restarted, readerVars,
         clientVars
    <3> QED  BY <1>4, <1>5, <1>6, <2>1, <2>2, <3>1 DEF FramingInv, ReaderInv
  <2> QED  BY <2>3, <2>4
<1> QED  BY <1>4, <1>7, <1>8, <1>9, <1>10, <1>11, <1>12, <1>13, <1>14 DEF FramingInv

\* The client's steps that write a request.
LEMMA WriteFraming ==
  ASSUME ClientBase, FramingInv,
         Ask \/ (\E r \in SessionCommands : WriteCommand(r)) \/ Loginout
  PROVE  FramingInv'
<1>1. /\ UNCHANGED <<fd, asked, stream, answers, handler, lengthy, pushed, reader, readLink>>
      /\ ClientTypeOK /\ fd \in Links /\ asked \in {"login", "reg"}
      /\ reader = "read" => readLink \in Links
      /\ reader \in ReaderPCs
  BY DEF Ask, WriteCommand, Loginout, mainVars, readerVars, serverVars, histVars, ClientBase,
     ClientTypeOK, ClientFd
<1>2. /\ stream[fd] = "open"
      /\ \A c \in Links : c # fd => requests'[c] = requests[c]
  <2>1. fd # 0 /\ main \in {"ask", "session"}
    BY <1>1 DEF Ask, WriteCommand, Loginout, Links
  <2>2. requests' = requests \/ \E r : requests' = [requests EXCEPT ![fd] = Append(@, r)]
    BY DEF Ask, WriteCommand, Loginout, Delivered, WriteLost, WriteFails
  <2> QED  BY <1>1, <2>1, <2>2, LinkType DEF FramingInv, MainInv
<1>3. \/ requests' = requests
      \/ /\ handler[fd] # "closed"
         /\ \/ main = "ask" /\ main' = "await" /\ requests'[fd] = Append(requests[fd], asked)
            \/ /\ main = "session" /\ main' = "unset"
               /\ requests'[fd] = Append(requests[fd], "loginout")
            \/ /\ main = "session" /\ main' = "session" /\ commanded' > 0
               /\ \E r \in SessionCommands : requests'[fd] = Append(requests[fd], r)
  BY <1>1, LinkType DEF Ask, WriteCommand, Loginout, Delivered, WriteLost, WriteFails, mainVars,
     ClientTypeOK
<1>4. \/ main = "ask" /\ main' \in {"await", "menu"}
      \/ main = "session" /\ main' \in {"session", "unset"}
  BY DEF Ask, WriteCommand, Loginout, mainVars
<1>5. LinksInv'
  BY <1>1, <1>2, <1>3 DEF FramingInv, LinksInv
<1>6. ASSUME NEW c \in Links, main = "session", Silent(c)
      PROVE  Silent(c)'
  <2>1. CASE requests'[c] = requests[c]
    BY <1>1, <1>6, <2>1 DEF Silent, Pushes, Answering
  <2>2. ASSUME NEW r \in SessionCommands \cup {"loginout"}, requests'[c] = Append(requests[c], r)
        PROVE  Silent(c)'
    <3>1. r \in Requests /\ r \in Requests \ {"login", "reg"}
      BY DEF Requests, SessionCommands
    <3>2. Every(requests'[c], Requests \ {"login", "reg"})
      BY <1>1, <1>6, <2>2, <3>1, LinkType, EveryAppend DEF Silent
    <3> QED  BY <1>1, <1>6, <3>2 DEF Silent, Pushes, Answering
  <2> QED  BY <1>2, <1>3, <1>6, <2>1, <2>2
<1>7. MainInv'
  <2>1. CASE main = "ask"
    <3>1. Still(fd)
      BY <1>1, <2>1 DEF FramingInv, MainInv, Links
    <3>2. requests'[fd] = requests[fd] \/ requests'[fd] = <<asked>>
      BY <1>3, <2>1, <3>1 DEF Still
    <3>3. Every(answers[fd], {"push"}) => OneReply(answers[fd])
      BY DEF Every, OneReply
    <3>4. Owed(fd)'
      BY <1>1, <3>1, <3>2, <3>3 DEF Still, Owed, Pushes, Answering
    <3>5. main' = "menu" => Still(fd)'
      BY <1>1, <1>3, <2>1, <3>1 DEF Still, Pushes, Answering
    <3> QED  BY <1>1, <1>2, <1>4, <2>1, <3>4, <3>5 DEF MainInv
  <2>2. CASE main = "session"
    <3>1. Silent(fd)
      BY <1>1, <2>2 DEF FramingInv, MainInv, Links
    <3>2. Silent(fd)'
      BY <1>1, <1>6, <2>2, <3>1 DEF Silent, Pushes, Answering
    <3> QED  BY <1>1, <1>2, <1>4, <2>2, <3>2 DEF MainInv
  <2> QED  BY <1>4, <2>1, <2>2
<1>8. ReaderInv'
  <2>1. main = "session" /\ reader = "read" => Silent(readLink)'
    BY <1>1, <1>6 DEF FramingInv, ReaderInv, Silent, Pushes, Answering
  <2> QED  BY <1>1, <1>4, <2>1 DEF FramingInv, ReaderInv
<1>9. FewInv'
  <2> DEFINE First == {"login", "reg", "loginout"}
  <2>1. SUFFICES ASSUME commanded' = 0
                 PROVE  /\ \A c \in Links : Len(requests'[c]) <= 1 /\ Every(requests'[c], First)
                        /\ main' = "session" => requests'[fd] = <<>>
    BY <1>1 DEF FewInv
  <2>2. commanded = 0 /\ ~\E r \in SessionCommands : WriteCommand(r)
    BY <2>1 DEF Ask, WriteCommand, Loginout, histVars, ClientBase, ClientTypeOK
  <2>3. /\ \A c \in Links : Len(requests[c]) <= 1 /\ Every(requests[c], First)
        /\ main = "session" => requests[fd] = <<>>
    BY <2>2 DEF FramingInv, FewInv
  <2>4. main = "ask" => requests[fd] = <<>>
    BY <1>1 DEF FramingInv, MainInv, Still, Links
  <2>5. requests'[fd] = requests[fd] \/ \E r \in First : requests'[fd] = <<r>>
    BY <1>1, <1>3, <2>1, <2>3, <2>4
  <2>6. ASSUME NEW r \in First
        PROVE  Len(<<r>>) <= 1 /\ Every(<<r>>, First)
    BY DEF Every
  <2>7. Len(requests'[fd]) <= 1 /\ Every(requests'[fd], First)
    BY <1>1, <2>3, <2>5, <2>6
  <2>8. main' = "session" => main = "session" /\ requests'[fd] = requests[fd]
    BY <1>3, <1>4, <2>1
  <2> QED  BY <1>1, <1>2, <2>3, <2>7, <2>8
<1> QED  BY <1>5, <1>7, <1>8, <1>9 DEF FramingInv

\* The client's steps that read.
LEMMA ReadFraming ==
  ASSUME ClientBase, FramingInv,
         GetAnswer \/ AnswerThrows \/ ReaderPrints \/ ReaderThrows
  PROVE  FramingInv'
<1>1. /\ UNCHANGED <<fd, asked, requests, handler, lengthy, commanded, pushed, readLink>>
      /\ ClientTypeOK
      /\ fd # 0 => fd \in Links
      /\ main \in {"await", "begin", "session"} => fd \in Links
      /\ reader = "read" => readLink \in Links
      /\ reader \in ReaderPCs
  BY DEF GetAnswer, AnswerThrows, ReaderPrints, ReaderThrows, Die, mainVars, readerVars, serverVars,
     histVars, ClientBase, ClientTypeOK, ClientFd
<1>2. ASSUME NEW c \in Links
      PROVE  \/ answers'[c] = answers[c]
             \/ \E k \in 1 .. Len(answers[c]) :
                  answers'[c] = SubSeq(answers[c], k + 1, Len(answers[c]))
  <2>1. /\ Len(answers[c]) \in Nat
        /\ answers[c] # <<>> => 1 \in 1 .. Len(answers[c])
    BY <1>1, LinkType, LenProperties, EmptySeq
  <2>2. \/ answers' = answers
        \/ \E d \in Links : \E k \in 1 .. Len(answers[d]) : Takes(d, k)
    <3>1. CASE GetAnswer
      BY <1>1, <3>1, LinkType, LenProperties, EmptySeq DEF GetAnswer
    <3>2. CASE AnswerThrows
      <4>1. fd \in Links
        BY <1>1, <3>2 DEF AnswerThrows
      <4>2. Len(answers[fd]) \in Nat /\ (answers[fd] # <<>> => 1 \in 1 .. Len(answers[fd]))
        BY <1>1, <4>1, LinkType, LenProperties, EmptySeq
      <4> QED  BY <3>2, <4>1, <4>2 DEF AnswerThrows
    <3>3. CASE ReaderPrints
      BY <1>1, <3>3, LinkType, LenProperties, EmptySeq DEF ReaderPrints
    <3>4. CASE ReaderThrows
      BY <1>1, <3>4 DEF ReaderThrows
    <3> QED  BY <3>1, <3>2, <3>3, <3>4
  <2> QED  BY <1>1, <2>2, LinkType DEF Takes
<1>3. ASSUME NEW c \in Links
      PROVE  \/ answers'[c] = answers[c]
             \/ \E k \in 1 .. Len(answers[c]) : \A i \in DOMAIN answers'[c] :
                  i + k \in DOMAIN answers[c] /\ answers'[c][i] = answers[c][i + k]
  <2>1. ASSUME NEW k \in 1 .. Len(answers[c]),
               answers'[c] = SubSeq(answers[c], k + 1, Len(answers[c]))
        PROVE  \A i \in DOMAIN answers'[c] :
                 i + k \in DOMAIN answers[c] /\ answers'[c][i] = answers[c][i + k]
    BY <1>1, <2>1, LinkType, TakenRest
  <2> QED  BY <1>2, <2>1
<1>4. ASSUME NEW c \in Links, NEW i \in DOMAIN answers'[c]
      PROVE  \E j \in DOMAIN answers[c] : answers'[c][i] = answers[c][j]
  BY <1>3, <1>4
<1>5. ASSUME NEW c \in Links
      PROVE  Silent(c) => Silent(c)'
  BY <1>1, <1>4 DEF Silent, Pushes, Answering, Every
<1>6. LinksInv'
  <2>1. \A c \in Links : stream'[c] = "unused" => stream[c] = "unused"
    BY <1>1 DEF GetAnswer, AnswerThrows, ReaderPrints, ReaderThrows, Die, ClientTypeOK
  <2>2. ASSUME NEW c \in Links, answers[c] = <<>>
        PROVE  answers'[c] = <<>>
    <3>1. ~\E k \in 1 .. Len(answers[c]) : TRUE
      BY <2>2
    <3> QED  BY <1>2, <2>2, <3>1
  <2>3. ASSUME NEW c \in Links, NEW i \in DOMAIN answers'[c]
        PROVE  /\ answers'[c][i] = "push" => pushed' > 0
               /\ answers'[c][i] \in {"pieces", "long"} => lengthy'
    BY <1>1, <1>4, <2>3 DEF FramingInv, LinksInv
  <2> QED  BY <1>1, <2>1, <2>2, <2>3 DEF FramingInv, LinksInv
<1>7. CASE AnswerThrows \/ ReaderThrows
  BY <1>1, <1>6, <1>7 DEF AnswerThrows, ReaderThrows, Die, FramingInv, MainInv, ReaderInv, FewInv
<1>8. CASE ReaderPrints
  <2>1. UNCHANGED <<main, stream>> /\ main \in {"session", "unset", "shutdown", "close", "join"}
        /\ reader' = "test"
    BY <1>8 DEF ReaderPrints, FramingInv, ReaderInv, mainVars
  <2>2. fd # 0 /\ Silent(fd) => Silent(fd)'
    BY <1>1, <1>5 DEF Silent, Pushes, Answering
  <2> QED  BY <1>1, <1>6, <2>1, <2>2 DEF FramingInv, MainInv, ReaderInv, FewInv
<1>9. CASE GetAnswer
  <2>1. /\ fd \in Links /\ Owed(fd) /\ stream[fd] = "open" /\ UNCHANGED <<stream, reader>>
        /\ main = "await" /\ main' \in {"begin", "menu"}
        /\ answers[fd] # <<>> /\ Head(answers[fd]) # "push"
        /\ answers'[fd] = SubSeq(answers[fd], 1 + 1, Len(answers[fd]))
    <3>1. main = "await" /\ fd \in Links /\ fd # 0
      BY <1>1, <1>9 DEF GetAnswer, Links
    <3>2. Owed(fd) /\ stream[fd] = "open"
      BY <3>1 DEF FramingInv, MainInv
    <3>3. main' \in {"begin", "menu"} /\ UNCHANGED <<stream, reader>> /\ answers[fd] # <<>>
      BY <1>9 DEF GetAnswer, readerVars
    <3>4. Head(answers[fd]) # "push"
      BY <1>9 DEF GetAnswer, AnswersTo
    <3>5. answers'[fd] = SubSeq(answers[fd], 1 + 1, Len(answers[fd]))
      BY <1>1, <1>9, <3>1, LinkType DEF GetAnswer, Takes
    <3> QED  BY <3>1, <3>2, <3>3, <3>4, <3>5
  <2>2. /\ Head(answers[fd]) = answers[fd][1]
        /\ 1 \in 1 .. Len(answers[fd]) /\ 1 \in DOMAIN answers[fd]
    BY <1>1, <2>1, LinkType, HeadTailProperties, LenProperties, EmptySeq
  <2>3. \A i \in DOMAIN answers'[fd] :
          i + 1 \in DOMAIN answers[fd] /\ answers'[fd][i] = answers[fd][i + 1]
    BY <1>1, <2>1, <2>2, LinkType, TakenRest
  <2>4. requests[fd] = <<>> /\ ~Answering(fd) /\ OneReply(answers[fd])
    BY <2>1, <2>2 DEF Owed, Pushes, Every
  <2>5. Every(answers'[fd], {"push"})
    <3>1. DOMAIN answers'[fd] \subseteq Nat \ {0}
      BY <1>1, <2>1, LinkType, LenProperties
    <3> QED  BY <2>1, <2>2, <2>3, <2>4, <3>1 DEF Every, OneReply
  <2>6. Still(fd)'
    BY <1>1, <2>4, <2>5 DEF Still, Pushes, Answering
  <2>7. reader \in {"none", "ended"}
    BY <1>1, <2>1 DEF FramingInv, ReaderInv, ReaderPCs
  <2> QED  BY <1>1, <1>6, <2>1, <2>6, <2>7 DEF FramingInv, MainInv, ReaderInv, FewInv
<1> QED  BY <1>7, <1>8, <1>9

LEMMA FramingStep == ClientBase /\ FramingInv /\ [ClientNext]_clientVars => FramingInv'
<1> SUFFICES ASSUME ClientBase, FramingInv, [ClientNext]_clientVars
             PROVE  FramingInv'
  OBVIOUS
<1>1. ASSUME NEW c \in Links, HandlerStep(c) \/ Misread(c) \/ Push(c)
      PROVE  FramingInv'
  BY <1>1, ServerFraming DEF Misread
<1>2. CASE Killed
  <2>1. 1 \in Links
    BY ClientAssumption DEF Links
  <2> QED  BY <1>2, <2>1, ServerFraming DEF Killed
<1>3. CASE \/ GetAnswer \/ AnswerThrows \/ ReaderPrints \/ ReaderThrows
  BY <1>3, ReadFraming
<1>4. CASE Ask \/ (\E r \in SessionCommands : WriteCommand(r)) \/ Loginout
  BY <1>4, WriteFraming
<1>5. CASE \/ Run \/ (\E r \in {"login", "reg"} : Choose(r)) \/ AnswerFails \/ StartReader
           \/ Quit \/ Unset \/ Shutdown \/ CloseFd \/ JoinReader
           \/ ReaderTest \/ ReaderLoad \/ ReaderEnter \/ ReaderEnds
           \/ AskKilled \/ SessionKilled \/ Restarted \/ UNCHANGED clientVars
  BY <1>5, QuietFraming
<1> QED  BY <1>1, <1>2, <1>3, <1>4, <1>5 DEF ClientNext, MainStep, UserStep, ReaderStep

LEMMA FramingInit == ClientInit => FramingInv
BY DEF ClientInit, FramingInv, LinksInv, MainInv, ReaderInv, FewInv, Every

LEMMA FramingHolds == ClientSpec => []FramingInv
<1> QED  BY FramingInit, FramingStep, ClientBaseHolds, PTL DEF ClientSpec

\* A client that has sent no command of a session has not made the server
\* misread (ChatServer.cpp:32-38, ChatClient.cpp:123-131).
THEOREM ClientKeepsFraming == ClientSpec => []MenuKeepsFraming
<1>1. ClientInit => MenuKeepsFraming
  BY DEF ClientInit, MenuKeepsFraming
<1>2. ClientBase /\ FramingInv /\ MenuKeepsFraming /\ [ClientNext]_clientVars => MenuKeepsFraming'
  <2> SUFFICES ASSUME ClientBase, FramingInv, MenuKeepsFraming, [ClientNext]_clientVars
               PROVE  MenuKeepsFraming'
    OBVIOUS
  <2>1. commanded \in Nat
    BY DEF ClientBase, ClientTypeOK
  <2>2. ASSUME NEW c \in Links, Misread(c)
        PROVE  commanded > 0 /\ commanded' = commanded
    <3>1. CASE commanded = 0
      <4>1. Len(requests[c]) <= 1 /\ Every(requests[c], {"login", "reg", "loginout"})
        BY <3>1 DEF FramingInv, FewInv
      <4>2. requests[c] \in Seq(Requests) /\ Len(requests[c]) \in Nat
        BY LinkType, LenProperties DEF ClientBase
      <4>3. requests[c] # <<>> /\ Head(requests[c]) \in FreeText
        BY <2>2, <4>1, <4>2 DEF Misread
      <4>4. Head(requests[c]) \in {"login", "reg", "loginout"}
        BY <4>1, <4>2, <4>3, EveryTail
      <4> QED  BY <4>3, <4>4 DEF FreeText
    <3>2. commanded' = commanded
      BY <2>2 DEF Misread, ServerDies
    <3> QED  BY <2>1, <3>1, <3>2
  <2>3. ASSUME NEW r \in SessionCommands, WriteCommand(r)
        PROVE  commanded' > 0
    BY <2>1, <2>3 DEF WriteCommand
  <2>4. CASE /\ ~\E c \in Links : Misread(c)
             /\ ~\E r \in SessionCommands : WriteCommand(r)
    <3>1. UNCHANGED <<misread, commanded>>
      BY <2>4 DEF ClientNext, MainStep, GetAnswer, AnswerFails, AnswerThrows, StartReader, Unset,
         Shutdown, CloseFd, JoinReader, UserStep, Run, Choose, Ask, AskKilled, Loginout,
         SessionKilled, Quit, ReaderStep, ReaderTest, ReaderLoad, ReaderEnter, ReaderPrints,
         ReaderThrows, ReaderEnds, HandlerStep, Push, Killed, ServerDies, Restarted, Refuse, Accept,
         Enlist, Welcome, Register, Chat, AddFriend, FriendBack, CreateGroup, AddCreator, AddGroup,
         HandleLoginout, HandleEnd, histVars, clientVars
    <3> QED  BY <3>1 DEF MenuKeepsFraming
  <2> QED  BY <2>2, <2>3, <2>4 DEF MenuKeepsFraming
<1> QED  BY <1>1, <1>2, ClientBaseHolds, FramingHolds, PTL DEF ClientSpec

\* What the server does to a link that is closed.
LEMMA ClosedStays ==
  ASSUME ClientTypeOK, [ClientNext]_clientVars, NEW c \in Links, handler[c] = "closed"
  PROVE  handler'[c] = "closed"
<1>1. ASSUME NEW d \in Links, HandlerStep(d)
      PROVE  handler'[c] = "closed"
  BY <1>1, LinkType
     DEF HandlerStep, Refuse, Accept, Enlist, Welcome, Register, Chat, AddFriend, FriendBack,
         CreateGroup, AddCreator, AddGroup, HandleLoginout, HandleEnd, Handles
<1>2. CASE ServerDies
  BY <1>2 DEF ServerDies
<1>3. CASE handler' = handler
  BY <1>3
<1> QED  BY <1>1, <1>2, <1>3 DEF ClientNext, MainStep, GetAnswer, AnswerFails, AnswerThrows,
         StartReader, Unset, Shutdown, CloseFd, JoinReader, UserStep, Run, Choose, Ask, AskKilled,
         WriteCommand, Loginout, SessionKilled, Quit, ReaderStep, ReaderTest, ReaderLoad, ReaderEnter,
         ReaderPrints, ReaderThrows, ReaderEnds, Push, Misread, Killed, Restarted, serverVars,
         clientVars

\* The client dies only when messages are pushed to it, or a login answer takes
\* more than one segment, or its server died (ChatClient.cpp:131-139, 473-483).
THEOREM ClientDiesForAReason == ClientSpec => []DiesForAReason
<1>1. ClientInit => DiesForAReason
  BY DEF ClientInit, DiesForAReason
<1>2. ClientBase /\ FramingInv /\ DiesForAReason /\ [ClientNext]_clientVars => DiesForAReason'
  <2> SUFFICES ASSUME ClientBase, FramingInv, DiesForAReason, [ClientNext]_clientVars,
                      main' = "dead"
               PROVE  pushed' > 0 \/ lengthy' \/ (fd' # 0 /\ handler'[fd'] = "closed")
    BY DEF DiesForAReason
  <2>1. /\ ClientTypeOK /\ pushed \in Nat
        /\ fd # 0 <=> fd \in Links
        /\ main \in {"ask", "await", "session"} => fd \in Links
        /\ reader = "read" => readLink \in Links
    BY DEF ClientBase, ClientTypeOK, ClientFd, Links
  <2>2. (pushed > 0 => pushed' > 0) /\ (lengthy => lengthy')
    <3>1. \/ UNCHANGED <<pushed, lengthy>>
          \/ \E c \in Links : Welcome(c) \/ Push(c)
      BY DEF ClientNext, MainStep, GetAnswer, AnswerFails, AnswerThrows, StartReader, Unset,
         Shutdown, CloseFd, JoinReader, UserStep, Run, Choose, Ask, AskKilled, WriteCommand, Loginout,
         SessionKilled, Quit, ReaderStep, ReaderTest, ReaderLoad, ReaderEnter, ReaderPrints,
         ReaderThrows, ReaderEnds, HandlerStep, Misread, Killed, ServerDies, Restarted, Refuse, Accept,
         Enlist, Register, Chat, AddFriend, FriendBack, CreateGroup, AddCreator, AddGroup,
         HandleLoginout, HandleEnd, histVars, clientVars
    <3>2. ASSUME NEW c \in Links, Welcome(c)
          PROVE  pushed' = pushed /\ (lengthy => lengthy')
      <4>1. pushed' = pushed
        BY <3>2 DEF Welcome
      <4>2. lengthy' = lengthy \/ lengthy' = TRUE
        BY <3>2, Zenon DEF Welcome
      <4> QED  BY <4>1, <4>2
    <3>3. ASSUME NEW c \in Links, Push(c)
          PROVE  pushed' > 0 /\ lengthy' = lengthy
      BY <2>1, <3>3 DEF Push
    <3> QED  BY <3>1, <3>2, <3>3
  <2>3. CASE main = "dead"
    <3>1. reader \in {"none", "ended"}
      BY <2>1, <2>3 DEF FramingInv, ReaderInv, ClientTypeOK, ReaderPCs
    <3>2. fd' = fd
      BY <2>3, <3>1 DEF ClientNext, MainStep, GetAnswer, AnswerFails, AnswerThrows, StartReader, Unset,
         Shutdown, CloseFd, JoinReader, UserStep, Run, Choose, Ask, AskKilled, WriteCommand, Loginout,
         SessionKilled, Quit, ReaderStep, ReaderTest, ReaderLoad, ReaderEnter, ReaderPrints,
         ReaderThrows, ReaderEnds, HandlerStep, Push, Misread, Killed, ServerDies, Restarted, Refuse,
         Accept, Enlist, Welcome, Register, Chat, AddFriend, FriendBack, CreateGroup, AddCreator,
         AddGroup, HandleLoginout, HandleEnd, mainVars, clientVars
    <3>3. fd # 0 /\ handler[fd] = "closed" => handler'[fd] = "closed"
      BY <2>1, ClosedStays
    <3> QED  BY <2>2, <2>3, <3>2, <3>3 DEF DiesForAReason
  <2>4. CASE main # "dead"
    <3>1. AskKilled \/ SessionKilled \/ AnswerThrows \/ ReaderThrows
      BY <2>4 DEF ClientNext, MainStep, GetAnswer, AnswerFails, StartReader, Unset,
         Shutdown, CloseFd, JoinReader, UserStep, Run, Choose, Ask, WriteCommand, Loginout,
         Quit, ReaderStep, ReaderTest, ReaderLoad, ReaderEnter, ReaderPrints,
         ReaderEnds, HandlerStep, Push, Misread, Killed, ServerDies, Restarted, Refuse,
         Accept, Enlist, Welcome, Register, Chat, AddFriend, FriendBack, CreateGroup, AddCreator,
         AddGroup, HandleLoginout, HandleEnd, mainVars, clientVars
    <3>2. UNCHANGED <<fd, handler>>
      BY <3>1 DEF AskKilled, SessionKilled, AnswerThrows, ReaderThrows, Die, serverVars
    <3>3. CASE AskKilled \/ SessionKilled
      BY <2>1, <3>2, <3>3 DEF AskKilled, SessionKilled, WriteFails
    <3>4. CASE AnswerThrows
      <4>1. main = "await" /\ fd \in Links /\ fd # 0
        BY <2>1, <3>4 DEF AnswerThrows
      <4>2. Owed(fd) /\ stream[fd] = "open"
        BY <4>1 DEF FramingInv, MainInv
      <4>3. CASE NothingComes(fd)
        BY <3>2, <4>1, <4>2, <4>3 DEF NothingComes
      <4>4. CASE answers[fd] # <<>> /\ Head(answers[fd]) \in {"pieces", "long", "push"}
        <5>1. 1 \in DOMAIN answers[fd] /\ Head(answers[fd]) = answers[fd][1]
          BY <2>1, <4>1, <4>4, LinkType, HeadTailProperties, LenProperties, EmptySeq
        <5> QED  BY <2>2, <4>1, <4>4, <5>1 DEF FramingInv, LinksInv
      <4>5. CASE Len(answers[fd]) >= 2
        <5>1. 1 \in DOMAIN answers[fd] /\ 2 \in DOMAIN answers[fd]
          BY <2>1, <4>1, <4>5, LinkType, LenProperties
        <5>2. answers[fd][1] = "push" \/ answers[fd][2] = "push"
          BY <4>2, <5>1 DEF Owed, Pushes, Every, OneReply
        <5> QED  BY <2>2, <4>1, <5>1, <5>2 DEF FramingInv, LinksInv
      <4> QED  BY <3>4, <4>3, <4>4, <4>5 DEF AnswerThrows
    <3>5. CASE ReaderThrows
      <4>1. readLink \in Links /\ Silent(readLink)
        BY <2>1, <3>5 DEF ReaderThrows, FramingInv, ReaderInv
      <4>2. 1 \in DOMAIN answers[readLink]
        BY <2>1, <3>5, <4>1, LinkType, LenProperties DEF ReaderThrows
      <4>3. answers[readLink][1] = "push"
        BY <4>1, <4>2 DEF Silent, Pushes, Every
      <4> QED  BY <2>2, <4>1, <4>2, <4>3 DEF FramingInv, LinksInv
    <3> QED  BY <3>1, <3>3, <3>4, <3>5
  <2> QED  BY <2>3, <2>4
<1> QED  BY <1>1, <1>2, ClientBaseHolds, FramingHolds, PTL DEF ClientSpec
-----------------------------------------------------------------------------
(* The client comes back to its user *)

\* While main waits, its answer is due: the server has the request or is at it, or
\* something has come, or the connection is over; and what comes fits the request.
AwaitInv ==
  main = "await" =>
    /\ handler[fd] = "closed" \/ Answering(fd) \/ requests[fd] = <<asked>> \/ answers[fd] # <<>>
    /\ Answering(fd) => asked = "login"
    /\ Every(answers[fd], AnswersTo(asked) \cup {"long", "push"})

\* While main leaves a session, the reader will not start on a connection again,
\* and when main waits for it, its connection is shut.
LeaveInv ==
  /\ main \in {"shutdown", "close", "join"} => ~loggedIn
  /\ main = "unset" /\ fd = 0 => reader = "none"
  /\ main = "close" => stream[fd] = "shut"
  /\ main = "join" /\ reader = "read" => stream[readLink] = "shut"


\* What may happen to the link c while main waits for its answer.
AwaitMoves(c) ==
  \/ handler'[c] = "closed" /\ answers'[c] = answers[c]
  \/ /\ UNCHANGED <<requests[c], handler[c]>>
     /\ answers'[c] = answers[c] \/ answers'[c] = Append(answers[c], "push")
  \/ /\ handler[c] = "idle" /\ requests[c] = <<asked>> /\ handler'[c] = "idle"
     /\ \E a \in AnswersTo(asked) : answers'[c] = Append(answers[c], a)
  \/ /\ handler[c] = "idle" /\ requests[c] = <<asked>> /\ asked = "login"
     /\ handler'[c] = "enlist" /\ answers'[c] = answers[c]
  \/ /\ handler[c] = "enlist" /\ handler'[c] = "welcome"
     /\ UNCHANGED <<requests[c], answers[c]>>
  \/ /\ handler[c] = "welcome" /\ handler'[c] = "idle"
     /\ \E a \in Welcomes : answers'[c] = Append(answers[c], a)
  \/ /\ handler[c] \in HalfWay /\ handler'[c] = "idle"
     /\ UNCHANGED <<requests[c], answers[c]>>

\* The handler of the link c, in particular, takes the request or sends the answer.
LEMMA HandlerMoves ==
  ASSUME ClientTypeOK, NEW c \in Links, Owed(c), HandlerStep(c)
  PROVE  AwaitMoves(c) /\ (handler'[c] # handler[c] \/ answers'[c] # answers[c])
<1>1. requests[c] # <<>> => requests[c] = <<asked>>
  BY DEF Owed
<1>2. \A a \in Answers : Append(answers[c], a) # answers[c]
  <2>1. answers[c] \in Seq(Answers) /\ Len(answers[c]) \in Nat
    BY LinkType, LenProperties
  <2>2. \A a \in Answers : Len(Append(answers[c], a)) = Len(answers[c]) + 1
    BY <2>1, AppendProperties
  <2> QED  BY <2>1, <2>2
<1>3. ASSUME NEW r, NEW pc \in HandlerPCs, Handles(c, r, pc)
      PROVE  /\ requests[c] = <<asked>> /\ r = asked
             /\ handler[c] = "idle" /\ handler'[c] = pc
  BY <1>1, <1>3, HandlesLink
<1>4. asked \in {"login", "reg"}
  BY DEF ClientTypeOK
<1>5. CASE Refuse(c) \/ Register(c)
  <2>1. CASE Refuse(c)
    <3>1. Handles(c, "login", "idle") /\ "idle" \in HandlerPCs
      BY <2>1 DEF Refuse, HandlerPCs
    <3>2. requests[c] = <<asked>> /\ asked = "login" /\ handler[c] = "idle" /\ handler'[c] = "idle"
      BY <1>3, <3>1
    <3>3. answers'[c] = Append(answers[c], "refused")
      BY <2>1, LinkType DEF Refuse, Sends
    <3>4. "refused" \in AnswersTo(asked) /\ "refused" \in Answers
      BY <3>2 DEF AnswersTo, Answers, Welcomes
    <3> QED  BY <1>2, <3>2, <3>3, <3>4 DEF AwaitMoves
  <2>2. CASE Register(c)
    <3>1. Handles(c, "reg", "idle") /\ "idle" \in HandlerPCs
      BY <2>2 DEF Register, HandlerPCs
    <3>2. requests[c] = <<asked>> /\ asked = "reg" /\ handler[c] = "idle" /\ handler'[c] = "idle"
      BY <1>3, <3>1
    <3>3. answers'[c] = Append(answers[c], "reg")
      BY <2>2, LinkType DEF Register, Sends
    <3>4. "reg" \in AnswersTo(asked) /\ "reg" \in Answers
      BY <3>2 DEF AnswersTo, Answers, Welcomes
    <3> QED  BY <1>2, <3>2, <3>3, <3>4 DEF AwaitMoves
  <2> QED  BY <1>5, <2>1, <2>2
<1>6. CASE Accept(c)
  <2>1. Handles(c, "login", "enlist") /\ "enlist" \in HandlerPCs /\ answers' = answers
    BY <1>6 DEF Accept, HandlerPCs
  <2>2. requests[c] = <<asked>> /\ asked = "login" /\ handler[c] = "idle" /\ handler'[c] = "enlist"
    BY <1>3, <2>1
  <2> QED  BY <2>1, <2>2 DEF AwaitMoves
<1>7. CASE Enlist(c)
  <2>1. handler[c] = "enlist" /\ handler'[c] = "welcome" /\ UNCHANGED <<requests, answers>>
    BY <1>7, LinkType DEF Enlist
  <2> QED  BY <2>1 DEF AwaitMoves
<1>8. CASE Welcome(c)
  <2>1. handler[c] = "welcome" /\ handler'[c] = "idle"
    BY <1>8, LinkType DEF Welcome
  <2>2. \E a \in Welcomes : answers'[c] = Append(answers[c], a)
    BY <1>8, LinkType DEF Welcome, Welcomes, Sends
  <2> QED  BY <2>1, <2>2 DEF AwaitMoves
<1>9. CASE FriendBack(c) \/ AddCreator(c)
  <2>1. handler[c] \in HalfWay /\ handler'[c] = "idle" /\ UNCHANGED <<requests, answers>>
    BY <1>9, LinkType DEF FriendBack, AddCreator, HalfWay
  <2> QED  BY <2>1 DEF AwaitMoves, HalfWay
<1>10. CASE HandleEnd(c)
  <2>1. handler[c] = "idle" /\ handler'[c] = "closed" /\ UNCHANGED answers
    BY <1>10, LinkType DEF HandleEnd
  <2> QED  BY <2>1 DEF AwaitMoves
<1>11. CASE Chat(c) \/ AddFriend(c) \/ CreateGroup(c) \/ AddGroup(c) \/ HandleLoginout(c)
  <2>1. \E r \in {"chat", "addfriend", "creategroup", "addgroup", "loginout"}, pc \in HandlerPCs :
          Handles(c, r, pc)
    BY <1>11 DEF Chat, AddFriend, CreateGroup, AddGroup, HandleLoginout, HandlerPCs
  <2> QED  BY <1>3, <1>4, <2>1
<1> QED  BY <1>5, <1>6, <1>7, <1>8, <1>9, <1>10, <1>11 DEF HandlerStep

\* Every step while main waits on the link c.
LEMMA AwaitStays ==
  ASSUME ClientBase, FramingInv, [ClientNext]_clientVars,
         NEW c \in Links, main = "await", fd = c
  PROVE  \/ main' \in {"menu", "begin", "dead"} /\ MainStep
         \/ /\ main' = "await" /\ fd' = c /\ asked' = asked
            /\ AwaitMoves(c)
<1>1. ClientTypeOK /\ Owed(c) /\ reader \in {"none", "ended"}
  BY DEF ClientBase, FramingInv, MainInv, ReaderInv, ClientTypeOK, ReaderPCs
<1>2. CASE MainStep
  BY <1>2 DEF MainStep, GetAnswer, AnswerFails, AnswerThrows, Die, StartReader, Unset, Shutdown,
              CloseFd, JoinReader
<1>3. CASE UserStep
  BY <1>3 DEF UserStep, Run, Choose, Ask, AskKilled, WriteCommand, Loginout, SessionKilled, Quit
<1>4. CASE ReaderStep
  BY <1>1, <1>4 DEF ReaderStep, ReaderTest, ReaderLoad, ReaderEnter, ReaderPrints, ReaderThrows,
                    ReaderEnds
<1>5. ASSUME NEW d \in Links, HandlerStep(d)
      PROVE  AwaitMoves(c) /\ UNCHANGED mainVars
  <2>1. UNCHANGED mainVars
    BY <1>5 DEF HandlerStep, Refuse, Accept, Enlist, Welcome, Register, Chat, AddFriend, FriendBack,
         CreateGroup, AddCreator, AddGroup, HandleLoginout, HandleEnd
  <2>2. CASE d = c
    BY <1>1, <1>5, <2>1, <2>2, HandlerMoves
  <2>3. CASE d # c
    <3>1. UNCHANGED <<requests[c], handler[c], answers[c]>>
      BY <1>1, <1>5, <2>3, LinkType
         DEF HandlerStep, Refuse, Accept, Enlist, Welcome, Register, Chat, AddFriend, FriendBack,
             CreateGroup, AddCreator, AddGroup, HandleLoginout, HandleEnd, Handles, Sends
    <3> QED  BY <2>1, <3>1 DEF AwaitMoves
  <2> QED  BY <2>2, <2>3
<1>6. ASSUME NEW d \in Links, Push(d)
      PROVE  AwaitMoves(c) /\ UNCHANGED mainVars
  <2>1. /\ UNCHANGED <<requests, handler>> /\ UNCHANGED mainVars
        /\ answers'[c] = answers[c] \/ answers'[c] = Append(answers[c], "push")
    BY <1>1, <1>6, LinkType DEF Push, Sends, serverVars
  <2> QED  BY <2>1 DEF AwaitMoves
<1>7. CASE ServerDies
  <2>1. stream[c] = "open" /\ c # 0
    BY DEF FramingInv, MainInv, ClientBase, ClientFd
  <2>2. handler'[c] = "closed" /\ UNCHANGED answers /\ UNCHANGED mainVars
    BY <1>7, <2>1 DEF ServerDies
  <2> QED  BY <2>2 DEF AwaitMoves, mainVars
<1>8. CASE Restarted \/ UNCHANGED clientVars
  <2>1. UNCHANGED <<requests, handler, answers>> /\ UNCHANGED mainVars
    BY <1>8 DEF Restarted, clientVars, serverVars
  <2> QED  BY <2>1 DEF AwaitMoves, mainVars
<1> QED  BY <1>2, <1>3, <1>4, <1>5, <1>6, <1>7, <1>8 DEF ClientNext, Misread, Killed, mainVars

LEMMA EveryFits ==
  ASSUME ClientTypeOK, NEW c \in Links, NEW S, Every(answers[c], S), NEW a \in S, a \in Answers
  PROVE  Every(Append(answers[c], a), S) /\ Append(answers[c], a) # <<>>
<1>1. answers[c] \in Seq(Answers)
  BY LinkType
<1>2. Every(Append(answers[c], a), S)
  BY <1>1, EveryAppend
<1>3. Append(answers[c], a) # <<>>
  BY <1>1
<1> QED  BY <1>2, <1>3

\* A step of which main goes on waiting.
LEMMA AwaitGoesOn ==
  ASSUME ClientTypeOK, AwaitInv, NEW c \in Links, main = "await", fd = c,
         main' = "await", fd' = c, asked' = asked, AwaitMoves(c)
  PROVE  AwaitInv'
<1> DEFINE Fits == AnswersTo(asked) \cup {"long", "push"}
<1>1. /\ Answering(c) => asked = "login"
      /\ Every(answers[c], Fits)
      /\ handler[c] = "closed" \/ Answering(c) \/ requests[c] = <<asked>> \/ answers[c] # <<>>
  BY DEF AwaitInv
<1>2. AnswersTo(asked) \cup {"long", "push"} \subseteq Answers
  BY DEF AnswersTo, Answers, Welcomes
<1>3. ASSUME NEW a \in Fits
      PROVE  Every(Append(answers[c], a), Fits) /\ Append(answers[c], a) # <<>>
  BY <1>1, <1>2, <1>3, EveryFits
<1>4. asked = "login" => Welcomes \subseteq Fits
  BY DEF AnswersTo, Welcomes
<1>5. Every(answers'[c], Fits)
  <2>1. answers'[c] = answers[c] \/ \E a \in Fits : answers'[c] = Append(answers[c], a)
    BY <1>1, <1>4 DEF AwaitMoves, Answering
  <2> QED  BY <1>1, <1>3, <2>1
<1>6. handler'[c] \in {"enlist", "welcome"} => asked = "login"
  BY <1>1 DEF AwaitMoves, Answering
<1>7. \/ handler'[c] = "closed" \/ handler'[c] \in {"enlist", "welcome"}
      \/ requests'[c] = <<asked>> \/ answers'[c] # <<>>
  <2>1. \/ handler'[c] = "closed" \/ handler'[c] \in {"enlist", "welcome"}
        \/ \E a \in Fits : answers'[c] = Append(answers[c], a)
        \/ UNCHANGED <<requests[c], answers[c]>> /\ handler'[c] = handler[c]
        \/ handler[c] \in HalfWay /\ UNCHANGED <<requests[c], answers[c]>>
    BY <1>1, <1>4 DEF AwaitMoves, Answering
  <2> QED  BY <1>1, <1>3, <2>1 DEF HalfWay, Answering
<1> QED  BY <1>5, <1>6, <1>7 DEF AwaitInv, Answering

LEMMA AwaitStep == ClientBase /\ FramingInv /\ AwaitInv /\ [ClientNext]_clientVars => AwaitInv'
<1> SUFFICES ASSUME ClientBase, FramingInv, AwaitInv, [ClientNext]_clientVars, main' = "await"
             PROVE  AwaitInv'
  BY DEF AwaitInv
<1>0. ClientTypeOK /\ asked \in {"login", "reg"}
  BY DEF ClientBase, ClientTypeOK
<1>1. CASE main = "await"
  <2>1. PICK c \in Links : c = fd
    BY <1>1 DEF ClientBase, ClientTypeOK, ClientFd
  <2>2. fd' = c /\ asked' = asked /\ AwaitMoves(c)
    BY <1>1, <2>1, AwaitStays
  <2> QED  BY <1>0, <1>1, <2>1, <2>2, AwaitGoesOn
<1>2. CASE main # "await"
  <2>1. Ask
    BY <1>2 DEF ClientNext, MainStep, GetAnswer, AnswerFails, AnswerThrows, StartReader, Unset,
       Shutdown, CloseFd, JoinReader, UserStep, Run, Choose, AskKilled, WriteCommand, Loginout,
       SessionKilled, Quit, ReaderStep, ReaderTest, ReaderLoad, ReaderEnter, ReaderPrints,
       ReaderThrows, ReaderEnds, Die, HandlerStep, Push, Misread, Killed, ServerDies, Restarted, Refuse,
       Accept, Enlist, Welcome, Register, Chat, AddFriend, FriendBack, CreateGroup, AddCreator,
       AddGroup, HandleLoginout, HandleEnd, mainVars, clientVars
  <2>2. main = "ask" /\ fd \in Links /\ fd # 0 /\ UNCHANGED <<asked, fd, answers, handler>>
    BY <2>1 DEF Ask, ClientBase, ClientTypeOK, ClientFd, serverVars
  <2>3. Still(fd)
    BY <2>2 DEF FramingInv, MainInv
  <2>4. handler[fd] = "closed" \/ requests'[fd] = <<asked>>
    BY <1>0, <2>1, <2>2, <2>3, LinkType DEF Ask, Delivered, WriteLost, WriteFails, Still
  <2>5. Every(answers[fd], AnswersTo(asked) \cup {"long", "push"}) /\ ~Answering(fd)
    BY <2>3 DEF Still, Pushes, Every
  <2> QED  BY <2>2, <2>4, <2>5 DEF AwaitInv, Answering, Every
<1> QED  BY <1>1, <1>2

\* The steps that change the places of the two threads, or what they look at.
LEMMA LeaveStep ==
  ClientBase /\ FramingInv /\ OneReader /\ LeaveInv /\ [ClientNext]_clientVars => LeaveInv'
<1> SUFFICES ASSUME ClientBase, FramingInv, OneReader, LeaveInv, [ClientNext]_clientVars
             PROVE  LeaveInv'
  OBVIOUS
<1>0. /\ ClientTypeOK
      /\ main \in {"session", "shutdown", "close"} => fd \in Links /\ fd # 0
      /\ main = "join" => fd = 0
      /\ reader = "read" => readLink \in Links
      /\ stream \in [Links -> {"unused", "open", "shut"}]
      /\ loggedIn \in BOOLEAN
  BY DEF ClientBase, ClientTypeOK, ClientFd, FramingInv, MainInv
<1>1. CASE Run \/ (\E r \in {"login", "reg"} : Choose(r)) \/ Ask \/ GetAnswer \/ AnswerFails
           \/ StartReader \/ Loginout \/ Quit \/ JoinReader
           \/ \E r \in SessionCommands : WriteCommand(r)
  <2>1. \/ main' \notin Leaving
        \/ /\ main' = "unset" /\ UNCHANGED <<fd, reader>>
           /\ main = "menu" \/ main = "session"
    BY <1>1 DEF Run, Choose, Ask, GetAnswer, AnswerFails, StartReader, Loginout, Quit, JoinReader,
                WriteCommand, mainVars, readerVars, Leaving
  <2> QED  BY <1>0, <2>1 DEF LeaveInv, OneReader, Leaving
<1>2. CASE Unset
  <2>1. ~loggedIn'
    BY <1>2, Zenon DEF Unset
  <2>2. /\ main = "unset" /\ UNCHANGED <<fd, reader, readLink, stream>>
        /\ main' = IF fd = 0 THEN "join" ELSE "shutdown"
    BY <1>2 DEF Unset, readerVars
  <2> QED  BY <2>1, <2>2 DEF LeaveInv
<1>3. CASE Shutdown
  <2>1. /\ main = "shutdown" /\ main' = "close" /\ UNCHANGED <<fd, loggedIn>>
        /\ stream' = [stream EXCEPT ![fd] = "shut"]
    BY <1>3 DEF Shutdown
  <2>2. stream'[fd] = "shut"
    BY <1>0, <2>1
  <2>3. ~loggedIn'
    BY <2>1 DEF LeaveInv
  <2> QED  BY <2>1, <2>2, <2>3 DEF LeaveInv
<1>4. CASE CloseFd
  <2>1. /\ main = "close" /\ main' = "join" /\ UNCHANGED <<loggedIn, reader, readLink>>
        /\ stream[fd] = "shut" /\ fd \in Links
        /\ stream' = [stream EXCEPT ![fd] = IF reader = "read" /\ readLink = fd THEN @ ELSE "shut"]
    BY <1>0, <1>4 DEF CloseFd, LeaveInv, readerVars
  <2>2. reader = "read" => readLink = fd
    BY <2>1 DEF OneReader
  <2>3. stream'[fd] = "shut"
    BY <1>0, <2>1
  <2>4. ~loggedIn'
    BY <2>1 DEF LeaveInv
  <2> QED  BY <2>1, <2>2, <2>3, <2>4 DEF LeaveInv
<1>5. CASE AnswerThrows \/ AskKilled \/ SessionKilled \/ ReaderThrows
  BY <1>5 DEF AnswerThrows, AskKilled, SessionKilled, ReaderThrows, Die, LeaveInv
<1>6. CASE ReaderTest \/ ReaderLoad \/ ReaderEnter \/ ReaderPrints \/ ReaderEnds
  <2>1. UNCHANGED <<mainVars, stream>> /\ reader # "none"
    BY <1>6 DEF ReaderTest, ReaderLoad, ReaderEnter, ReaderPrints, ReaderEnds
  <2>2. reader' = "read" => ReaderEnter /\ fd # 0
    BY <1>6 DEF ReaderTest, ReaderLoad, ReaderEnter, ReaderPrints, ReaderEnds
  <2> QED  BY <1>0, <2>1, <2>2 DEF LeaveInv, mainVars
<1>7. CASE UNCHANGED <<mainVars, readerVars, stream>>
  BY <1>7 DEF LeaveInv, mainVars, readerVars
<1>8. ASSUME NEW c \in Links, HandlerStep(c) \/ Misread(c) \/ Push(c)
      PROVE  UNCHANGED <<mainVars, readerVars, stream>>
  BY <1>8 DEF HandlerStep, Misread, ServerDies, Push, Refuse, Accept, Enlist, Welcome, Register, Chat,
     AddFriend, FriendBack, CreateGroup, AddCreator, AddGroup, HandleLoginout, HandleEnd
<1>9. CASE Killed \/ Restarted \/ UNCHANGED clientVars
  BY <1>7, <1>9 DEF Killed, ServerDies, Restarted, clientVars
<1> QED  BY <1>1, <1>2, <1>3, <1>4, <1>5, <1>6, <1>7, <1>8, <1>9
         DEF ClientNext, MainStep, UserStep, ReaderStep

ClientAlways == ClientBase /\ FramingInv /\ OneReader /\ AwaitInv /\ LeaveInv

LEMMA ClientAlwaysHolds == ClientSpec => []ClientAlways
<1>1. ClientInit => AwaitInv /\ LeaveInv
  BY DEF ClientInit, AwaitInv, LeaveInv
<1> QED  BY <1>1, AwaitStep, LeaveStep, ClientBaseHolds, FramingHolds, ClientOneReader, PTL
         DEF ClientSpec, ClientAlways

\* The hypothesis of the next theorem: where their guards hold, the threads of the
\* client and the handlers of the server can step.
MainReady ==
  \/ main = "await" /\ NothingComes(fd)
  \/ main = "await" /\ answers[fd] # <<>>
       /\ Head(answers[fd]) \in AnswersTo(asked) \cup {"long", "push"}
  \/ main \in {"begin", "join"} /\ reader \in {"none", "ended"}
  \/ main \in {"unset", "shutdown", "close"}

ReaderReady ==
  \/ reader \in {"test", "load", "enter"}
  \/ reader = "read" /\ (answers[readLink] # <<>> \/ NothingComes(readLink))

HandlerReady(c) ==
  \/ handler[c] \in {"enlist", "welcome", "back", "creator"}
  \/ /\ handler[c] = "idle" /\ requests[c] # <<>>
     /\ Head(requests[c]) \in {"login", "reg"}

ClientCanStep ==
  /\ MainReady => ENABLED <<MainStep>>_clientVars
  /\ ReaderReady => ENABLED <<ReaderStep>>_clientVars
  /\ \A c \in Links : HandlerReady(c) => ENABLED <<HandlerStep(c)>>_clientVars

\* The places of an answer on its way, and of the reader while main waits for it.
Waits(c) == main = "await" /\ fd = c
AtHalf(c) == Waits(c) /\ handler[c] \in HalfWay /\ requests[c] = <<asked>>
AtIdle(c) == Waits(c) /\ handler[c] = "idle" /\ requests[c] = <<asked>>
AtHandler(c, pc) == Waits(c) /\ handler[c] = pc
Answerable(c) == Waits(c) /\ (handler[c] = "closed" \/ answers[c] # <<>>)
Answered == main \in {"menu", "begin", "dead"}
Joins(S) == main = "join" /\ reader \in S
Back == main \in {"menu", "session", "over", "dead"}

LEMMA NotEmptied ==
  ASSUME NEW T, NEW s \in Seq(T), NEW a \in T
  PROVE  Append(s, a) # <<>>
<1>1. Len(Append(s, a)) = Len(s) + 1 /\ Len(s) \in Nat
  BY AppendProperties, LenProperties
<1>2. Len(<<>>) = 0
  BY EmptySeq
<1> QED  BY <1>1, <1>2

LEMMA WaitCases ==
  ASSUME ClientAlways, NEW c \in Links, Waits(c)
  PROVE  AtHalf(c) \/ AtIdle(c) \/ AtHandler(c, "enlist") \/ AtHandler(c, "welcome") \/ Answerable(c)
BY LinkType DEF ClientAlways, ClientBase, AwaitInv, Waits, AtHalf, AtIdle, AtHandler, Answerable,
                Answering, HandlerPCs, HalfWay

\* No step loses the answer; each of the server's own brings it nearer.
LEMMA WaitSteps ==
  ASSUME ClientAlways, [ClientNext]_clientVars, NEW c \in Links
  PROVE  /\ AtHalf(c) => AtHalf(c)' \/ AtIdle(c)' \/ Answerable(c)' \/ Answered'
         /\ AtIdle(c) => AtIdle(c)' \/ AtHandler(c, "enlist")' \/ Answerable(c)' \/ Answered'
         /\ AtHandler(c, "enlist") =>
              AtHandler(c, "enlist")' \/ AtHandler(c, "welcome")' \/ Answerable(c)' \/ Answered'
         /\ AtHandler(c, "welcome") => AtHandler(c, "welcome")' \/ Answerable(c)' \/ Answered'
         /\ Answerable(c) => Answerable(c)' \/ Answered'
<1> SUFFICES ASSUME Waits(c), ~Answered'
             PROVE  /\ AtHalf(c) => AtHalf(c)' \/ AtIdle(c)' \/ Answerable(c)'
                    /\ AtIdle(c) => AtIdle(c)' \/ AtHandler(c, "enlist")' \/ Answerable(c)'
                    /\ AtHandler(c, "enlist") =>
                         AtHandler(c, "enlist")' \/ AtHandler(c, "welcome")' \/ Answerable(c)'
                    /\ AtHandler(c, "welcome") => AtHandler(c, "welcome")' \/ Answerable(c)'
                    /\ Answerable(c) => Answerable(c)'
  BY DEF AtHalf, AtIdle, AtHandler, Answerable
<1>1. Waits(c)' /\ asked' = asked /\ AwaitMoves(c)
  BY AwaitStays DEF ClientAlways, Waits, Answered
<1>2. \A a \in {"push"} \cup Welcomes \cup AnswersTo(asked) : Append(answers[c], a) # <<>>
  <2>1. answers[c] \in Seq(Answers)
    BY LinkType DEF ClientAlways, ClientBase
  <2>2. {"push"} \cup Welcomes \cup AnswersTo(asked) \subseteq Answers
    BY DEF AnswersTo, Answers, Welcomes
  <2>3. \A a \in Answers : Append(answers[c], a) # <<>>
    BY <2>1, NotEmptied
  <2> QED  BY <2>2, <2>3
<1>3. handler[c] = "closed" => handler'[c] = "closed"
  BY ClosedStays DEF ClientAlways, ClientBase
<1> QED  BY <1>1, <1>2, <1>3 DEF AwaitMoves, AtHalf, AtIdle, AtHandler, Answerable, HalfWay

LEMMA WaitHelps ==
  ASSUME ClientAlways, NEW c \in Links, HandlerStep(c)
  PROVE  /\ AtHalf(c) => AtIdle(c)' \/ Answerable(c)'
         /\ AtIdle(c) => AtHandler(c, "enlist")' \/ Answerable(c)'
         /\ AtHandler(c, "enlist") => AtHandler(c, "welcome")' \/ Answerable(c)'
         /\ AtHandler(c, "welcome") => Answerable(c)'
<1> SUFFICES ASSUME Waits(c)
             PROVE  /\ AtHalf(c) => AtIdle(c)' \/ Answerable(c)'
                    /\ AtIdle(c) => AtHandler(c, "enlist")' \/ Answerable(c)'
                    /\ AtHandler(c, "enlist") => AtHandler(c, "welcome")' \/ Answerable(c)'
                    /\ AtHandler(c, "welcome") => Answerable(c)'
  BY DEF AtHalf, AtIdle, AtHandler
<1>1. AwaitMoves(c) /\ (handler'[c] # handler[c] \/ answers'[c] # answers[c])
  BY HandlerMoves DEF ClientAlways, ClientBase, FramingInv, MainInv, Waits
<1>2. UNCHANGED mainVars
  BY DEF HandlerStep, Refuse, Accept, Enlist, Welcome, Register, Chat, AddFriend, FriendBack,
     CreateGroup, AddCreator, AddGroup, HandleLoginout, HandleEnd
<1>3. Waits(c)' /\ asked' = asked
  BY <1>2 DEF Waits, mainVars
<1>4. \A a \in {"push"} \cup Welcomes \cup AnswersTo(asked) : Append(answers[c], a) # <<>>
  <2>1. answers[c] \in Seq(Answers)
    BY LinkType DEF ClientAlways, ClientBase
  <2>2. {"push"} \cup Welcomes \cup AnswersTo(asked) \subseteq Answers
    BY DEF AnswersTo, Answers, Welcomes
  <2>3. \A a \in Answers : Append(answers[c], a) # <<>>
    BY <2>1, NotEmptied
  <2> QED  BY <2>2, <2>3
<1> QED  BY <1>1, <1>3, <1>4 DEF AwaitMoves, AtHalf, AtIdle, AtHandler, Answerable, HalfWay

\* While the main thread is busy it goes on by itself, or the client dies.
LEMMA BusySteps ==
  ASSUME ClientAlways, [ClientNext]_clientVars, main \in Busy, ~MainStep
  PROVE  main' = "dead" \/ UNCHANGED mainVars
<1>1. CASE UserStep
  BY <1>1 DEF UserStep, Run, Choose, Ask, AskKilled, WriteCommand, Loginout, SessionKilled, Quit,
              Busy, Leaving
<1>2. CASE ReaderStep
  BY <1>2 DEF ReaderStep, ReaderTest, ReaderLoad, ReaderEnter, ReaderPrints, ReaderThrows, ReaderEnds,
              Die
<1>3. ASSUME NEW c \in Links, HandlerStep(c) \/ Misread(c) \/ Push(c)
      PROVE  UNCHANGED mainVars
  BY <1>3 DEF HandlerStep, Misread, ServerDies, Push, Refuse, Accept, Enlist, Welcome, Register, Chat,
     AddFriend, FriendBack, CreateGroup, AddCreator, AddGroup, HandleLoginout, HandleEnd
<1>4. CASE Killed \/ Restarted \/ UNCHANGED clientVars
  BY <1>4 DEF Killed, ServerDies, Restarted, clientVars
<1> QED  BY <1>1, <1>2, <1>3, <1>4 DEF ClientNext

LEMMA MainSteps ==
  ASSUME ClientAlways, MainStep
  PROVE  /\ main = "await" => Answered'
         /\ main = "begin" => main' = "session"
         /\ main = "unset" => main' \in {"shutdown", "join"}
         /\ main = "shutdown" => main' = "close"
         /\ main = "close" => main' = "join"
         /\ main = "join" => main' \in {"menu", "over"}
BY DEF MainStep, GetAnswer, AnswerFails, AnswerThrows, Die, StartReader, Unset, Shutdown, CloseFd,
       JoinReader, Answered

\* While main waits for the reader, nobody else moves the reader.
LEMMA JoinSteps ==
  ASSUME ClientAlways, [ClientNext]_clientVars, main = "join", ~Back'
  PROVE  /\ main' = "join"
         /\ reader' = reader \/ ReaderStep
         /\ ReaderStep => /\ reader = "load" => reader' = "enter"
                          /\ reader \in {"test", "enter"} => reader' = "ended"
                          /\ reader = "read" => reader' \in {"test", "ended"}
<1>1. main' = "join" /\ ~MainStep
  <2>1. main \in Busy
    BY DEF Busy, Leaving
  <2> QED  BY <2>1, BusySteps, MainSteps DEF Back, mainVars
<1>2. ~UserStep
  BY <1>1 DEF UserStep, Run, Choose, Ask, AskKilled, WriteCommand, Loginout, SessionKilled, Quit
<1>3. fd = 0 /\ ~loggedIn
  BY DEF ClientAlways, FramingInv, MainInv, LeaveInv
<1>4. CASE ReaderStep
  BY <1>1, <1>3, <1>4 DEF ReaderStep, ReaderTest, ReaderLoad, ReaderEnter, ReaderPrints, ReaderThrows,
     ReaderEnds, Die
<1>5. ASSUME NEW c \in Links, HandlerStep(c) \/ Misread(c) \/ Push(c)
      PROVE  UNCHANGED readerVars
  BY <1>5 DEF HandlerStep, Misread, ServerDies, Push, Refuse, Accept, Enlist, Welcome, Register, Chat,
     AddFriend, FriendBack, CreateGroup, AddCreator, AddGroup, HandleLoginout, HandleEnd
<1>6. ASSUME Killed \/ Restarted \/ UNCHANGED clientVars
      PROVE  UNCHANGED readerVars
  BY <1>6 DEF Killed, ServerDies, Restarted, clientVars
<1>7. CASE ~ReaderStep
  <2>1. reader' = reader
    BY <1>1, <1>2, <1>5, <1>6, <1>7 DEF ClientNext, readerVars
  <2> QED  BY <1>1, <1>7, <2>1
<1> QED  BY <1>4, <1>7

\* The client gets back to its user: an answer that is due comes, and loginout and
\* quit end the read() that they then wait for (ChatClient.cpp:86-93, 131, 227,
\* 267-276; ChatService.cpp:83-203).
THEOREM ClientComesBack == ClientFairSpec /\ []ClientCanStep => MenuComesBack
<1> DEFINE Cond == ClientFairSpec /\ []ClientCanStep
           Inv == ClientAlways
           S == [ClientNext]_clientVars
<1>0. Cond => []Inv
  BY ClientAlwaysHolds, PTL DEF ClientFairSpec
<1>1. \A c \in Links : Cond => [](Waits(c) => <>Answered)
  <2> SUFFICES ASSUME NEW c \in Links
               PROVE  Cond => [](Waits(c) => <>Answered)
    OBVIOUS
  <2> DEFINE Half == AtHalf(c)
             Idle == AtIdle(c)
             Enl == AtHandler(c, "enlist")
             Wel == AtHandler(c, "welcome")
             Ans == Answerable(c)
  <2>1. Inv /\ Half /\ S => Half' \/ (Idle' \/ Ans' \/ Answered')
    BY WaitSteps
  <2>2. Inv /\ Idle /\ S => Idle' \/ (Enl' \/ Ans' \/ Answered')
    BY WaitSteps
  <2>3. Inv /\ Enl /\ S => Enl' \/ (Wel' \/ Ans' \/ Answered')
    BY WaitSteps
  <2>4. Inv /\ Wel /\ S => Wel' \/ (Ans' \/ Answered')
    BY WaitSteps
  <2>5. Inv /\ Ans /\ S => Ans' \/ Answered'
    BY WaitSteps
  <2>6. Inv /\ Half /\ <<HandlerStep(c)>>_clientVars => Idle' \/ Ans'
    BY WaitHelps
  <2>7. Inv /\ Idle /\ <<HandlerStep(c)>>_clientVars => Enl' \/ Ans'
    BY WaitHelps
  <2>8. Inv /\ Enl /\ <<HandlerStep(c)>>_clientVars => Wel' \/ Ans'
    BY WaitHelps
  <2>9. Inv /\ Wel /\ <<HandlerStep(c)>>_clientVars => Ans'
    BY WaitHelps
  <2>10. Inv /\ Ans /\ <<MainStep>>_clientVars => Answered'
    BY MainSteps DEF Answerable, Waits
  <2>11. Inv /\ ClientCanStep /\ (Half \/ Idle \/ Enl \/ Wel) => ENABLED <<HandlerStep(c)>>_clientVars
    <3> SUFFICES ASSUME Inv, ClientCanStep, Half \/ Idle \/ Enl \/ Wel
                 PROVE  HandlerReady(c)
      BY DEF ClientCanStep
    <3>1. asked \in {"login", "reg"} /\ Head(<<asked>>) = asked /\ <<asked>> # <<>>
      BY DEF ClientAlways, ClientBase, ClientTypeOK
    <3> QED  BY <3>1 DEF HandlerReady, AtHalf, AtIdle, AtHandler, HalfWay
  <2>12. Inv /\ ClientCanStep /\ Ans => ENABLED <<MainStep>>_clientVars
    <3> SUFFICES ASSUME Inv, ClientCanStep, Ans
                 PROVE  MainReady
      BY DEF ClientCanStep
    <3>1. main = "await" /\ fd = c /\ answers[c] \in Seq(Answers)
      BY LinkType DEF Answerable, Waits, ClientAlways, ClientBase
    <3>2. CASE answers[c] = <<>>
      BY <3>1, <3>2 DEF Answerable, MainReady, NothingComes
    <3>3. CASE answers[c] # <<>>
      <4>1. Every(answers[c], AnswersTo(asked) \cup {"long", "push"})
        BY <3>1 DEF ClientAlways, AwaitInv
      <4>2. Head(answers[c]) \in AnswersTo(asked) \cup {"long", "push"}
        BY <3>1, <3>3, <4>1, EveryTail
      <4> QED  BY <3>1, <3>3, <4>2 DEF MainReady
    <3> QED  BY <3>2, <3>3
  <2>13. Inv /\ Waits(c) => Half \/ Idle \/ Enl \/ Wel \/ Ans
    BY WaitCases
  <2>14. HandlersFair => HandlerFair(c)
    BY DEF HandlersFair
  <2> QED  BY <1>0, <2>1, <2>2, <2>3, <2>4, <2>5, <2>6, <2>7, <2>8, <2>9, <2>10, <2>11, <2>12,
              <2>13, <2>14, PTL DEF ClientFairSpec, ClientSpec, ClientFairness, HandlerFair
<1>2. Cond => [](\A c \in Links : Waits(c) => <>Answered)
  BY <1>1
<1>3. Inv /\ main = "await" /\ (\A c \in Links : Waits(c) => <>Answered) => <>Answered
  <2>1. Inv /\ main = "await" => \E c \in Links : Waits(c)
    BY DEF ClientAlways, ClientBase, ClientTypeOK, ClientFd, Waits
  <2> QED  BY <2>1
<1>4. Cond => (main = "await" ~> Answered)
  BY <1>0, <1>2, <1>3, PTL
<1>5. Cond => (main = "begin" ~> Back)
  <2>1. Inv /\ main = "begin" /\ S => (main = "begin")' \/ Back'
    BY BusySteps, MainSteps DEF Busy, Back, mainVars
  <2>2. Inv /\ main = "begin" /\ <<MainStep>>_clientVars => Back'
    BY MainSteps DEF Back
  <2>3. Inv /\ ClientCanStep /\ main = "begin" => ENABLED <<MainStep>>_clientVars
    BY DEF ClientAlways, OneReader, ClientCanStep, MainReady
  <2> QED  BY <1>0, <2>1, <2>2, <2>3, PTL DEF ClientFairSpec, ClientSpec, ClientFairness
<1>6. Cond => (main \in {"unset", "shutdown", "close"} ~> (main = "join" \/ Back))
  <2>1. Inv /\ main = "unset" /\ S => (main = "unset")' \/ (main = "shutdown")' \/ (main = "join")' \/ Back'
    BY BusySteps, MainSteps DEF Busy, Leaving, Back, mainVars
  <2>2. Inv /\ main = "shutdown" /\ S => (main = "shutdown")' \/ (main = "close")' \/ Back'
    BY BusySteps, MainSteps DEF Busy, Leaving, Back, mainVars
  <2>3. Inv /\ main = "close" /\ S => (main = "close")' \/ (main = "join")' \/ Back'
    BY BusySteps, MainSteps DEF Busy, Leaving, Back, mainVars
  <2>4. Inv /\ main = "unset" /\ <<MainStep>>_clientVars => (main = "shutdown")' \/ (main = "join")'
    BY MainSteps
  <2>5. Inv /\ main = "shutdown" /\ <<MainStep>>_clientVars => (main = "close")'
    BY MainSteps
  <2>6. Inv /\ main = "close" /\ <<MainStep>>_clientVars => (main = "join")'
    BY MainSteps
  <2>7. ClientCanStep /\ (main = "unset" \/ main = "shutdown" \/ main = "close")
          => ENABLED <<MainStep>>_clientVars
    BY DEF ClientCanStep, MainReady
  <2>8. main \in {"unset", "shutdown", "close"} <=> main = "unset" \/ main = "shutdown" \/ main = "close"
    OBVIOUS
  <2> QED  BY <1>0, <2>1, <2>2, <2>3, <2>4, <2>5, <2>6, <2>7, <2>8, PTL
           DEF ClientFairSpec, ClientSpec, ClientFairness
<1>7. Cond => (main = "join" ~> Back)
  <2> DEFINE Test == Joins({"test"})
             Load == Joins({"load"})
             Enter == Joins({"enter"})
             Read == Joins({"read"})
             Gone == Joins({"none", "ended"})
  <2>1. Inv /\ Read /\ S => Read' \/ Test' \/ Gone' \/ Back'
    BY JoinSteps DEF Joins
  <2>2. Inv /\ Load /\ S => Load' \/ Enter' \/ Back'
    BY JoinSteps DEF Joins
  <2>3. Inv /\ Enter /\ S => Enter' \/ Gone' \/ Back'
    BY JoinSteps DEF Joins
  <2>4. Inv /\ Test /\ S => Test' \/ Gone' \/ Back'
    BY JoinSteps DEF Joins
  <2>5. Inv /\ Gone /\ S => Gone' \/ Back'
    <3>1. reader \in {"none", "ended"} => ~ReaderStep
      BY DEF ReaderStep, ReaderTest, ReaderLoad, ReaderEnter, ReaderPrints, ReaderThrows, ReaderEnds
    <3> QED  BY <3>1, JoinSteps DEF Joins
  <2>6. Inv /\ S /\ Read /\ <<ReaderStep>>_clientVars => Test' \/ Gone' \/ Back'
    BY JoinSteps DEF Joins
  <2>7. Inv /\ S /\ Load /\ <<ReaderStep>>_clientVars => Enter' \/ Back'
    BY JoinSteps DEF Joins
  <2>8. Inv /\ S /\ Enter /\ <<ReaderStep>>_clientVars => Gone' \/ Back'
    BY JoinSteps DEF Joins
  <2>9. Inv /\ S /\ Test /\ <<ReaderStep>>_clientVars => Gone' \/ Back'
    BY JoinSteps DEF Joins
  <2>10. Inv /\ Gone /\ <<MainStep>>_clientVars => Back'
    BY MainSteps DEF Joins, Back
  <2>11. Inv /\ ClientCanStep /\ (Test \/ Load \/ Enter \/ Read) => ENABLED <<ReaderStep>>_clientVars
    BY DEF ClientAlways, LeaveInv, ClientCanStep, ReaderReady, NothingComes, Joins
  <2>12. ClientCanStep /\ Gone => ENABLED <<MainStep>>_clientVars
    BY DEF ClientCanStep, MainReady, Joins
  <2>13. Inv /\ main = "join" => Test \/ Load \/ Enter \/ Read \/ Gone
    BY DEF ClientAlways, ClientBase, ClientTypeOK, ReaderPCs, Joins
  <2> QED  BY <1>0, <2>1, <2>2, <2>3, <2>4, <2>5, <2>6, <2>7, <2>8, <2>9, <2>10, <2>11, <2>12,
              <2>13, PTL DEF ClientFairSpec, ClientSpec, ClientFairness
<1>8. main \in Busy =>
        main = "await" \/ main = "begin" \/ main \in {"unset", "shutdown", "close"} \/ main = "join"
  BY DEF Busy, Leaving
<1>9. Answered => main = "begin" \/ Back
  BY DEF Answered, Back
<1> QED  BY <1>4, <1>5, <1>6, <1>7, <1>8, <1>9, PTL DEF MenuComesBack, Back
=============================================================================
