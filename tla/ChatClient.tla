------------------------------ MODULE ChatClient ------------------------------
(***************************************************************************)
(* The command line client of the chat system, with the server at the      *)
(* other end of its connection.  The main thread shows the menu, waits for *)
(* the answers to login and reg, and sends the commands of a session; a    *)
(* second thread reads what the server pushes during a session.            *)
(*                                                                         *)
(* There is no framing: both sides take the bytes of one read for one JSON *)
(* text.  Two messages that are read together, or a part of one, make      *)
(* json::parse throw, and nothing catches: the process of the reader ends. *)
(* What a read finds is decided here when it is made.                      *)
(*                                                                         *)
(* A link is a TCP connection, numbered in the order of connect.  The      *)
(* client has one socket at a time, so the descriptor has the same number  *)
(* each time: what fd stands for is the link that is behind the number.    *)
(* _isLoginSuccess and _clientfd are plain variables that both threads     *)
(* use; each access is atomic here.                                        *)
(***************************************************************************)
EXTENDS ChatTables, Sequences, FiniteSets

CONSTANTS
  MaxLinks,      \* bound on the connections the client opens
  MaxCommands,   \* bound on the commands it writes
  MaxPushes      \* bound on the messages that others send to it

ASSUME ClientAssumption ==
  /\ MaxLinks \in Nat \ {0}
  /\ MaxCommands \in Nat
  /\ MaxPushes \in Nat

VARIABLES
  main,        \* where the main thread is
  asked,       \* the request it waits for an answer to
  fd,          \* _clientfd: the link, 0 for -1
  loggedIn,    \* _isLoginSuccess
  quitting,    \* the menu's quit, not loginout, is closing the socket
  reader,      \* where the thread of readTaskHandler is
  hasFd,       \* the reader loaded a descriptor, not -1
  readLink,    \* the link that the reader's read() is on
  stream,      \* per link, the client's end
  requests,    \* per link, what is on its way to the server
  answers,     \* per link, what is on its way to the client
  handler,     \* per link, where the server is with it; "closed"
  listed,      \* the links that are in _userConnMap
  made,        \* per link, the id that mysql_insert_id gave
  serving,     \* a server accepts connections
  misread,     \* history: a server died of what it read from this client
  lengthy,     \* history: a login answer was longer than a segment
  commanded,   \* commands written
  pushed       \* messages pushed

mainVars == <<main, asked, fd, loggedIn, quitting>>
readerVars == <<reader, hasFd, readLink>>
serverVars == <<handler, listed, made, serving>>
histVars == <<misread, lengthy, commanded, pushed>>
clientVars == <<mainVars, readerVars, stream, requests, answers, serverVars,
                histVars, tableVars>>

Links == 1 .. MaxLinks

\* loginout and quit take these steps one after the other.
Leaving == {"unset", "shutdown", "close", "join"}
MainPCs ==
  {"start", "menu", "ask", "await", "begin", "session", "over", "dead"} \cup Leaving

\* Where the main thread waits for something else than its user.
Busy == {"await", "begin"} \cup Leaving

\* "none": no thread, or joined.
ReaderPCs == {"none", "test", "load", "enter", "read", "ended"}

SessionCommands == {"chat", "addfriend", "creategroup", "addgroup"}
Requests == SessionCommands \cup {"login", "reg", "loginout"}

\* Requests with free text, which may be longer than a segment.  A name and a
\* password are assumed to fit in one, and so are the short answers.
FreeText == {"chat", "creategroup"}

\* The answers to a login that succeeds: in one segment; in several, but no
\* longer than the client's buffer; longer than that.
Welcomes == {"welcome", "pieces", "long"}
Answers == {"refused", "reg", "push"} \cup Welcomes

\* The answers that one read() can get whole.
AnswersTo(r) == IF r = "reg" THEN {"reg"} ELSE {"refused", "welcome", "pieces"}

HandlerPCs == {"idle", "enlist", "welcome", "back", "creator", "closed"}

\* Between the two statements of a command.
HalfWay == {"back", "creator"}

ClientTypeOK ==
  /\ TablesTypeOK
  /\ main \in MainPCs
  /\ asked \in {"login", "reg"}
  /\ fd \in {0} \cup Links
  /\ loggedIn \in BOOLEAN /\ quitting \in BOOLEAN
  /\ reader \in ReaderPCs
  /\ hasFd \in BOOLEAN
  /\ readLink \in {0} \cup Links
  /\ stream \in [Links -> {"unused", "open", "shut"}]
  /\ requests \in [Links -> Seq(Requests)]
  /\ answers \in [Links -> Seq(Answers)]
  /\ handler \in [Links -> HandlerPCs]
  /\ listed \subseteq Links
  /\ made \in [Links -> {0} \cup GroupIds]
  /\ serving \in BOOLEAN /\ misread \in BOOLEAN /\ lengthy \in BOOLEAN
  /\ commanded \in 0 .. MaxCommands
  /\ pushed \in 0 .. MaxPushes

ClientInit ==
  /\ TablesInit
  /\ main = "start" /\ asked = "login"
  /\ fd = 0 /\ loggedIn = FALSE /\ quitting = FALSE
  /\ reader = "none" /\ hasFd = FALSE /\ readLink = 0
  /\ stream = [c \in Links |-> "unused"]
  /\ requests = [c \in Links |-> <<>>]
  /\ answers = [c \in Links |-> <<>>]
  /\ handler = [c \in Links |-> "idle"]
  /\ listed = {}
  /\ made = [c \in Links |-> 0]
  /\ serving = TRUE
  /\ misread = FALSE /\ lengthy = FALSE
  /\ commanded = 0 /\ pushed = 0
------------------------------------------------------------------------------
(* Sockets *)

\* An uncaught exception or SIGPIPE ends the client; the kernel closes.
Die ==
  /\ main' = "dead"
  /\ reader' = "ended"
  /\ stream' = [c \in Links |-> IF stream[c] = "open" THEN "shut" ELSE stream[c]]
  /\ UNCHANGED <<asked, fd, loggedIn, quitting, hasFd, readLink>>

Delivered(c, r) ==
  /\ handler[c] # "closed"
  /\ requests' = [requests EXCEPT ![c] = Append(@, r)]

\* A write on a link whose server is dead is taken and lost, or fails, or raises
\* SIGPIPE: there is no telling when the RST arrives.
WriteLost(c) == handler[c] = "closed" /\ UNCHANGED requests
WriteFails(c) == handler[c] = "closed" /\ UNCHANGED requests

\* The end of the stream, or ECONNRESET, is all that is left to read.
NothingComes(c) == answers[c] = <<>> /\ (stream[c] = "shut" \/ handler[c] = "closed")

\* A read takes the first k messages that have arrived.
Takes(c, k) == answers' = [answers EXCEPT ![c] = SubSeq(@, k + 1, Len(@))]
------------------------------------------------------------------------------
(* The main thread: run, mainMenu, login, reg *)

\* connectServer that succeeds.
Connect ==
  /\ serving
  /\ \E c \in Links :
       /\ stream[c] = "unused"
       /\ \A d \in Links : d < c => stream[d] # "unused"
       /\ stream' = [stream EXCEPT ![c] = "open"]
       /\ fd' = c

\* run gives up when there is no server.
Run ==
  /\ main = "start"
  /\ \/ Connect /\ main' = "menu"
     \/ ~serving /\ main' = "over" /\ UNCHANGED <<fd, stream>>
  /\ UNCHANGED <<asked, loggedIn, quitting, readerVars, requests, answers, serverVars,
                 histVars, tableVars>>

\* The beginning of login and reg, which connect when there is no connection.
Choose(r) ==
  /\ main = "menu"
  /\ asked' = r
  /\ \/ fd # 0 /\ main' = "ask" /\ UNCHANGED <<fd, stream>>
     \/ fd = 0 /\ Connect /\ main' = "ask"
     \/ fd = 0 /\ ~serving /\ UNCHANGED <<main, fd, stream>>
  /\ UNCHANGED <<loggedIn, quitting, readerVars, requests, answers, serverVars,
                 histVars, tableVars>>

Ask ==
  /\ main = "ask"
  /\ \/ (Delivered(fd, asked) \/ WriteLost(fd)) /\ main' = "await"
     \/ WriteFails(fd) /\ main' = "menu"
  /\ UNCHANGED <<asked, fd, loggedIn, quitting, readerVars, stream, answers, serverVars,
                 histVars, tableVars>>

AskKilled ==
  /\ main = "ask"
  /\ WriteFails(fd)
  /\ Die
  /\ UNCHANGED <<answers, serverVars, histVars, tableVars>>

\* Broken variant: main does not wait for the answer.
AskAgain ==
  /\ main = "await"
  /\ main' = "menu"
  /\ UNCHANGED <<asked, fd, loggedIn, quitting, readerVars, stream, requests, answers,
                 serverVars, histVars, tableVars>>

\* The answer, alone and whole.
GetAnswer ==
  /\ main = "await"
  /\ answers[fd] # <<>>
  /\ Head(answers[fd]) \in AnswersTo(asked)
  /\ Takes(fd, 1)
  /\ IF Head(answers[fd]) \in Welcomes
       THEN main' = "begin" /\ loggedIn' = TRUE
       ELSE main' = "menu" /\ UNCHANGED loggedIn
  /\ UNCHANGED <<asked, fd, quitting, readerVars, stream, requests, serverVars, histVars,
                 tableVars>>

\* The server is gone: -1 goes back to the menu.
AnswerFails ==
  /\ main = "await"
  /\ NothingComes(fd)
  /\ main' = "menu"
  /\ UNCHANGED <<asked, fd, loggedIn, quitting, readerVars, stream, requests, answers,
                 serverVars, histVars, tableVars>>

\* json::parse or get throws: on the empty text of a closed connection, on two
\* messages, on a push that came before the answer, and on an answer that is cut:
\* at the end of the buffer, or because its first segments are all that is there.
AnswerThrows ==
  /\ main = "await"
  /\ \/ NothingComes(fd) /\ UNCHANGED answers
     \/ Len(answers[fd]) >= 2 /\ \E k \in 2 .. Len(answers[fd]) : Takes(fd, k)
     \/ answers[fd] # <<>> /\ Head(answers[fd]) \in {"pieces", "long", "push"} /\ Takes(fd, 1)
  /\ Die
  /\ UNCHANGED <<requests, serverVars, histVars, tableVars>>
------------------------------------------------------------------------------
(* The main thread: a session *)

\* A thread of an earlier session is joined, and the new one started.
StartReader ==
  /\ main = "begin"
  /\ reader \in {"none", "ended"}
  /\ reader' = "test"
  /\ main' = "session"
  /\ UNCHANGED <<asked, fd, loggedIn, quitting, hasFd, readLink, stream, requests, answers,
                 serverVars, histVars, tableVars>>

\* oneChat, groupChat, addFriend, createGroup, addGroup: nobody waits for an
\* answer, and a write that fails is reported and forgotten.
WriteCommand(r) ==
  /\ main = "session"
  /\ commanded < MaxCommands
  /\ commanded' = commanded + 1
  /\ Delivered(fd, r) \/ WriteLost(fd) \/ WriteFails(fd)
  /\ UNCHANGED <<mainVars, readerVars, stream, answers, serverVars, misread, lengthy,
                 pushed, tableVars>>

\* loginout, up to its write; a write that fails leaves the user logged in.
Loginout ==
  /\ main = "session"
  /\ \/ (Delivered(fd, "loginout") \/ WriteLost(fd)) /\ main' = "unset"
     \/ WriteFails(fd) /\ UNCHANGED main
  /\ UNCHANGED <<asked, fd, loggedIn, quitting, readerVars, stream, answers, serverVars,
                 histVars, tableVars>>

SessionKilled ==
  /\ main = "session"
  /\ WriteFails(fd)
  /\ Die
  /\ UNCHANGED <<answers, serverVars, histVars, tableVars>>

Quit ==
  /\ main = "menu"
  /\ main' = "unset"
  /\ quitting' = TRUE
  /\ UNCHANGED <<asked, fd, loggedIn, readerVars, stream, requests, answers, serverVars,
                 histVars, tableVars>>

\* Each is a step of its own: the reader may be anywhere.
Unset ==
  /\ main = "unset"
  /\ loggedIn' = FALSE
  /\ main' = IF fd = 0 THEN "join" ELSE "shutdown"
  /\ UNCHANGED <<asked, fd, quitting, readerVars, stream, requests, answers, serverVars,
                 histVars, tableVars>>

\* Broken variant: the socket is only closed.
NoShutdown ==
  /\ main = "shutdown"
  /\ main' = "close"
  /\ UNCHANGED <<asked, fd, loggedIn, quitting, readerVars, stream, requests, answers,
                 serverVars, histVars, tableVars>>

Shutdown ==
  /\ main = "shutdown"
  /\ stream' = [stream EXCEPT ![fd] = "shut"]
  /\ main' = "close"
  /\ UNCHANGED <<asked, fd, loggedIn, quitting, readerVars, requests, answers, serverVars,
                 histVars, tableVars>>

\* A read() that is under way keeps the socket open.
CloseFd ==
  /\ main = "close"
  /\ stream' = [stream EXCEPT ![fd] = IF reader = "read" /\ readLink = fd THEN @ ELSE "shut"]
  /\ fd' = 0
  /\ main' = "join"
  /\ UNCHANGED <<asked, loggedIn, quitting, readerVars, requests, answers, serverVars,
                 histVars, tableVars>>

\* Broken variant: the thread is left alone.
NoJoin ==
  /\ main = "join"
  /\ main' = IF quitting THEN "over" ELSE "menu"
  /\ UNCHANGED <<asked, fd, loggedIn, quitting, readerVars, stream, requests, answers,
                 serverVars, histVars, tableVars>>

JoinReader ==
  /\ main = "join"
  /\ reader \in {"none", "ended"}
  /\ reader' = "none"
  /\ main' = IF quitting THEN "over" ELSE "menu"
  /\ UNCHANGED <<asked, fd, loggedIn, quitting, hasFd, readLink, stream, requests, answers,
                 serverVars, histVars, tableVars>>
------------------------------------------------------------------------------
(* readTaskHandler *)

ReaderTest ==
  /\ reader = "test"
  /\ reader' = IF loggedIn THEN "load" ELSE "ended"
  /\ UNCHANGED <<mainVars, hasFd, readLink, stream, requests, answers, serverVars,
                 histVars, tableVars>>

ReaderLoad ==
  /\ reader = "load"
  /\ hasFd' = (fd # 0)
  /\ reader' = "enter"
  /\ UNCHANGED <<mainVars, readLink, stream, requests, answers, serverVars, histVars,
                 tableVars>>

\* read() begins: on the link that is behind the descriptor now, or EBADF.
ReaderEnter ==
  /\ reader = "enter"
  /\ IF hasFd /\ fd # 0
       THEN reader' = "read" /\ readLink' = fd
       ELSE reader' = "ended" /\ UNCHANGED readLink
  /\ UNCHANGED <<mainVars, hasFd, stream, requests, answers, serverVars, histVars, tableVars>>

ReaderPrints ==
  /\ reader = "read"
  /\ answers[readLink] # <<>>
  /\ Takes(readLink, 1)
  /\ reader' = "test"
  /\ UNCHANGED <<mainVars, hasFd, readLink, stream, requests, serverVars, histVars, tableVars>>

\* Two messages at once, or one that is cut.
ReaderThrows ==
  /\ reader = "read"
  /\ \E k \in 1 .. Len(answers[readLink]) :
       /\ k >= 2 \/ Head(answers[readLink]) = "push"
       /\ Takes(readLink, k)
  /\ Die
  /\ UNCHANGED <<requests, serverVars, histVars, tableVars>>

ReaderEnds ==
  /\ reader = "read"
  /\ NothingComes(readLink)
  /\ reader' = "ended"
  /\ UNCHANGED <<mainVars, hasFd, readLink, stream, requests, answers, serverVars, histVars,
                 tableVars>>
------------------------------------------------------------------------------
(* The server: OnMessage and the handlers *)

\* The server reads one whole request, and its handler does h, which leaves the
\* link at pc.
Handles(c, r, pc) ==
  /\ handler[c] = "idle"
  /\ requests[c] # <<>>
  /\ Head(requests[c]) = r
  /\ requests' = [requests EXCEPT ![c] = Tail(@)]
  /\ handler' = [handler EXCEPT ![c] = pc]

Sends(c, a) == answers' = [answers EXCEPT ![c] = Append(@, a)]

\* Broken variant: the handler does not stop at a refusal.
RefuseAndGoOn(c) ==
  /\ Handles(c, "login", "enlist")
  /\ Sends(c, "refused")
  /\ UNCHANGED <<mainVars, readerVars, stream, listed, made, serving, histVars, tableVars>>

\* login refuses: no such user, a wrong password, or the user is online.
Refuse(c) ==
  /\ Handles(c, "login", "idle")
  /\ Sends(c, "refused")
  /\ UNCHANGED <<mainVars, readerVars, stream, listed, made, serving, histVars, tableVars>>

Accept(c) ==
  /\ Handles(c, "login", "enlist")
  /\ UNCHANGED <<mainVars, readerVars, stream, answers, listed, made, serving, histVars,
                 tableVars>>

\* _userConnMap.insert: from here on messages are pushed, before the answer too.
\* The entry of an earlier link of the user, if still there, keeps this one out.
Enlist(c) ==
  /\ handler[c] = "enlist"
  /\ handler' = [handler EXCEPT ![c] = "welcome"]
  /\ listed' = IF listed = {} THEN {c} ELSE listed
  /\ UNCHANGED <<mainVars, readerVars, stream, requests, answers, made, serving, histVars,
                 tableVars>>

\* The offline messages, friends and groups may make the answer longer than a
\* segment, and than the 4096 bytes that the client reads.
Welcome(c) ==
  /\ handler[c] = "welcome"
  /\ handler' = [handler EXCEPT ![c] = "idle"]
  /\ \/ Sends(c, "welcome") /\ UNCHANGED lengthy
     \/ \E a \in {"pieces", "long"} : Sends(c, a) /\ lengthy' = TRUE
  /\ UNCHANGED <<mainVars, readerVars, stream, requests, listed, made, serving, misread,
                 commanded, pushed, tableVars>>

Register(c) ==
  /\ Handles(c, "reg", "idle")
  /\ Sends(c, "reg")
  /\ UNCHANGED <<mainVars, readerVars, stream, listed, made, serving, histVars, tableVars>>

\* oneChat and groupChat: what they do to others is in ChatCluster.
Chat(c) ==
  /\ Handles(c, "chat", "idle")
  /\ UNCHANGED <<mainVars, readerVars, stream, answers, listed, made, serving, histVars,
                 tableVars>>

AddFriend(c) ==
  /\ Handles(c, "addfriend", "back")
  /\ InsertFriend("user", "friend")
  /\ UNCHANGED <<mainVars, readerVars, stream, answers, listed, made, serving, histVars>>

\* Broken variant: the same direction again.
FriendAgain(c) ==
  /\ handler[c] = "back"
  /\ handler' = [handler EXCEPT ![c] = "idle"]
  /\ InsertFriend("user", "friend")
  /\ UNCHANGED <<mainVars, readerVars, stream, requests, answers, listed, made, serving,
                 histVars>>

FriendBack(c) ==
  /\ handler[c] = "back"
  /\ handler' = [handler EXCEPT ![c] = "idle"]
  /\ InsertFriend("friend", "user")
  /\ UNCHANGED <<mainVars, readerVars, stream, requests, answers, listed, made, serving,
                 histVars>>

CreateGroup(c) ==
  /\ \/ \E g \in GroupIds :
          /\ Handles(c, "creategroup", "creator")
          /\ InsertGroup(g)
          /\ made' = [made EXCEPT ![c] = g]
     \/ Handles(c, "creategroup", "idle") /\ StatementFails /\ UNCHANGED made
  /\ UNCHANGED <<mainVars, readerVars, stream, answers, listed, serving, histVars>>

AddCreator(c) ==
  /\ handler[c] = "creator"
  /\ handler' = [handler EXCEPT ![c] = "idle"]
  /\ InsertMember(made[c], "creator")
  /\ UNCHANGED <<mainVars, readerVars, stream, requests, answers, listed, made, serving,
                 histVars>>

AddGroup(c) ==
  /\ Handles(c, "addgroup", "idle")
  /\ \E g \in GroupIds : InsertMember(g, "normal")
  /\ UNCHANGED <<mainVars, readerVars, stream, answers, listed, made, serving, histVars>>

\* loginout erases by user: whichever link is listed.
HandleLoginout(c) ==
  /\ Handles(c, "loginout", "idle")
  /\ listed' = {}
  /\ UNCHANGED <<mainVars, readerVars, stream, answers, made, serving, histVars, tableVars>>

\* The end of the stream: handleClose, clientCloseException.
HandleEnd(c) ==
  /\ handler[c] = "idle"
  /\ stream[c] = "shut"
  /\ requests[c] = <<>>
  /\ handler' = [handler EXCEPT ![c] = "closed"]
  /\ listed' = listed \ {c}
  /\ UNCHANGED <<mainVars, readerVars, stream, requests, answers, made, serving, histVars,
                 tableVars>>

HandlerStep(c) ==
  \/ Refuse(c) \/ Accept(c) \/ Enlist(c) \/ Welcome(c) \/ Register(c)
  \/ Chat(c) \/ AddFriend(c) \/ FriendBack(c)
  \/ CreateGroup(c) \/ AddCreator(c) \/ AddGroup(c)
  \/ HandleLoginout(c) \/ HandleEnd(c)

\* The process of the server ends, with every link.
ServerDies ==
  /\ serving' = FALSE
  /\ handler' = [c \in Links |-> IF stream[c] = "unused" THEN handler[c] ELSE "closed"]
  /\ requests' = [c \in Links |-> <<>>]
  /\ listed' = {}
  /\ faulted' = (faulted \/ \E c \in Links : handler[c] \in HalfWay)
  /\ UNCHANGED <<mainVars, readerVars, stream, answers, made, lengthy, commanded, pushed,
                 friendRows, allgroup, groupuser>>

\* OnMessage parses what has arrived: more than one request, or a part of one.
Misread(c) ==
  /\ serving
  /\ handler[c] = "idle"
  /\ Len(requests[c]) >= 2 \/ (requests[c] # <<>> /\ Head(requests[c]) \in FreeText)
  /\ ServerDies
  /\ misread' = TRUE

\* It dies of what another client sent, or is stopped; and is started again.
Killed == serving /\ ServerDies /\ UNCHANGED misread

Restarted ==
  /\ ~serving
  /\ serving' = TRUE
  /\ UNCHANGED <<mainVars, readerVars, stream, requests, answers, handler, listed, made,
                 histVars, tableVars>>

\* Somebody chats with the user: any thread of the server sends to the link.
Push(c) ==
  /\ c \in listed
  /\ stream[c] = "open"
  /\ pushed < MaxPushes
  /\ pushed' = pushed + 1
  /\ Sends(c, "push")
  /\ UNCHANGED <<mainVars, readerVars, stream, requests, serverVars, misread, lengthy,
                 commanded, tableVars>>
------------------------------------------------------------------------------
\* What the main thread does without its user.
MainStep ==
  \/ GetAnswer \/ AnswerFails \/ AnswerThrows
  \/ StartReader
  \/ Unset \/ Shutdown \/ CloseFd \/ JoinReader

UserStep ==
  \/ Run
  \/ \E r \in {"login", "reg"} : Choose(r)
  \/ Ask \/ AskKilled
  \/ \E r \in SessionCommands : WriteCommand(r)
  \/ Loginout \/ SessionKilled \/ Quit

ReaderStep ==
  \/ ReaderTest \/ ReaderLoad \/ ReaderEnter
  \/ ReaderPrints \/ ReaderThrows \/ ReaderEnds

ClientNext ==
  \/ MainStep \/ UserStep \/ ReaderStep
  \/ \E c \in Links : HandlerStep(c) \/ Misread(c) \/ Push(c)
  \/ Killed \/ Restarted

ClientSpec == ClientInit /\ [][ClientNext]_clientVars

\* The threads of the client and the loops of the server are scheduled.  The
\* user need not do anything, nor does the server have to die or to come back.
HandlerFair(c) == WF_clientVars(HandlerStep(c))

HandlersFair == \A c \in Links : HandlerFair(c)

ClientFairness == WF_clientVars(MainStep) /\ WF_clientVars(ReaderStep) /\ HandlersFair

ClientFairSpec == ClientSpec /\ ClientFairness
------------------------------------------------------------------------------
(* Properties *)

\* While main waits for an answer no thread of an earlier session is left that
\* could read it, and what a reader reads is the link of its own session, though
\* the next one has the same descriptor (ChatClient.cpp:151-155, 264-276).
OneReader ==
  /\ main \in {"menu", "ask", "await", "begin"} => reader = "none"
  /\ reader = "read" /\ main \in {"session", "unset", "shutdown", "close"} => readLink = fd

\* Without framing the server survives the menu, where each request waits for
\* the answer to the one before: a client that sent no command of a session has
\* not made the server misread (ChatServer.cpp:32-38, ChatClient.cpp:123-131).
MenuKeepsFraming == misread => commanded > 0

\* The client dies only when messages are pushed to it, or a login answer takes
\* more than one segment, or its server died: with none of these it never meets a
\* text that it cannot parse nor a dead connection (ChatClient.cpp:131-139,
\* 473-483; the answer is as long as the user's tables, ChatService.cpp:118-174).
DiesForAReason ==
  main = "dead" =>
    pushed > 0 \/ lengthy \/ (fd # 0 /\ handler[fd] = "closed")

\* Friendships are mutual and groups have a creator unless a statement failed or
\* the server died between the two statements; a creator without its group there
\* is never (ChatService.cpp:30-31, 44-47).
TablesAgree ==
  /\ \A g \in GroupIds : HasCreator(g) => g \in allgroup
  /\ ~faulted /\ (\A c \in Links : handler[c] \notin HalfWay) =>
       /\ Mutual
       /\ \A g \in allgroup : HasCreator(g)

\* The client gets back to its user: login and reg come back with an answer or
\* with the end of the connection; loginout and quit come back because the
\* shutdown wakes the reader out of its read() before the join waits for it
\* (ChatClient.cpp:86-93, 131, 227, 267-276; ChatService.cpp:83-203).
MenuComesBack ==
  (main \in Busy) ~> (main \in {"menu", "session", "over", "dead"})
==============================================================================
