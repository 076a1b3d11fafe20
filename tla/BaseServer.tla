----------------------------- MODULE BaseServer -----------------------------
(***************************************************************************)
(* The server frame of midware/src on top of the network library:          *)
(* EasyBaseServer turns the callbacks of the network's threads into        *)
(* commands, one command thread takes them from m_CommandList and executes *)
(* them on EasySession objects from a pool.                                *)
(*                                                                         *)
(* The network is the abstract HandlerProtocol, which IocpNetwork          *)
(* implements; this module is the user that protocol has in the library.   *)
(* The build is the Windows one.                                           *)
(***************************************************************************)
EXTENDS Naturals, Sequences, FiniteSets

CONSTANTS
  Conns,         \* the EasyConnection objects
  Sessions,      \* the EasySession objects that operator new can give
  MaxSession,    \* m_iMaxSession
  NoConn, NoSession,   \* NULL
  DataMax,       \* bound: pieces of data that arrive in one use of a connection
  AppMax,        \* bound: commands of the application in the queue
  AppCommands,   \* kinds of commands the application pushes
  Faults,        \* "Alloc": CopyData gets no memory
  EarlyClients   \* whether clients connect before Initialize has returned

AppKinds == {"SENDDATA", "DISCONNECT", "SHUTDOWN"}

ASSUME SessionCounts == MaxSession \in Nat \ {0} /\ DataMax \in Nat /\ AppMax \in Nat
ASSUME Switches == /\ AppCommands \subseteq AppKinds
                   /\ Faults \subseteq {"Alloc"}
                   /\ EarlyClients \in BOOLEAN
ASSUME Nulls == NoConn \notin Conns /\ NoSession \notin Sessions

VARIABLES
  phase,      \* what the network has told about each connection (HandlerProtocol)
  call,       \* the command a callback on a network thread is about to push
  arrived,    \* pieces of data received in this use of the connection
  asked,      \* connections AsyncDisconnect was called on
  client,     \* client_ of each connection
  m_CommandList,
  main,       \* how far Initialize has come
  pc, pos,    \* the command thread, and where it is in the list
  ready,      \* m_bReadyForShutdown
  conn,       \* m_pConnection of each session
  pool,       \* m_ObjectList of m_SessionPool
  made,       \* the sessions allocated so far
  id,         \* m_iSessionID of each session
  SessionMap, \* m_SessionMap
  SessionArray,  \* m_SessionArray
  seen,       \* history: what the sessions were told of each connection
  read,       \* history: pieces of data the session of the connection was given
  dropped,    \* history: pieces that CopyData got no memory for
  crashed     \* a null pointer was used

netVars == <<phase, call, arrived, dropped, asked>>
sessionVars == <<client, conn, pool, made, id, SessionMap, SessionArray, seen, read>>
threadVars == <<m_CommandList, pc, pos>>
vars == <<netVars, sessionVars, threadVars, main, ready, crashed>>

Network == INSTANCE HandlerProtocol

Ids == 0 .. (MaxSession - 1)

Locked == pc \in {"batch", "closing"}     \* m_CommandMutex: a PushCommand is one step

OfApp == SelectSeq(m_CommandList, LAMBDA m : m.conn = NoConn)

Command(kind, c, n) == [kind |-> kind, conn |-> c, n |-> n]
NoCall == Command("none", NoConn, 0)

Init ==
  /\ phase = [c \in Conns |-> "idle"]
  /\ call = [c \in Conns |-> NoCall]
  /\ arrived = [c \in Conns |-> 0]
  /\ dropped = [c \in Conns |-> {}]
  /\ asked = {}
  /\ client = [c \in Conns |-> NoSession]
  /\ m_CommandList = <<>>
  /\ main = "started"
  /\ pc = "off" /\ pos = 1
  /\ ready = FALSE
  /\ conn = [s \in Sessions |-> NoConn]
  /\ pool = <<>>
  /\ made = {}
  /\ id = [s \in Sessions |-> 0]
  /\ SessionMap = [i \in Ids |-> NoSession]
  /\ SessionArray = [i \in Ids |-> NoSession]
  /\ seen = [c \in Conns |-> "idle"]
  /\ read = [c \in Conns |-> 0]
  /\ crashed = FALSE

(***************************************************************************)
(* Initialize.  The acceptor is started and accepts before it is told its  *)
(* server.  The loop over the session pool gives every session back before *)
(* it takes the next, so that one object gets all the identifiers in turn. *)
(***************************************************************************)
SetServer ==
  /\ main = "started" /\ main' = "served"
  /\ UNCHANGED <<netVars, sessionVars, threadVars, ready, crashed>>

InitializeSessionPool ==
  /\ main = "served" /\ main' = "pooled"
  /\ \E s \in Sessions : /\ pool' = <<s>>
                         /\ made' = {s}
                         /\ id' = [id EXCEPT ![s] = MaxSession - 1]
                         /\ SessionArray' = [i \in Ids |-> s]
  /\ UNCHANGED <<netVars, client, conn, SessionMap, seen, read, threadVars, ready, crashed>>

StartCommandHandler ==
  /\ main = "pooled" /\ main' = "running"
  /\ pc' = "top"
  /\ UNCHANGED <<netVars, sessionVars, m_CommandList, pos, ready, crashed>>

SetSessionServer ==
  /\ main = "running" /\ main' = "done"
  /\ UNCHANGED <<netVars, sessionVars, threadVars, ready, crashed>>

Initialize == \/ SetServer \/ InitializeSessionPool
              \/ StartCommandHandler \/ SetSessionServer

-----------------------------------------------------------------------------
(***************************************************************************)
(* The callbacks, on a thread of the network: a command is made here and   *)
(* pushed when the mutex is free.  m_bReadyForShutdown is read without it. *)
(* Accept sets client_ to NULL before each use (easy_acceptor.cpp:149).    *)
(***************************************************************************)
Callback(c, kind, n) ==
  /\ call[c] = NoCall
  /\ IF main = "started"                       \* acceptor_->GetServer() is not set
       THEN crashed' = TRUE /\ UNCHANGED call
       ELSE /\ call' = IF ready THEN call ELSE [call EXCEPT ![c] = Command(kind, c, n)]
            /\ UNCHANGED crashed
  /\ UNCHANGED <<conn, pool, made, id, SessionMap, SessionArray, seen, read, threadVars,
                 main, ready>>

\* Mutant: Accept leaves client_ as the last use of the connection left it.
OnConnectionStale(c) ==
  /\ EarlyClients \/ main = "done"
  /\ Network!Tell(c, {"idle"}, IF ready THEN "rejected" ELSE "open")
  /\ arrived' = [arrived EXCEPT ![c] = 0]
  /\ dropped' = [dropped EXCEPT ![c] = {}]
  /\ asked' = IF ready THEN asked \union {c} ELSE asked
  /\ Callback(c, "ONCONNECT", 0)
  /\ UNCHANGED client

OnConnection(c) ==
  /\ EarlyClients \/ main = "done"
  /\ Network!Tell(c, {"idle"}, IF ready THEN "rejected" ELSE "open")
  /\ arrived' = [arrived EXCEPT ![c] = 0]
  /\ dropped' = [dropped EXCEPT ![c] = {}]
  /\ asked' = IF ready THEN asked \union {c} ELSE asked
  /\ client' = [client EXCEPT ![c] = NoSession]
  /\ Callback(c, "ONCONNECT", 0)

OnData(c) ==
  /\ arrived[c] < DataMax
  /\ Network!OnData(c)
  /\ arrived' = [arrived EXCEPT ![c] = @ + 1]
  /\ Callback(c, "ONDATA", arrived[c] + 1)
  /\ UNCHANGED <<dropped, asked, client>>

OnDataNoMemory(c) ==
  /\ "Alloc" \in Faults
  /\ call[c] = NoCall /\ main # "started" /\ ~ready
  /\ arrived[c] < DataMax
  /\ Network!OnData(c)
  /\ arrived' = [arrived EXCEPT ![c] = @ + 1]
  /\ dropped' = [dropped EXCEPT ![c] = @ \union {arrived[c] + 1}]
  /\ UNCHANGED <<call, asked, sessionVars, threadVars, main, ready, crashed>>

OnDisconnect(c) ==
  /\ Network!OnDisconnect(c)
  /\ asked' = asked \ {c}
  /\ Callback(c, "ONDISCONNECT", 0)
  /\ UNCHANGED <<arrived, dropped, client>>

\* Mutant: the command goes to the front of the list.
PushFront(command) ==
  /\ ~Locked
  /\ pc' = IF pc = "waiting" THEN "signalled" ELSE pc
  /\ m_CommandList' = <<command>> \o m_CommandList
  /\ UNCHANGED <<sessionVars, pos, main, ready, crashed>>

\* PushCommand: notify_one wakes the command thread only if it waits just now.
PushCommand(command) ==
  /\ ~Locked
  /\ pc' = IF pc = "waiting" THEN "signalled" ELSE pc
  /\ m_CommandList' = Append(m_CommandList, command)
  /\ UNCHANGED <<sessionVars, pos, main, ready, crashed>>

PushCallback(c) ==
  /\ call[c] # NoCall
  /\ PushCommand(call[c])
  /\ call' = [call EXCEPT ![c] = NoCall]
  /\ UNCHANGED <<phase, arrived, dropped, asked>>

PushFromApp(kind, i) ==
  /\ kind \in AppCommands /\ main = "done"
  /\ Len(OfApp) < AppMax
  /\ PushCommand(Command(kind, NoConn, i))
  /\ UNCHANGED netVars

-----------------------------------------------------------------------------
(***************************************************************************)
(* The command thread.  A wait that ends by its timeout handles nothing,   *)
(* and a thread that was notified may find that the time is over too.      *)
(***************************************************************************)
Move(from, to) == pc = from /\ pc' = to

Wait == /\ Move("top", "waiting")
        /\ UNCHANGED <<netVars, sessionVars, m_CommandList, pos, main, ready, crashed>>

TimesOut == /\ Move("waiting", "top")
            /\ UNCHANGED <<netVars, sessionVars, m_CommandList, pos, main, ready, crashed>>

WakesLate == /\ Move("signalled", "top")
             /\ UNCHANGED <<netVars, sessionVars, m_CommandList, pos, main, ready, crashed>>

\* Mutant: the handling begins with the last command.
WakesUpAtLast ==
  /\ pc \in {"signalled", "waiting"} /\ m_CommandList # <<>>
  /\ pc' = "batch" /\ pos' = Len(m_CommandList)
  /\ UNCHANGED <<netVars, sessionVars, m_CommandList, main, ready, crashed>>

WakesUp ==
  /\ pc \in {"signalled", "waiting"}           \* notified, or spuriously
  /\ pc' = "batch" /\ pos' = 1
  /\ UNCHANGED <<netVars, sessionVars, m_CommandList, main, ready, crashed>>

EndBatch ==
  /\ Move("batch", "top")
  /\ pos > Len(m_CommandList)
  /\ m_CommandList' = <<>>
  /\ pos' = 1
  /\ UNCHANGED <<netVars, sessionVars, main, ready, crashed>>

Current == m_CommandList[pos]

Handling(kinds) == pc = "batch" /\ pos <= Len(m_CommandList) /\ Current.kind \in kinds

\* Mutant: the flag is not looked at.
ServedAlways(kinds) == Handling(kinds)

\* What is handled only until the server has been told to shut down.
Served(kinds) == Handling(kinds) /\ ~ready

Done == pos' = pos + 1 /\ UNCHANGED <<pc, m_CommandList, main>>

\* EasyPool::Allocate: the front of the list, or else a new object with identifier 0.
Allocate(s) ==
  IF pool # <<>>
    THEN s = Head(pool) /\ pool' = Tail(pool) /\ UNCHANGED made
    ELSE s \notin made /\ made' = made \union {s} /\ UNCHANGED pool

HandleOnConnect ==
  /\ Served({"ONCONNECT"})
  /\ LET c == Current.conn
     IN \E s \in Sessions :
          /\ Allocate(s)
          /\ SessionMap' = IF SessionMap[id[s]] = NoSession      \* insert does not replace
                             THEN [SessionMap EXCEPT ![id[s]] = s] ELSE SessionMap
          /\ conn' = [conn EXCEPT ![s] = c]
          /\ client' = [client EXCEPT ![c] = s]
          /\ seen' = [seen EXCEPT ![c] = "open"]
          /\ read' = [read EXCEPT ![c] = 0]
  /\ Done
  /\ UNCHANGED <<netVars, id, SessionArray, ready, crashed>>

\* A session the connection has not got: GetClient is NULL.
HandleNoSession ==
  /\ Handling({"ONDATA", "ONDISCONNECT"})
  /\ Current.kind = "ONDATA" => ~ready
  /\ client[Current.conn] = NoSession
  /\ Done
  /\ UNCHANGED <<netVars, sessionVars, ready, crashed>>

HandleIgnored ==
  /\ Handling({"ONCONNECT", "ONDATA", "SENDDATA"}) /\ ready
  /\ Done
  /\ UNCHANGED <<netVars, sessionVars, ready, crashed>>

\* EasySession::SendData to each of them: through m_pServer, which Initialize sets
\* last, and on m_pConnection, which nothing tests.
SendData(targets) ==
  crashed' = \E s \in targets : main # "done" \/ conn[s] = NoConn

\* The application's handler answers, or speaks to every session in the map.
HandleOnData ==
  /\ Served({"ONDATA"})
  /\ client[Current.conn] \in Sessions
  /\ LET c == Current.conn
         everyone == {SessionMap[i] : i \in Ids} \ {NoSession}
     IN /\ \E targets \in {{client[c]}, everyone} : SendData(targets)
        /\ seen' = [seen EXCEPT ![c] = "talking"]
        /\ read' = [read EXCEPT ![c] = Current.n]
  /\ Done
  /\ UNCHANGED <<netVars, client, conn, pool, made, id, SessionMap, SessionArray, ready>>

\* Mutant: the map keeps the session.
HandleOnDisconnectUnmapped ==
  /\ Handling({"ONDISCONNECT"}) /\ client[Current.conn] \in Sessions
  /\ seen' = [seen EXCEPT ![Current.conn] = "lost"]
  /\ pc' = "closing"
  /\ UNCHANGED <<netVars, client, conn, pool, made, id, SessionMap, SessionArray, read,
                 m_CommandList, pos, main, ready, crashed>>

HandleOnDisconnect ==
  /\ Handling({"ONDISCONNECT"}) /\ client[Current.conn] \in Sessions
  /\ LET c == Current.conn
     IN /\ SessionMap' = [SessionMap EXCEPT ![id[client[c]]] = NoSession]
        /\ seen' = [seen EXCEPT ![c] = "lost"]
  /\ pc' = "closing"
  /\ UNCHANGED <<netVars, client, conn, pool, made, id, SessionArray, read, m_CommandList, pos,
                 main, ready, crashed>>

\* EasySession::OnDisconnect and Free: Close refuses a connection that is not lost.
CloseSession ==
  /\ pc = "closing"
  /\ LET c == Current.conn
         s == client[c]
     IN /\ phase' = IF conn[s] # NoConn /\ phase[conn[s]] = "lost"
                      THEN [phase EXCEPT ![conn[s]] = "idle"] ELSE phase
        /\ seen' = [seen EXCEPT ![c] = "idle"]
        /\ conn' = [conn EXCEPT ![s] = NoConn]
        /\ pool' = Append(pool, s)
  /\ pc' = "batch" /\ pos' = pos + 1
  /\ UNCHANGED <<call, arrived, dropped, asked, client, made, id, SessionMap, SessionArray, read,
                 m_CommandList, main, ready, crashed>>

Disconnect(targets) ==
  asked' = asked \union {c \in {conn[s] : s \in targets} \ {NoConn} :
                           phase[c] \in {"open", "talking"}}

HandleDisconnect ==
  /\ Handling({"DISCONNECT"})
  /\ Disconnect({SessionArray[Current.n]})
  /\ Done
  /\ UNCHANGED <<phase, call, arrived, dropped, sessionVars, ready, crashed>>

HandleSendData ==
  /\ Served({"SENDDATA"})
  /\ SendData({SessionArray[Current.n]})
  /\ Done
  /\ UNCHANGED <<netVars, sessionVars, ready>>

HandleShutdown ==
  /\ Handling({"SHUTDOWN"})
  /\ ready' = TRUE
  /\ Disconnect({SessionMap[i] : i \in Ids} \ {NoSession})
  /\ Done
  /\ UNCHANGED <<phase, call, arrived, dropped, sessionVars, crashed>>

-----------------------------------------------------------------------------
Handle == \/ HandleOnConnect \/ HandleNoSession \/ HandleIgnored \/ HandleOnData
          \/ HandleOnDisconnect \/ CloseSession
          \/ HandleDisconnect \/ HandleSendData \/ HandleShutdown

CommandHandler == Wait \/ TimesOut \/ WakesLate \/ WakesUp \/ Handle \/ EndBatch

Callbacks(c) == OnConnection(c) \/ OnData(c) \/ OnDataNoMemory(c) \/ OnDisconnect(c)

Next ==
  /\ ~crashed
  /\ \/ Initialize
     \/ \E c \in Conns : Callbacks(c) \/ PushCallback(c)
     \/ \E kind \in AppCommands, i \in Ids : PushFromApp(kind, i)
     \/ CommandHandler

Spec == Init /\ [][Next]_vars

(***************************************************************************)
(* Fairness: the threads go on; one that needs the mutex gets it (it is     *)
(* free for 100 ms in every round of the command thread); a                *)
(* notified command thread is not too late every time, and the network     *)
(* reports the disconnect it was asked for.                                *)
(***************************************************************************)
Fairness ==
  /\ WF_vars(Initialize)
  /\ \A c \in Conns : SF_vars(PushCallback(c)) /\ WF_vars(c \in asked /\ OnDisconnect(c))
  /\ WF_vars(CommandHandler)
  /\ SF_vars(pc = "signalled" /\ WakesUp)

FairSpec == Spec /\ Fairness

-----------------------------------------------------------------------------
Phases == Network!Phases
Commands ==
  {NoCall} \union [kind : {"ONCONNECT", "ONDATA", "ONDISCONNECT"}, conn : Conns, n : 0 .. DataMax]
           \union [kind : AppKinds, conn : {NoConn}, n : Ids]

\* Types, and the order in which Initialize and the command thread come to exist.
TypeOK ==
  /\ phase \in [Conns -> Phases] /\ seen \in [Conns -> Phases]
  /\ call \in [Conns -> Commands]
  /\ arrived \in [Conns -> 0 .. DataMax] /\ read \in [Conns -> 0 .. DataMax]
  /\ dropped \in [Conns -> SUBSET (1 .. DataMax)]
  /\ asked \subseteq Conns
  /\ client \in [Conns -> Sessions \union {NoSession}]
  /\ m_CommandList \in Seq(Commands \ {NoCall})
  /\ main \in {"started", "served", "pooled", "running", "done"}
  /\ pc \in {"off", "top", "waiting", "signalled", "batch", "closing"}
  /\ pos \in 1 .. (Len(m_CommandList) + 1) /\ (pos > 1 => Locked)
  /\ pc = "off" <=> main \in {"started", "served", "pooled"}
  /\ ready \in BOOLEAN /\ crashed \in BOOLEAN
  /\ conn \in [Sessions -> Conns \union {NoConn}]
  /\ made \subseteq Sessions /\ pool \in Seq(made)
  /\ id \in [Sessions -> Ids]
  /\ SessionMap \in [Ids -> made \union {NoSession}]
  /\ SessionArray \in [Ids -> made \union {NoSession}]

(***************************************************************************)
(* What holds as long as the server serves: it was not told to shut down.  *)
(***************************************************************************)
Serving == ~ready /\ ~crashed

(***************************************************************************)
(* The commands of a connection that are not handled yet, with the one a   *)
(* callback still has in hand, are exactly those that take what the        *)
(* sessions were told to what the network told: the queue loses none,      *)
(* doubles none and keeps each connection's own in order, however the      *)
(* threads interleave.                                                     *)
(***************************************************************************)
Made(c) == IF call[c] = NoCall THEN m_CommandList ELSE Append(m_CommandList, call[c])

Unhandled(c) ==
  {k \in (IF pc = "closing" THEN pos + 1 ELSE pos) .. Len(Made(c)) : Made(c)[k].conn = c}

Rank(m) == CASE m.kind = "ONCONNECT" -> 0
             [] m.kind = "ONDATA" -> m.n
             [] OTHER -> DataMax + 1

Given(c) == IF seen[c] = "idle" THEN 0 ELSE read[c]

Missing(c, m) ==
  \/ m = Command("ONCONNECT", c, 0) /\ seen[c] = "idle" /\ phase[c] # "idle"
  \/ \E n \in (Given(c) + 1 .. arrived[c]) \ dropped[c] :
       m = Command("ONDATA", c, n) /\ phase[c] # "idle"
  \/ m = Command("ONDISCONNECT", c, 0) /\ phase[c] = "lost" /\ seen[c] # "lost"

NothingLost ==
  Serving => \A c \in Conns :
    /\ \A m \in Commands : (\E k \in Unhandled(c) : Made(c)[k] = m) <=> Missing(c, m)
    /\ \A j, k \in Unhandled(c) : j < k => Rank(Made(c)[j]) < Rank(Made(c)[k])

(***************************************************************************)
(* The queue hands on the contract of the network: every session sees      *)
(* OnConnection, OnData, OnDisconnect and Close in the order of            *)
(* HandlerProtocol, although the network has long gone on.                 *)
(***************************************************************************)
Seen == INSTANCE HandlerProtocol WITH phase <- seen
SessionsFollowProtocol == Seen!Init /\ [][Serving => Seen!Next]_seen

(***************************************************************************)
(* EasyPool and EasyConnection::client_: a session made is in the pool     *)
(* once, or serves the one connection that points back to it.              *)
(***************************************************************************)
SessionsExclusive ==
  \A s \in made :
    LET places == {k \in 1 .. Len(pool) : pool[k] = s}
    IN IF conn[s] = NoConn THEN Cardinality(places) = 1
                           ELSE places = {} /\ client[conn[s]] = s

\* A session found in m_SessionMap is connected, and found under its own identifier:
\* what a handler that speaks to all of them relies on.
MapIsConnected ==
  \A i \in Ids : SessionMap[i] # NoSession =>
                   conn[SessionMap[i]] # NoConn /\ id[SessionMap[i]] = i

\* No thread goes through a null pointer.
NoNullPointer == ~crashed

\* A null pointer is followed only before Initialize has returned, or to send to a session
\* that the application named by its identifier (easy_baseserver.cpp:359): not by a handler
\* that answers, nor by one that speaks to every session in the map, also not while the
\* server is shutting down.
PointersSet ==
  crashed => \/ main # "done"
             \/ pos > 1 /\ m_CommandList[pos - 1].kind = "SENDDATA"

\* Once the server is told to shut down, every session in m_SessionMap is lost or has
\* been asked to disconnect, and none comes to it, also none whose connection was in the
\* queue at that moment (easy_baseserver.cpp:324, 406-416).
ShutdownDisconnects ==
  ready => \A i \in Ids : SessionMap[i] # NoSession =>
             LET c == conn[SessionMap[i]] IN c \in asked \/ phase[c] \notin {"open", "talking"}

\* EasySession::OnDisconnect closes the connection whose OnDisconnect it handles, and
\* that connection is disconnected ("attention: don't call this function if
\* disconnect not called", network/src/easy_connection.h:57).
ClosesLost ==
  pc = "closing" => LET c == Current.conn IN conn[client[c]] = c /\ phase[c] = "lost"

\* Whatever happens, and also once the server is told to shut down with commands in the
\* queue: m_SessionMap leads to connected sessions under their own identifiers only
\* (easy_baseserver.cpp:286-345); a session is in the pool or serves one connection, which
\* points back to it (easy_baseserver.cpp:247), and closes the one it is told has been lost
\* (easy_session.cpp:39), never through the client_ of an earlier use.
SessionsOK == TypeOK /\ MapIsConnected /\ SessionsExclusive /\ ClosesLost

\* Every session with a connection is in m_SessionMap, through which the chat server
\* speaks to everyone and shutdown disconnects everyone.
EveryoneInMap ==
  \A s \in made : conn[s] # NoConn /\ pc # "closing" => \E i \in Ids : SessionMap[i] = s

\* A DISCONNECT command reaches the session whose identifier it carries.
DisconnectsNamed ==
  [][Handling({"DISCONNECT"}) /\ asked' # asked =>
       \E s \in made : id[s] = Current.n /\ asked' = asked \union {conn[s]}]_vars

\* When notifications find the command thread waiting again and again, every lost
\* connection is closed by its session.
Notified == pc = "waiting" /\ pc' = "signalled"
LostIsClosed ==
  []<><<Notified>>_vars => \A c \in Conns : phase[c] = "lost" ~> phase[c] = "idle"

\* What a client sent is eventually given to its session (the chat server's handlers
\* answer every request, test/src/ChatTest/chat_session.cpp:6).
DataIsHandled == \A c \in Conns : (arrived[c] = 1 /\ phase[c] = "talking") ~> (read[c] >= 1)

\* Once the server is told to shut down every connection comes back to the acceptor,
\* whose destructor waits for them ("stop and destroy the acceptor, close all
\* connection", network/src/easy_acceptor.h:43).
ShutdownClosesAll == ready ~> \A c \in Conns : phase[c] = "idle"
=============================================================================
