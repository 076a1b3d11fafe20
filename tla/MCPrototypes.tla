----------------------------- MODULE MCPrototypes -----------------------------
(***************************************************************************)
(* The predecessors of the library, each in two setups: the echo server    *)
(* of easynet, the epoll half of EasyNetwork and its completion-port half. *)
(* Init chooses one; what it has no use for stays Unused.                  *)
(***************************************************************************)
EXTENDS Integers, Sequences

CONSTANTS
  Chars, Message,                                     \* of EchoServer: the longest message
  MAXLINE,                                            \* of EchoServer and EasyConnection
  Length, Beyond, Room, RecvSize, Request, Requests, Sends,   \* of EasyConnection
  Conns, NoConn, Workers, Caller,                     \* of IocpPrototype
  Pair                                                \* two connections, when it is stopped

VARIABLES
  setup,
  client, asked, readN, rx, end, out, reg, ready,     \* of EchoServer and EasyConnection
  buffer_, p, total, recvNum, killed,
  sent, flying, len, pc,                                      \* of EchoServer
  object,                                             \* of EchoServer and IocpPrototype
  socket_, conn_, ch, len_, sem, main, i, n, given,   \* of EasyConnection
  worker, rlen, overrun,
  running_, starts, freed, context_,                  \* of IocpPrototype
  accepting, recv, disconnect, refused, th

netVars == <<client, asked, readN, rx, end, out, reg, ready, buffer_, p, total, recvNum, killed>>
echoVars == <<sent, flying, len, pc>>
connVars == <<socket_, conn_, ch, len_, sem, main, i, n, given, worker, rlen, overrun>>
winVars == <<running_, starts, freed, context_, accepting, recv, disconnect, refused, th>>
echoServerVars == <<netVars, echoVars, object>>
easyConnVars == <<netVars, connVars>>
prototypeVars == <<object, winVars>>
allVars == <<setup, netVars, echoVars, object, connVars, winVars>>

-----------------------------------------------------------------------------
\* One message that two reads take and one send gives back, of which no part comes late; the
\* client closes when it has it.
Echo ==
  INSTANCE EchoServer WITH Nul <- "0", BufSize <- 2 * MAXLINE + 1, Room <- Message,
                           MaxMessage <- Message, Messages <- 1, Closes <- "answered"

\* Messages the socket does not take at once, and a client that goes away at any time.
Busy ==
  INSTANCE EchoServer WITH Chars <- {"a"}, Nul <- "0", MAXLINE <- 2, BufSize <- 5, Room <- 1,
                           MaxMessage <- 2, Messages <- 2, Closes <- "any"

\* Messages through a socket that does not take them at once, to a client that may close.
Conn == INSTANCE EasyConnection WITH Closes <- TRUE

\* Calls the kernel refuses, after which the acceptor may be started again.
Win ==
  INSTANCE IocpPrototype WITH Faults <- {"AcceptEx", "update", "recv", "DisconnectEx"},
                              Calls <- {"Restart"}

\* The acceptor may be stopped, and destroyed.
Stopped ==
  INSTANCE IocpPrototype WITH Conns <- Pair, Faults <- {"recv", "accept", "DisconnectEx"},
                              Calls <- {"Stop", "Destroy"}

ASSUME Instances ==
  /\ Echo!EchoAssumption /\ Busy!EchoAssumption /\ Message <= 2 * MAXLINE
  /\ Conn!ConnectionAssumption
  /\ Win!PrototypeAssumption /\ Stopped!PrototypeAssumption

-----------------------------------------------------------------------------
Unused == "unused"

NoNet ==
  /\ client = Unused /\ asked = Unused /\ readN = Unused /\ rx = Unused /\ end = Unused
  /\ out = Unused /\ reg = Unused /\ ready = Unused /\ buffer_ = Unused /\ p = Unused
  /\ total = Unused /\ recvNum = Unused /\ killed = Unused

NoEcho == sent = Unused /\ flying = Unused /\ len = Unused /\ pc = Unused

NoConnection ==
  /\ socket_ = Unused /\ conn_ = Unused /\ ch = Unused /\ len_ = Unused /\ sem = Unused
  /\ main = Unused /\ i = Unused /\ n = Unused /\ given = Unused /\ worker = Unused
  /\ rlen = Unused /\ overrun = Unused

NoWin ==
  /\ running_ = Unused /\ starts = Unused /\ freed = Unused /\ context_ = Unused
  /\ accepting = Unused /\ recv = Unused /\ disconnect = Unused /\ refused = Unused /\ th = Unused

MCInit ==
  \/ setup = "echo" /\ Echo!Init /\ NoConnection /\ NoWin
  \/ setup = "busy" /\ Busy!Init /\ NoConnection /\ NoWin
  \/ setup \in {"conn", "stay"} /\ Conn!Init /\ NoEcho /\ object = Unused /\ NoWin
  \/ setup = "win" /\ Win!Init /\ NoNet /\ NoEcho /\ NoConnection
  \/ setup = "stopped" /\ Stopped!Init /\ NoNet /\ NoEcho /\ NoConnection

MCNext ==
  \/ /\ (setup = "echo" /\ Echo!Next /\ Echo!InTime') \/ (setup = "busy" /\ Busy!Next)
     /\ UNCHANGED <<setup, connVars, winVars>>
  \/ /\ (setup = "conn" /\ Conn!Next) \/ (setup = "stay" /\ Conn!Next /\ ~Conn!Close)
     /\ UNCHANGED <<setup, echoVars, object, winVars>>
  \/ /\ (setup = "win" /\ Win!Next) \/ (setup = "stopped" /\ Stopped!Next)
     /\ UNCHANGED <<setup, netVars, echoVars, connVars>>

\* The fairness of each module, while it is the one that runs.
MCFairness ==
  /\ WF_echoServerVars(setup = "echo" /\ Echo!Thread)
  /\ WF_echoServerVars(setup = "echo" /\ Echo!Read)
  /\ WF_echoServerVars(setup = "echo" /\ Echo!Network)
  /\ WF_echoServerVars(setup = "busy" /\ Busy!Thread)
  /\ WF_echoServerVars(setup = "busy" /\ Busy!Read)
  /\ WF_echoServerVars(setup = "busy" /\ Busy!Network)
  /\ WF_easyConnVars(setup = "stay" /\ Conn!Main)
  /\ WF_easyConnVars(setup = "stay" /\ Conn!WorkerThread)
  /\ WF_easyConnVars(setup = "stay" /\ Conn!Read)
  /\ \A t \in Workers : WF_prototypeVars(setup = "stopped" /\ Stopped!Worker(t))

MCSpec == MCInit /\ [][MCNext]_allVars /\ MCFairness
-----------------------------------------------------------------------------
\* The echo server gives back what it was sent, cut in pieces of which none comes late, in
\* order (main.cpp:129), and prints the message it received ("receive all", main.cpp:125).
EchoInOrder == setup = "echo" => Echo!TypeOK /\ Echo!EchoInOrder /\ Echo!ReceivedAll

\* EasyConnection's sem_ keeps main and the worker from sending at the same time, and while
\* it is taken somebody is on the message (easy_connection.cpp:196).
SemHeld == setup \in {"conn", "stay"} => Conn!TypeOK /\ Conn!OneSender /\ Conn!LeftIsWaited

\* With AcceptEx, WSARecv, DisconnectEx or the update of a socket refused: no connection is
\* forgotten before it is disconnected but for one of the last two, and a running acceptor
\* listens ("post another accept request", easy_worker.cpp:89).
Attended == setup = "win" => Win!TypeOK /\ Win!Attended /\ Win!Listening

-----------------------------------------------------------------------------
\* The echo server sends back everything, if all of a message fits into the socket.
Echoed == [](setup = "echo" /\ sent # <<>> => <>(setup = "echo" /\ out = sent))

\* A full socket does not keep the echo server from listening (main.cpp:216).
ListensAgain == (setup = "busy" /\ reg = "out") ~> (reg # "out" \/ end = "rst")

\* sem_ is always posted again, or no message could ever be sent.
SemReleased ==
  (setup = "stay" /\ sem = 0) ~> (setup = "stay" /\ (sem = 1 \/ killed \/ main = "looping"))

\* A client that left is disconnected, also while the acceptor is destroyed, unless
\* DisconnectEx is refused.
LeftDisconnected ==
  \A c \in Pair :
    (setup = "stopped" /\ recv[c] = "end")
      ~> (setup = "stopped" /\ (disconnect[c] # "none" \/ c \in refused))

OtherTypesOK == (setup = "busy" => Busy!TypeOK) /\ (setup = "stopped" => Stopped!TypeOK)

\* What a client writes is received, by the echo server and by EasyNetwork, though both
\* change with each message sent what the socket is registered for (main.cpp:157,
\* EasyNetwork/easy_connection.cpp:337); and what is begun with it comes to its end.
InputTaken ==
  /\ (setup = "busy" /\ rx # <<>>) ~>
       (setup = "busy" /\ (rx = <<>> \/ end = "rst" \/ object = "deleted"))
  /\ (setup = "stay" /\ rx > 0) ~> (setup = "stay" /\ (rx = 0 \/ socket_ = "closed"))
  /\ Echoed /\ ListensAgain /\ SemReleased /\ LeftDisconnected /\ []OtherTypesOK
=============================================================================
