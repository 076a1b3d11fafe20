----------------------------- MODULE EpollServer -----------------------------
(***************************************************************************)
(* The _LINUX half of network/src under the server frame of midware/src:   *)
(* one worker thread that polls, accepts, receives and sends what a full   *)
(* socket left over, and the command thread whose handlers answer.  They   *)
(* meet in the sockets, in sem_ of each connection and in m_CommandMutex.  *)
(*                                                                         *)
(* A client sends requests of one length and is answered once for each, as *)
(* the chat server does with pings (test/src/ChatTest).  Bytes of a stream *)
(* are numbered; a byte of an answer is the answer's number and its place. *)
(* Sockets are non-blocking, so that no call is interrupted (EINTR).       *)
(***************************************************************************)
EXTENDS Naturals, Sequences, FiniteSets, FiniteSetsExt

CONSTANTS
  Conns,        \* clients, each with the connection it will have
  Listener,     \* the listening socket among the events
  NoConn,
  MAXLINE,      \* longest read
  InputBuffer,  \* MAX_INPUT_BUFFER
  Room,         \* what the send buffer of a socket takes
  Request, Answer,  \* lengths of a request and of its answer, 0 for none
  Requests,     \* bound: requests of a client
  Pipelined,    \* whether a client asks again before it was answered
  Closes        \* when a client closes: "answered", "any" or "never"

ASSUME Lengths == /\ {MAXLINE, InputBuffer, Room, Request, Requests} \subseteq Nat \ {0}
                  /\ Answer \in Nat
                  /\ 2 * MAXLINE <= InputBuffer
ASSUME ClientKinds == Pipelined \in BOOLEAN /\ Closes \in {"answered", "any", "never"}
ASSUME Names == Listener \notin Conns /\ NoConn \notin Conns

VARIABLES
  \* the clients and the network
  client,     \* "away", "here" or "gone"
  asked,      \* requests sent
  flying,     \* bytes sent that have not arrived
  readN,      \* bytes of answers read
  \* the sockets of the server
  backlog,    \* connections to accept, oldest first
  rx,         \* bytes to receive
  fin, rst,   \* connections whose end or reset has arrived
  out,        \* all bytes put into the socket
  \* epoll
  reg,        \* what each connection is registered for: "none", "in" or "out"
  ready,      \* the list of sockets with an edge since they were last reported
  \* the worker
  events,     \* events_ not handled yet
  w,          \* the worker: where it is, connection, recv_context_->len_, recvNum
  rbuf,       \* recv_context_->buffer_: the number of each byte, 0 if none was written
  \* the connections
  object,     \* "none", "live" or "deleted"
  told,       \* what the handler was told of each (HandlerProtocol)
  sem,        \* sem_
  left,       \* send_context_->len_
  m_SendBuf,  \* the answer written into each session's m_SendBuf last
  handled,    \* bytes each session was given
  \* the command thread
  m_CommandList,
  cmd,        \* where it is, its connection, answers it has to send; mutex held unless "idle"
  notified,   \* whether wait_for will return because of a notification
  killed      \* by SIGPIPE

clientVars == <<client, asked, flying, readN>>
socketVars == <<backlog, rx, fin, rst, out>>
workerVars == <<events, w, rbuf>>
sendVars == <<sem, left, m_SendBuf>>
commandVars == <<m_CommandList, cmd, handled, notified>>
vars == <<clientVars, socketVars, reg, ready, workerVars, object, told, sendVars,
          commandVars, killed>>

Init ==
  /\ client = [c \in Conns |-> "away"]
  /\ asked = [c \in Conns |-> 0] /\ flying = asked /\ readN = asked /\ rx = asked
  /\ backlog = <<>> /\ fin = {} /\ rst = {}
  /\ out = [c \in Conns |-> <<>>]
  /\ reg = [c \in Conns |-> "none"] /\ ready = {} /\ events = {}
  /\ w = [at |-> "epoll_wait", c |-> NoConn, len |-> 0, recvNum |-> 0]
  /\ rbuf = [i \in 1 .. InputBuffer |-> 0]
  /\ object = [c \in Conns |-> "none"] /\ told = [c \in Conns |-> "idle"]
  /\ sem = [c \in Conns |-> 1] /\ left = [c \in Conns |-> 0] /\ m_SendBuf = left
  /\ handled = left
  /\ m_CommandList = <<>> /\ cmd = [at |-> "idle", c |-> NoConn, due |-> 0]
  /\ notified = FALSE
  /\ killed = FALSE

-----------------------------------------------------------------------------
(* Clients, network and kernel. *)

Full(c) == Len(out[c]) - readN[c] >= Room
Readable(c) == rx[c] > 0 \/ c \in fin \cup rst
Answered(c) == readN[c] = asked[c] * Answer
Alive == ~killed

\* An edge reaches the ready list if the connection is registered for it.
Edge(c, kind) == IF reg[c] = kind THEN ready \cup {c} ELSE ready

Connect(c) ==
  /\ client[c] = "away" /\ client' = [client EXCEPT ![c] = "here"]
  /\ backlog' = Append(backlog, c)
  /\ ready' = ready \cup {Listener}
  /\ UNCHANGED <<asked, flying, readN, rx, fin, rst, out, reg, workerVars, object, told, sendVars,
                 commandVars, killed>>

Ask(c) ==
  /\ client[c] = "here" /\ asked[c] < Requests
  /\ Pipelined \/ Answered(c)
  /\ asked' = [asked EXCEPT ![c] = @ + 1]
  /\ flying' = [flying EXCEPT ![c] = @ + Request]
  /\ UNCHANGED <<client, readN, socketVars, reg, ready, workerVars, object, told, sendVars,
                 commandVars, killed>>

Arrive(c, n) ==
  /\ n <= flying[c] /\ object[c] # "deleted"
  /\ flying' = [flying EXCEPT ![c] = @ - n]
  /\ rx' = [rx EXCEPT ![c] = @ + n]
  /\ ready' = Edge(c, "in")
  /\ UNCHANGED <<client, asked, readN, backlog, fin, rst, out, reg, workerVars, object, told,
                 sendVars, commandVars, killed>>

\* The client reads what is there, which makes room.
Read(c) ==
  /\ client[c] = "here" /\ readN[c] < Len(out[c])
  /\ readN' = [readN EXCEPT ![c] = Len(out[c])]
  /\ ready' = Edge(c, "out")
  /\ UNCHANGED <<client, asked, flying, socketVars, reg, workerVars, object, told, sendVars,
                 commandVars, killed>>

\* A close with answers unread is a reset.
ClientClose(c) ==
  /\ client[c] = "here" /\ client' = [client EXCEPT ![c] = "gone"]
  /\ CASE Closes = "answered" -> asked[c] > 0 /\ Answered(c)
       [] Closes = "any" -> TRUE
       [] OTHER -> FALSE
  /\ UNCHANGED <<asked, flying, readN, socketVars, reg, ready, workerVars, object, told, sendVars,
                 commandVars, killed>>

EndArrives(c) ==
  /\ client[c] = "gone" /\ flying[c] = 0 /\ c \notin fin \cup rst /\ object[c] # "deleted"
  /\ fin' = fin \cup {c}
  /\ ready' = Edge(c, "in")
  /\ UNCHANGED <<clientVars, backlog, rx, rst, out, reg, workerVars, object, told, sendVars,
                 commandVars, killed>>

\* A client that is gone answers what it is sent with a reset, which is always reported.
ResetArrives(c) ==
  /\ client[c] = "gone" /\ Len(out[c]) > readN[c] /\ c \notin rst /\ object[c] # "deleted"
  /\ rst' = rst \cup {c}
  /\ ready' = IF reg[c] = "none" THEN ready ELSE ready \cup {c}
  /\ UNCHANGED <<clientVars, backlog, rx, fin, out, reg, workerVars, object, told, sendVars,
                 commandVars, killed>>

\* epoll_ctl: the new registration is compared with the socket's state at once.
Ctl(c, kind) ==
  /\ reg' = [reg EXCEPT ![c] = kind]
  /\ ready' = IF IF kind = "in" THEN Readable(c) ELSE c \in rst \/ ~Full(c)
              THEN ready \cup {c} ELSE ready

\* Mutant: buffer_ is not moved on.
SendFromStart(c, k) ==
  out' = [out EXCEPT ![c] = @ \o [i \in 1 .. k |-> <<m_SendBuf[c], i>>]]

\* send: as many of the bytes as there is room for; k of them are sent.
Send(c, k) ==
  LET first == Answer - left[c] IN
  out' = [out EXCEPT ![c] = @ \o [i \in 1 .. k |-> <<m_SendBuf[c], first + i>>]]

Sendable(c) == Min({left[c], Room - (Len(out[c]) - readN[c])})

-----------------------------------------------------------------------------
(* The worker thread. *)

Return == w' = [at |-> "events", c |-> NoConn, len |-> 0, recvNum |-> 0]

\* Edge-triggered: what is reported is off the list, whatever its handler leaves behind.
Reported == {<<c, reg[c]>> : c \in {d \in ready \ {Listener} :
                 (reg[d] = "in" /\ Readable(d)) \/ (reg[d] = "out" /\ (d \in rst \/ ~Full(d)))}}
            \cup {<<Listener, "in">> : x \in {y \in {Listener} : y \in ready /\ backlog # <<>>}}

\* Mutant: level-triggered.
EpollWaitLevel ==
  /\ Alive /\ w.at = "epoll_wait" /\ Reported # {}
  /\ events' = Reported
  /\ Return
  /\ UNCHANGED <<clientVars, socketVars, reg, ready, rbuf, object, told, sendVars, commandVars,
                 killed>>

EpollWait ==
  /\ Alive /\ w.at = "epoll_wait" /\ Reported # {}
  /\ events' = Reported
  /\ ready' = {}
  /\ Return
  /\ UNCHANGED <<clientVars, socketVars, reg, rbuf, object, told, sendVars, commandVars, killed>>

NextRound ==
  /\ w.at = "events" /\ events = {}
  /\ w' = [w EXCEPT !.at = "epoll_wait"]
  /\ UNCHANGED <<clientVars, socketVars, reg, ready, events, rbuf, object, told, sendVars,
                 commandVars, killed>>

\* One connection is accepted for each event.
AcceptConnection ==
  /\ Alive /\ w.at = "events" /\ <<Listener, "in">> \in events
  /\ events' = events \ {<<Listener, "in">>}
  /\ LET c == Head(backlog) IN
       /\ backlog' = Tail(backlog)
       /\ object' = [object EXCEPT ![c] = "live"]
       /\ Ctl(c, "in")
       /\ w' = [w EXCEPT !.at = "OnConnection", !.c = c]
  /\ UNCHANGED <<clientVars, rx, fin, rst, out, rbuf, told, sendVars, commandVars, killed>>

\* The callbacks push a command; PushCommand locks m_CommandMutex.  Its notification is
\* lost when it comes between two waits, or to a wait that is over by its timeout.
Push(kind, c, len) ==
  /\ Alive /\ cmd.at = "idle"
  /\ m_CommandList' = Append(m_CommandList, [kind |-> kind, c |-> c, len |-> len])
  /\ notified' \in {notified, TRUE}
  /\ Return
  /\ UNCHANGED <<clientVars, socketVars, reg, ready, events, rbuf, sendVars, cmd, handled, killed>>

OnConnection ==
  /\ w.at = "OnConnection"
  /\ Push("ONCONNECT", w.c, 0)
  /\ told' = [told EXCEPT ![w.c] = "open"]
  /\ UNCHANGED object

BeginRecv(c) ==
  /\ Alive /\ w.at = "events" /\ <<c, "in">> \in events
  /\ events' = events \ {<<c, "in">>}
  /\ rbuf' = [i \in 1 .. InputBuffer |-> 0]
  /\ w' = [at |-> "recv", c |-> c, len |-> 0, recvNum |-> 0]
  /\ UNCHANGED <<clientVars, socketVars, reg, ready, object, told, sendVars, commandVars, killed>>

\* The first byte that this call of RecvData has received.
Start(c) == asked[c] * Request - flying[c] - rx[c] - w.len

\* Mutant: every read goes to the start of the buffer.
RecvAtStart ==
  LET c == w.c
      n == Min({MAXLINE, rx[c]})
  IN /\ Alive /\ w.at = "recv" /\ rx[c] > 0
     /\ rx' = [rx EXCEPT ![c] = @ - n]
     /\ rbuf' = [i \in 1 .. InputBuffer |-> IF i \in 1 .. n THEN Start(c) + w.len + i ELSE rbuf[i]]
     /\ w' = [w EXCEPT !.at = IF n = MAXLINE THEN "recv" ELSE "OnData",
                       !.len = @ + n, !.recvNum = n]
     /\ UNCHANGED <<clientVars, backlog, fin, rst, out, reg, ready, events, object, told,
                    sendVars, commandVars, killed>>

\* A read goes to buffer_ + recvNum, as far in as the last read was long.
Recv ==
  LET c == w.c
      n == Min({MAXLINE, rx[c]})
  IN /\ Alive /\ w.at = "recv" /\ rx[c] > 0
     /\ rx' = [rx EXCEPT ![c] = @ - n]
     /\ rbuf' = [i \in 1 .. InputBuffer |->
                   IF i \in w.recvNum + 1 .. w.recvNum + n
                   THEN Start(c) + w.len + i - w.recvNum ELSE rbuf[i]]
     /\ w' = [w EXCEPT !.at = IF n = MAXLINE THEN "recv" ELSE "OnData",
                       !.len = @ + n, !.recvNum = n]
     /\ UNCHANGED <<clientVars, backlog, fin, rst, out, reg, ready, events, object, told,
                    sendVars, commandVars, killed>>

\* EAGAIN, or the end: what was received before the end is not handed on.
RecvNothing ==
  /\ Alive /\ w.at = "recv" /\ rx[w.c] = 0
  /\ w' = [w EXCEPT !.at = IF w.c \in fin \cup rst THEN "OnDisconnect" ELSE "OnData"]
  /\ UNCHANGED <<clientVars, socketVars, reg, ready, events, rbuf, object, told, sendVars,
                 commandVars, killed>>

OnData ==
  /\ w.at = "OnData"
  /\ Push("ONDATA", w.c, w.len)
  /\ told' = [told EXCEPT ![w.c] = "talking"]
  /\ UNCHANGED object

\* Mutant: the callback closes and deletes the connection itself.
OnDisconnectAtOnce ==
  /\ w.at = "OnDisconnect"
  /\ Push("ONDISCONNECT", w.c, 0)
  /\ told' = [told EXCEPT ![w.c] = "lost"]
  /\ object' = [object EXCEPT ![w.c] = "deleted"]

OnDisconnect ==
  /\ w.at = "OnDisconnect"
  /\ Push("ONDISCONNECT", w.c, 0)
  /\ told' = [told EXCEPT ![w.c] = "lost"]
  /\ UNCHANGED object

\* SendMessage(): the rest of the message that did not fit.
BeginSendLeft(c) ==
  /\ Alive /\ w.at = "events" /\ <<c, "out">> \in events
  /\ events' = events \ {<<c, "out">>}
  /\ IF left[c] = 0 THEN Return ELSE w' = [w EXCEPT !.at = "SendMessage", !.c = c]
  /\ UNCHANGED <<clientVars, socketVars, reg, ready, rbuf, object, told, sendVars, commandVars,
                 killed>>

SendLeftPart ==
  LET c == w.c
      k == Sendable(c)
  IN /\ Alive /\ w.at = "SendMessage" /\ c \notin rst /\ k > 0 /\ k < left[c]
     /\ Send(c, k)
     /\ left' = [left EXCEPT ![c] = @ - k]
     /\ UNCHANGED <<clientVars, backlog, rx, fin, rst, reg, ready, workerVars, object, told, sem,
                    m_SendBuf, commandVars, killed>>

\* All sent; or EAGAIN again, which drops what is left.
SendLeftEnd ==
  LET c == w.c
      k == Sendable(c)
  IN /\ Alive /\ w.at = "SendMessage" /\ c \notin rst /\ k \in {0, left[c]}
     /\ Send(c, k)
     /\ left' = [left EXCEPT ![c] = 0]
     /\ Ctl(c, "in")
     /\ sem' = [sem EXCEPT ![c] = @ + 1]
     /\ Return
     /\ UNCHANGED <<clientVars, backlog, rx, fin, rst, events, rbuf, object, told, m_SendBuf,
                    commandVars, killed>>

\* Another error: the connection stays registered for output only.
SendLeftFails ==
  /\ Alive /\ w.at = "SendMessage" /\ w.c \in rst
  /\ sem' = [sem EXCEPT ![w.c] = @ + 1]
  /\ Return
  /\ UNCHANGED <<clientVars, socketVars, reg, ready, events, rbuf, object, told, left, m_SendBuf,
                 commandVars, killed>>

-----------------------------------------------------------------------------
(* The command thread.  It has m_CommandMutex for a whole batch of commands. *)

\* A wait that did not time out: notified, or a spurious wake-up.
BeginBatch ==
  /\ Alive /\ cmd.at = "idle" /\ m_CommandList # <<>>
  /\ notified' = FALSE
  /\ cmd' = [cmd EXCEPT !.at = "batch"]
  /\ UNCHANGED <<clientVars, socketVars, reg, ready, workerVars, object, told, sendVars,
                 m_CommandList, handled, killed>>

EndBatch ==
  /\ cmd.at = "batch" /\ m_CommandList = <<>>
  /\ cmd' = [cmd EXCEPT !.at = "idle"]
  /\ UNCHANGED <<clientVars, socketVars, reg, ready, workerVars, object, told, sendVars,
                 m_CommandList, handled, notified, killed>>

Current == Head(m_CommandList)
Handling(kind) == Alive /\ cmd.at = "batch" /\ m_CommandList # <<>> /\ Current.kind = kind
Done == m_CommandList' = Tail(m_CommandList)

HandleOnConnect ==
  /\ Handling("ONCONNECT")
  /\ Done
  /\ UNCHANGED <<clientVars, socketVars, reg, ready, workerVars, object, told, sendVars, cmd,
                 handled, notified, killed>>

\* One answer for each request that is complete now.
HandleOnData ==
  /\ Handling("ONDATA")
  /\ Done
  /\ LET c == Current.c
         n == handled[c] + Current.len
         due == IF Answer = 0 THEN 0 ELSE (n \div Request) - (handled[c] \div Request)
     IN /\ handled' = [handled EXCEPT ![c] = n]
        /\ cmd' = IF due = 0 THEN cmd ELSE [at |-> "SendData", c |-> c, due |-> due]
  /\ UNCHANGED <<clientVars, socketVars, reg, ready, workerVars, object, told, sendVars, notified,
                 killed>>

\* EasySession::OnDisconnect.  close takes the socket out of epoll.
HandleOnDisconnect ==
  /\ Handling("ONDISCONNECT")
  /\ Done
  /\ LET c == Current.c IN
       /\ object' = [object EXCEPT ![c] = "deleted"]
       /\ told' = [told EXCEPT ![c] = "idle"]
       /\ reg' = [reg EXCEPT ![c] = "none"]
       /\ ready' = ready \ {c}
  /\ UNCHANGED <<clientVars, socketVars, workerVars, sendVars, cmd, handled, notified, killed>>

\* EasySession::SendData writes the packet into m_SendBuf ...
SendData ==
  /\ Alive /\ cmd.at = "SendData"
  /\ m_SendBuf' = [m_SendBuf EXCEPT ![cmd.c] = @ + 1]
  /\ cmd' = [cmd EXCEPT !.at = "sem_wait"]
  /\ UNCHANGED <<clientVars, socketVars, reg, ready, workerVars, object, told, sem, left,
                 m_CommandList, handled, notified, killed>>

\* ... and SendMessage(len, buffer) waits until the last message is sent.
SemWait ==
  LET c == cmd.c IN
  /\ Alive /\ cmd.at = "sem_wait" /\ sem[c] > 0
  /\ sem' = [sem EXCEPT ![c] = @ - 1]
  /\ left' = [left EXCEPT ![c] = Answer]
  /\ cmd' = [cmd EXCEPT !.at = "send"]
  /\ UNCHANGED <<clientVars, socketVars, reg, ready, workerVars, object, told, m_SendBuf,
                 m_CommandList, handled, notified, killed>>

SendPart ==
  LET c == cmd.c
      k == Sendable(c)
  IN /\ Alive /\ cmd.at = "send" /\ c \notin rst /\ k > 0 /\ k < left[c]
     /\ Send(c, k)
     /\ left' = [left EXCEPT ![c] = @ - k]
     /\ UNCHANGED <<clientVars, backlog, rx, fin, rst, reg, ready, workerVars, object, told, sem,
                    m_SendBuf, commandVars, killed>>

NextAnswer ==
  cmd' = IF cmd.due = 1 THEN [at |-> "batch", c |-> NoConn, due |-> 0]
         ELSE [cmd EXCEPT !.at = "SendData", !.due = @ - 1]

SendAll ==
  LET c == cmd.c IN
  /\ Alive /\ cmd.at = "send" /\ c \notin rst /\ Sendable(c) = left[c]
  /\ Send(c, left[c])
  /\ left' = [left EXCEPT ![c] = 0]
  /\ sem' = [sem EXCEPT ![c] = @ + 1]
  /\ NextAnswer
  /\ UNCHANGED <<clientVars, backlog, rx, fin, rst, reg, ready, workerVars, object, told,
                 m_SendBuf, m_CommandList, handled, notified, killed>>

\* Mutant: the connection stays registered for input.
SendAgainDeaf ==
  LET c == cmd.c IN
  /\ Alive /\ cmd.at = "send" /\ c \notin rst /\ Full(c)
  /\ NextAnswer
  /\ UNCHANGED <<clientVars, socketVars, reg, ready, workerVars, object, told, sendVars,
                 m_CommandList, handled, notified, killed>>

\* EAGAIN: the worker is to send the rest, with sem_ held and EPOLLIN given up until then.
SendAgain ==
  LET c == cmd.c IN
  /\ Alive /\ cmd.at = "send" /\ c \notin rst /\ Full(c)
  /\ Ctl(c, "out")
  /\ NextAnswer
  /\ UNCHANGED <<clientVars, socketVars, workerVars, object, told, sendVars, m_CommandList,
                 handled, notified, killed>>

\* send on a connection that was reset raises SIGPIPE, which nobody handles, at the latest
\* when the loop tries again.
SendReset ==
  /\ Alive
  /\ (cmd.at = "send" /\ cmd.c \in rst) \/ (w.at = "SendMessage" /\ w.c \in rst)
  /\ killed' = TRUE
  /\ UNCHANGED <<clientVars, socketVars, reg, ready, workerVars, object, told, sendVars,
                 commandVars>>

-----------------------------------------------------------------------------
Worker ==
  \/ EpollWait \/ NextRound \/ AcceptConnection
  \/ OnConnection \/ OnData \/ OnDisconnect
  \/ \E c \in Conns : BeginRecv(c) \/ BeginSendLeft(c)
  \/ Recv \/ RecvNothing \/ SendLeftPart \/ SendLeftEnd \/ SendLeftFails

CommandHandler ==
  \/ BeginBatch /\ notified
  \/ EndBatch
  \/ HandleOnConnect \/ HandleOnData \/ HandleOnDisconnect
  \/ SendData \/ SemWait \/ SendPart \/ SendAll \/ SendAgain

Arrivals(c) ==
  \/ \E n \in 1 .. (Requests * Request) : Arrive(c, n)
  \/ EndArrives(c) \/ ResetArrives(c)

Next ==
  \/ \E c \in Conns : Connect(c) \/ Ask(c) \/ Read(c) \/ ClientClose(c) \/ Arrivals(c)
  \/ Worker
  \/ CommandHandler \/ BeginBatch
  \/ SendReset

Spec == Init /\ [][Next]_vars

\* The threads run, the command thread once it is notified; what is sent arrives, and a
\* client that asked reads the answer.
Fairness ==
  /\ WF_vars(Worker) /\ WF_vars(CommandHandler)
  /\ \A c \in Conns : WF_vars(Arrivals(c)) /\ WF_vars(Read(c))

FairSpec == Spec /\ Fairness

-----------------------------------------------------------------------------
TypeOK ==
  /\ client \in [Conns -> {"away", "here", "gone"}]
  /\ asked \in [Conns -> 0 .. Requests]
  /\ flying \in [Conns -> Nat] /\ rx \in [Conns -> Nat] /\ handled \in [Conns -> Nat]
  /\ \A c \in Conns : readN[c] \in 0 .. Len(out[c]) /\ Len(out[c]) - readN[c] <= Room
  /\ backlog \in Seq(Conns) /\ fin \subseteq Conns /\ rst \subseteq Conns
  /\ reg \in [Conns -> {"none", "in", "out"}]
  /\ ready \subseteq Conns \cup {Listener}
  /\ events \subseteq (Conns \cup {Listener}) \X {"in", "out"}
  /\ w.at \in {"epoll_wait", "events", "OnConnection", "recv", "OnData", "OnDisconnect",
               "SendMessage"}
  /\ w.recvNum \in 0 .. MAXLINE /\ w.len \in Nat
  /\ object \in [Conns -> {"none", "live", "deleted"}]
  /\ sem \in [Conns -> Nat] /\ left \in [Conns -> 0 .. Answer]
  /\ m_SendBuf \in [Conns -> 0 .. Requests]
  /\ cmd.at \in {"idle", "batch", "SendData", "sem_wait", "send"} /\ cmd.due \in 0 .. Requests
  /\ notified \in BOOLEAN
  /\ killed \in BOOLEAN

\* OnData is given the next bytes of the stream, in order, and no more than the buffer
\* holds (easy_connection.cpp:302-346).
StreamInOrder ==
  w.at = "OnData" =>
    /\ w.len <= InputBuffer
    /\ \A i \in 1 .. w.len : rbuf[i] = Start(w.c) + i

\* Every client that has closed its connection had asked, and had all its answers.
Patient == \A c \in Conns : client[c] = "gone" => asked[c] > 0 /\ Answered(c)

\* No event, command or thread that will still use a connection finds it deleted
\* (easy_session.cpp:46-47 deletes it under the worker).
UsesLive ==
  LET used == {w.c, cmd.c} \cup {e[1] : e \in events}
              \cup {m_CommandList[i].c : i \in 1 .. Len(m_CommandList)}
  IN \A c \in Conns \cap used : object[c] = "live"

\* sem_ lets one message at a time be sent: it is taken while any of one is left, unless
\* the connection was reset (easy_connection.cpp:417-424, 441, 470).
OneSender ==
  \A c \in Conns \ rst : sem[c] <= 1 /\ (left[c] > 0 => sem[c] = 0)

\* What goes into a socket are whole answers, one after the other: neither the two senders
\* of a connection nor its one m_SendBuf mix them up (easy_connection.cpp:355-473).
AnswersWhole ==
  \A c \in Conns : \A i \in 1 .. Len(out[c]) :
    out[c][i] = <<((i - 1) \div Answer) + 1, ((i - 1) % Answer) + 1>>

\* The command thread does not wait, with the mutex, for a message that the worker has to
\* send, while the worker waits for the mutex (easy_connection.cpp:424,
\* easy_baseserver.cpp:163).
NotStuck ==
  ~ (/\ cmd.at = "sem_wait" /\ sem[cmd.c] = 0
     /\ w.at \in {"OnConnection", "OnData", "OnDisconnect"})

\* The two threads share a connection without ever waiting for each other
\* (easy_connection.cpp:417-470), and as long as nobody leaves before it was answered, none
\* is used that was deleted (easy_session.cpp:46-47).
ConnectionsOK == TypeOK /\ NotStuck /\ OneSender /\ (Patient => UsesLive)

\* The server outlives a client that does not wait for its answer
\* (easy_connection.cpp:444-449).
Survives == ~killed

\* As long as nobody leaves before it was answered, the callbacks and the deletion of a
\* connection come in the order of the contract (easy_handler.h).
Protocol == INSTANCE HandlerProtocol WITH phase <- told
FollowsProtocol == Protocol!Init /\ [][Patient => Protocol!Next]_told

\* No command lies in the list for good, its notification lost, while the command thread
\* waits for the next one (easy_baseserver.cpp:418).
NoneForgotten == []<>(m_CommandList = <<>> \/ notified \/ cmd.at # "idle")

\* Every request of a client that was accepted and stays is answered, the part that does
\* not fit the socket included (easy_connection.cpp:434-442, 409-417).
IsAnswered ==
  \A c \in Conns : \A n \in 1 .. Requests :
    asked[c] >= n /\ object[c] = "live" ~> readN[c] >= n * Answer

\* A connection that its client has closed is reported and deleted.
LostIsReported ==
  \A c \in Conns : client[c] = "gone" /\ object[c] = "live" ~> object[c] = "deleted"

\* Whoever connects is accepted (easy_acceptor.cpp:268-281).
EveryoneAccepted == \A c \in Conns : client[c] = "here" ~> object[c] # "none"
=============================================================================
