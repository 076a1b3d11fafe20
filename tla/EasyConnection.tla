---------------------------- MODULE EasyConnection ----------------------------
(***************************************************************************)
(* The _LINUX half of EasyNetwork (easynet's easy_* files are the same):   *)
(* a worker thread polls, receives and sends what a full socket left over; *)
(* the program's main thread (easy_test.cpp) fills an array on its stack   *)
(* and sends it, from time to time.  They share conn_, send_context_,      *)
(* sem_, the socket, and the array.                                        *)
(*                                                                         *)
(* One connection.  Sockets are non-blocking: no call is interrupted.      *)
(***************************************************************************)
EXTENDS Integers, Sequences

CONSTANTS
  Length,     \* of main's array
  Beyond,     \* bytes behind it before the next '\0': the array has none
  Room,       \* what the send buffer of the socket takes
  MAXLINE,    \* longest read
  RecvSize,   \* bytes of recv_context_->buffer_
  Request,    \* bytes a client writes at a time
  Requests,   \* bound: writes of the client
  Sends,      \* bound: messages of main
  Closes      \* the client may close

ConnectionAssumption ==
  /\ {Length, Room, MAXLINE, RecvSize, Request, Requests, Sends} \subseteq Nat \ {0}
  /\ Beyond \in Nat /\ Closes \in BOOLEAN

VARIABLES
  client,     \* "away", "here" or "gone"
  asked, readN, \* writes of the client, and bytes it has read
  rx, end,    \* bytes to receive; "no", "fin" or "rst" has arrived
  out,        \* all bytes put into the socket
  socket_,    \* "none", "open" or "closed"
  reg, ready, \* registered for "none", "in" or "out"; an edge since it was last reported
  conn_,      \* it has been set
  ch,         \* main's array and what is behind it
  buffer_, len_, sem, \* send_context_ (buffer_ as an index into ch) and sem_
  main, i, n, \* main: where it is, the element it fills, the length it sends
  given,      \* history: bytes passed to SendMessage, and messages
  worker,     \* where it is
  p, total,   \* in its SendMessage
  recvNum, rlen, overrun, \* in HandleMessage: recv_context_->len_; written behind its end
  killed      \* by SIGPIPE

clientVars == <<client, asked, readN>>
epollVars == <<reg, ready>>
sendVars == <<ch, buffer_, len_, sem>>
mainVars == <<main, i, n, given>>
recvVars == <<recvNum, rlen, overrun>>
workerVars == <<worker, p, total>>
vars == <<clientVars, rx, end, out, socket_, epollVars, conn_, sendVars, mainVars, workerVars,
          recvVars, killed>>

Places == 1 .. (Length + Beyond)

Init ==
  /\ client = "away" /\ asked = 0 /\ readN = 0
  /\ rx = 0 /\ end = "no" /\ out = <<>> /\ socket_ = "none"
  /\ reg = "none" /\ ready = FALSE /\ conn_ = FALSE
  /\ ch = [j \in Places |-> "other"] /\ buffer_ = 0 /\ len_ = 0 /\ sem = 1
  /\ main = "sleep" /\ i = 0 /\ n = 0 /\ given = [bytes |-> 0, messages |-> 0]
  /\ worker = "epoll_wait" /\ p = 0 /\ total = 0
  /\ recvNum = 0 /\ rlen = 0 /\ overrun = FALSE
  /\ killed = FALSE

-----------------------------------------------------------------------------
(* The client and the kernel. *)

Free == Room - (Len(out) - readN)
Readable == rx > 0 \/ end # "no"
Writable == Free > 0 \/ end = "rst"
Least(k, l) == IF k < l THEN k ELSE l

\* An edge counts if the socket is registered for it.
Edge(kind) == ready' = (ready \/ reg = kind)

\* EPOLL_CTL_MOD: a condition that holds already is an edge.  A closed socket is unknown.
Modify(kind) ==
  IF socket_ = "open"
  THEN reg' = kind /\ ready' = (IF kind = "in" THEN Readable ELSE Writable)
  ELSE UNCHANGED epollVars

Connect ==
  /\ client = "away" /\ client' = "here"
  /\ UNCHANGED <<asked, readN, rx, end, out, socket_, epollVars, conn_, sendVars, mainVars,
                 workerVars, recvVars, killed>>

Ask ==
  /\ client = "here" /\ asked < Requests
  /\ asked' = asked + 1 /\ rx' = rx + Request
  /\ Edge("in")
  /\ UNCHANGED <<client, readN, end, out, socket_, reg, conn_, sendVars, mainVars, workerVars,
                 recvVars, killed>>

Read ==
  /\ client = "here" /\ readN < Len(out)
  /\ readN' = Len(out)
  /\ Edge("out")
  /\ UNCHANGED <<client, asked, rx, end, out, socket_, reg, conn_, sendVars, mainVars, workerVars,
                 recvVars, killed>>

\* Closing with bytes unread is a reset.
Close ==
  /\ Closes /\ client = "here"
  /\ client' = "gone"
  /\ end' = IF readN < Len(out) THEN "rst" ELSE "fin"
  /\ ready' = (ready \/ reg # "none")
  /\ UNCHANGED <<asked, readN, rx, out, socket_, reg, conn_, sendVars, mainVars, workerVars,
                 recvVars, killed>>

\* What is sent to a client that closed is answered with a reset.
Reset ==
  /\ client = "gone" /\ end = "fin" /\ readN < Len(out)
  /\ end' = "rst"
  /\ ready' = (ready \/ reg # "none")
  /\ UNCHANGED <<clientVars, rx, out, socket_, reg, conn_, sendVars, mainVars, workerVars,
                 recvVars, killed>>

CloseSocket == socket_' = "closed" /\ reg' = "none" /\ ready' = FALSE

\* send of up to k bytes at place j: what the socket takes of them now.
Takes(j, k) == /\ socket_ = "open" /\ end # "rst" /\ Free > 0
               /\ out' = out \o SubSeq(ch, j, j + Least(k, Free) - 1)

EAGAIN == socket_ = "open" /\ end # "rst" /\ Free = 0

\* The loops take a reset for something to try again: SIGPIPE.
Pipe == socket_ = "open" /\ end = "rst" /\ killed' = TRUE

-----------------------------------------------------------------------------
(* The main thread. *)

MainAt(where) == main = where /\ ~killed

\* if (conn_), and a new array, in the old one's place.
NewArray ==
  /\ MainAt("sleep") /\ conn_ /\ given.messages < Sends
  /\ ch' = [j \in Places |-> IF j <= Length THEN "0" ELSE ch[j]]
  /\ main' = "fill" /\ i' = 1
  /\ UNCHANGED <<clientVars, rx, end, out, socket_, epollVars, conn_, buffer_, len_, sem, n, given,
                 workerVars, recvVars, killed>>

Fill ==
  /\ MainAt("fill")
  /\ ch' = [ch EXCEPT ![i] = "a"] /\ i' = i + 1
  /\ main' = IF i = Length THEN "strlen" ELSE main
  /\ UNCHANGED <<clientVars, rx, end, out, socket_, epollVars, conn_, buffer_, len_, sem, n, given,
                 workerVars, recvVars, killed>>

StrLen ==
  /\ MainAt("strlen")
  /\ n' \in 0 .. (Length + Beyond)
  /\ \A j \in 1 .. n' : ch[j] # "0"
  /\ n' < Length + Beyond => ch[n' + 1] = "0"
  /\ main' = "sem_wait"
  /\ UNCHANGED <<clientVars, rx, end, out, socket_, epollVars, conn_, sendVars, i, given,
                 workerVars, recvVars, killed>>

\* SendMessage(buffer, len), up to its loop.
SemWait ==
  /\ MainAt("sem_wait") /\ sem = 1
  /\ sem' = 0 /\ buffer_' = 1 /\ len_' = n /\ main' = "send"
  /\ given' = [bytes |-> given.bytes + n, messages |-> given.messages + 1]
  /\ UNCHANGED <<clientVars, rx, end, out, socket_, epollVars, conn_, ch, i, n, workerVars,
                 recvVars, killed>>

\* One send of its loop.  Sending nothing returns 0, as if the client had left; a closed
\* socket is asked for ever.
MainSend ==
  /\ MainAt("send")
  /\ \/ /\ len_ > 0 /\ Takes(buffer_, len_)
        /\ IF len_ <= Free
           THEN /\ ch' = [ch EXCEPT ![buffer_] = "0"] /\ len_' = 0 /\ main' = "post"
                /\ UNCHANGED buffer_
           ELSE buffer_' = buffer_ + Free /\ len_' = len_ - Free /\ UNCHANGED <<ch, main>>
        /\ UNCHANGED <<socket_, epollVars, killed>>
     \/ /\ len_ = 0 /\ socket_ = "open" /\ end # "rst"
        /\ CloseSocket /\ main' = "post"
        /\ UNCHANGED <<out, ch, buffer_, len_, killed>>
     \/ /\ len_ > 0 /\ EAGAIN /\ main' = "full"
        /\ UNCHANGED <<out, ch, buffer_, len_, socket_, epollVars, killed>>
     \/ /\ Pipe /\ UNCHANGED <<out, ch, buffer_, len_, socket_, epollVars, main>>
     \/ /\ socket_ = "closed" /\ main' = "looping"
        /\ UNCHANGED <<out, ch, buffer_, len_, socket_, epollVars, killed>>
  /\ UNCHANGED <<clientVars, rx, end, conn_, sem, i, n, given, workerVars, recvVars>>

\* sem_ stays taken, for the worker to post.
WaitForRoom ==
  /\ MainAt("full") /\ Modify("out") /\ main' = "sleep"
  /\ UNCHANGED <<clientVars, rx, end, out, socket_, conn_, sendVars, i, n, given, workerVars,
                 recvVars, killed>>

MainPost ==
  /\ MainAt("post") /\ sem' = sem + 1 /\ main' = "sleep"
  /\ UNCHANGED <<clientVars, rx, end, out, socket_, epollVars, conn_, ch, buffer_, len_, i, n,
                 given, workerVars, recvVars, killed>>

Main == NewArray \/ Fill \/ StrLen \/ SemWait \/ MainSend \/ WaitForRoom \/ MainPost

-----------------------------------------------------------------------------
(* The worker thread. *)

At(where) == worker = where /\ ~killed

AcceptConnection ==
  /\ At("epoll_wait") /\ socket_ = "none" /\ client # "away"
  /\ socket_' = "open" /\ reg' = "in" /\ ready' = Readable
  /\ UNCHANGED <<clientVars, rx, end, out, conn_, sendVars, mainVars, workerVars, recvVars, killed>>

\* epoll_wait takes the socket off the ready list and looks at its state.  SendMessage()
\* with nothing left returns at once.
Poll ==
  /\ At("epoll_wait") /\ ready /\ reg # "none"
  /\ ready' = FALSE
  /\ \/ /\ reg = "in" /\ Readable
        /\ conn_' = TRUE /\ worker' = "recv" /\ recvNum' = 0 /\ rlen' = 0
        /\ UNCHANGED <<p, total>>
     \/ /\ reg = "out" /\ Writable
        /\ IF len_ = 0 THEN UNCHANGED workerVars
                       ELSE worker' = "send" /\ p' = buffer_ /\ total' = len_
        /\ UNCHANGED <<conn_, recvNum, rlen>>
     \/ /\ IF reg = "in" THEN ~Readable ELSE ~Writable
        /\ UNCHANGED <<conn_, workerVars, recvNum, rlen>>
  /\ UNCHANGED <<clientVars, rx, end, out, socket_, reg, sendVars, mainVars, overrun, killed>>

\* HandleMessage: pieces of MAXLINE until a shorter one, each received behind the piece
\* before, and '\0' behind all of them.
HandleMessage ==
  /\ At("recv")
  /\ \/ /\ rx > 0
        /\ recvNum' = Least(rx, MAXLINE) /\ rx' = rx - recvNum' /\ rlen' = rlen + recvNum'
        /\ overrun' = \/ overrun \/ recvNum + recvNum' > RecvSize
                      \/ recvNum' < MAXLINE /\ rlen' >= RecvSize
        /\ worker' = IF recvNum' = MAXLINE THEN worker ELSE "epoll_wait"
        /\ UNCHANGED <<socket_, epollVars>>
     \/ /\ rx = 0 /\ end = "no"
        /\ overrun' = (overrun \/ rlen >= RecvSize) /\ worker' = "epoll_wait"
        /\ UNCHANGED <<rx, recvNum, rlen, socket_, epollVars>>
     \/ /\ rx = 0 /\ end = "fin"
        /\ CloseSocket /\ worker' = "epoll_wait"
        /\ UNCHANGED <<rx, recvVars>>
     \/ /\ rx = 0 /\ end = "rst"
        /\ worker' = "epoll_wait"
        /\ UNCHANGED <<rx, recvVars, socket_, epollVars>>
  /\ UNCHANGED <<clientVars, end, out, conn_, sendVars, mainVars, p, total, killed>>

\* One send of SendMessage().  A full socket ends it as if everything had been sent.
WorkerSend ==
  /\ At("send")
  /\ \/ /\ Takes(p, total)
        /\ p' = p + Least(total, Free) /\ total' = total - Least(total, Free)
        /\ worker' = IF total' = 0 THEN "sent" ELSE worker
        /\ UNCHANGED killed
     \/ EAGAIN /\ worker' = "sent" /\ UNCHANGED <<out, p, total, killed>>
     \/ Pipe /\ UNCHANGED <<out, workerVars>>
  /\ UNCHANGED <<clientVars, rx, end, socket_, epollVars, conn_, sendVars, mainVars, recvVars>>

\* send_context_ is emptied, the first byte of what it held, in main's array, set to '\0'.
WorkerSent ==
  /\ At("sent") /\ worker' = "listen"
  /\ ch' = [ch EXCEPT ![buffer_] = "0"] /\ len_' = 0
  /\ UNCHANGED <<clientVars, rx, end, out, socket_, epollVars, conn_, buffer_, sem, mainVars,
                 p, total, recvVars, killed>>

\* Mutant: sem_ is not posted.
WorkerListenNoPost ==
  /\ At("listen") /\ worker' = "epoll_wait"
  /\ Modify("in")
  /\ UNCHANGED <<clientVars, rx, end, out, socket_, conn_, sendVars, mainVars, p, total, recvVars,
                 killed>>

\* Main may go on at the sem_post behind it.
WorkerListen ==
  /\ At("listen") /\ worker' = "epoll_wait"
  /\ Modify("in") /\ sem' = sem + 1
  /\ UNCHANGED <<clientVars, rx, end, out, socket_, conn_, ch, buffer_, len_, mainVars,
                 p, total, recvVars, killed>>

WorkerThread ==
  AcceptConnection \/ Poll \/ HandleMessage \/ WorkerSend \/ WorkerSent \/ WorkerListen

Next == Connect \/ Ask \/ Read \/ Close \/ Reset \/ Main \/ WorkerThread

Spec == Init /\ [][Next]_vars

\* Both threads are scheduled; a client reads what it is sent, its kernel resets when it left.
FairSpec == Spec /\ WF_vars(Main) /\ WF_vars(WorkerThread) /\ WF_vars(Read) /\ WF_vars(Reset)

-----------------------------------------------------------------------------
\* Types; what a context has left lies in the array.
TypeOK ==
  /\ client \in {"away", "here", "gone"} /\ asked \in 0 .. Requests /\ readN \in 0 .. Len(out)
  /\ rx \in Nat /\ end \in {"no", "fin", "rst"} /\ out \in Seq({"a", "0", "other"})
  /\ socket_ \in {"none", "open", "closed"} /\ (socket_ = "open" <=> reg # "none")
  /\ reg \in {"none", "in", "out"} /\ ready \in BOOLEAN /\ conn_ \in BOOLEAN
  /\ ch \in [Places -> {"a", "0", "other"}]
  /\ buffer_ \in 0 .. (Length + Beyond) /\ len_ \in Nat /\ buffer_ + len_ <= Length + Beyond + 1
  /\ sem \in {0, 1}
  /\ main \in {"sleep", "fill", "strlen", "sem_wait", "send", "full", "post", "looping"}
  /\ i \in 0 .. (Length + 1) /\ n \in 0 .. (Length + Beyond)
  /\ given.bytes \in Nat /\ given.messages \in 0 .. Sends
  /\ worker \in {"epoll_wait", "recv", "send", "sent", "listen"}
  /\ p \in Nat /\ total \in Nat
  /\ recvNum \in 0 .. MAXLINE /\ rlen \in Nat /\ overrun \in BOOLEAN /\ killed \in BOOLEAN

Sending == main \in {"send", "full", "post"}
SendingLeft == worker \in {"send", "sent", "listen"}

\* Main and the worker never send at the same time, though sem_ is taken by one and
\* posted by the other: what is in the socket is never mixed of two messages.
OneSender == ~(Sending /\ SendingLeft)

\* While main's message is not sent, and sem_ taken, somebody is on it: main, the worker,
\* or a registration for output.  (A message whose socket is closed is nobody's.)
LeftIsWaited ==
  sem = 0 => Sending \/ SendingLeft \/ reg = "out" \/ socket_ = "closed"

\* "send the left" (easy_connection.cpp:256): when sem_ is posted, all of it has been sent.
AllSent == sem = 1 => Len(out) = given.bytes

\* What is sent is what main fills its array with: ch[i] = 'a' (easy_test.cpp:17).
OnlyFilled == \A j \in 1 .. Len(out) : out[j] = "a"

\* "close and leave" (easy_connection.cpp:223): a closed connection is left, not sent to.
LeftAlone == main # "looping"

\* "sendmessage close and leave" (easy_connection.cpp:341): only of a client that left is the
\* socket closed.
ClosesLeft == socket_ = "closed" => end # "no"

\* "hit maxline, continue" (easy_connection.cpp:231): it can continue.
NoOverrun == ~overrun
=============================================================================
