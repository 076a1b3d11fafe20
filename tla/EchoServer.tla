------------------------------ MODULE EchoServer ------------------------------
(***************************************************************************)
(* The echo server of easynet/main.cpp: one thread polls, receives into    *)
(* buffer_ and sends it back; what a full socket does not take is tried    *)
(* once more when there is room.  No handler touches another connection,   *)
(* so one is enough.  The socket is non-blocking: no call is interrupted.  *)
(***************************************************************************)
EXTENDS Naturals, Integers, Sequences, SequencesExt

CONSTANTS
  Chars,        \* what a client sends
  Nul,          \* '\0'
  MAXLINE,      \* longest read
  BufSize,      \* of buffer_
  Room,         \* what the send buffer of the socket takes
  MaxMessage,   \* bound: the longest write of the client
  Messages,     \* bound: writes of the client
  Closes        \* the client closes: "answered" (everything has been echoed), "any" or "never"

EchoAssumption ==
  /\ {MAXLINE, BufSize, Room, MaxMessage, Messages} \subseteq Nat \ {0}
  /\ Nul \notin Chars
  /\ Messages * MaxMessage < BufSize /\ 2 * MAXLINE <= BufSize
  /\ Closes \in {"answered", "any", "never"}

VARIABLES
  client,   \* "away", "here" or "gone"
  asked,    \* writes so far
  sent,     \* all bytes of the client
  flying,   \* those that have not arrived
  readN,    \* bytes it has read
  rx,       \* bytes to receive
  end,      \* "no", "fin" or "rst" has arrived
  out,      \* all bytes put into the socket
  reg,      \* registered for "none", "in" or "out"
  ready,    \* an edge since epoll_wait reported the socket
  object,   \* the EasyConnection: "none", "live" or "deleted"
  buffer_, len,
  pc,       \* where the thread is
  recvNum,
  p, total, \* in the two send loops; p is an index
  killed    \* by SIGPIPE

clientVars == <<client, asked, sent, flying, readN>>
dataVars == <<buffer_, len, recvNum, p, total>>
vars == <<clientVars, rx, end, out, reg, ready, object, dataVars, pc, killed>>

Init ==
  /\ client = "away" /\ asked = 0 /\ sent = <<>> /\ flying = <<>> /\ readN = 0
  /\ rx = <<>> /\ end = "no" /\ out = <<>>
  /\ reg = "none" /\ ready = FALSE /\ object = "none"
  /\ buffer_ = [i \in 1 .. BufSize |-> Nul] /\ len = 0
  /\ pc = "epoll_wait" /\ recvNum = 0 /\ p = 0 /\ total = 0
  /\ killed = FALSE

-----------------------------------------------------------------------------
(* The client and the kernel. *)

Free == Room - (Len(out) - readN)
Readable == rx # <<>> \/ end # "no"
Writable == Free > 0 \/ end = "rst"

\* An edge counts if the socket is registered for it.
Edge(kind) == ready' = (ready \/ reg = kind)

Connect ==
  /\ client = "away" /\ client' = "here"
  /\ UNCHANGED <<asked, sent, flying, readN, rx, end, out, reg, ready, object, dataVars, pc,
                 killed>>

Ask(m) ==
  /\ client = "here" /\ asked < Messages
  /\ asked' = asked + 1
  /\ sent' = sent \o m /\ flying' = flying \o m
  /\ UNCHANGED <<client, readN, rx, end, out, reg, ready, object, dataVars, pc, killed>>

\* What was written arrives in pieces of any length.
Arrive(n) ==
  /\ n \in 1 .. Len(flying)
  /\ rx' = rx \o SubSeq(flying, 1, n) /\ flying' = SubSeq(flying, n + 1, Len(flying))
  /\ Edge("in")
  /\ UNCHANGED <<client, asked, sent, readN, end, out, reg, object, dataVars, pc, killed>>

Read ==
  /\ client = "here" /\ readN < Len(out)
  /\ readN' = Len(out)
  /\ Edge("out")
  /\ UNCHANGED <<client, asked, sent, flying, rx, end, out, reg, object, dataVars, pc, killed>>

Close ==
  /\ client = "here" /\ object # "deleted"
  /\ \/ Closes = "any"
     \/ Closes = "answered" /\ asked > 0 /\ readN = Len(sent)
  /\ client' = "gone"
  /\ UNCHANGED <<asked, sent, flying, readN, rx, end, out, reg, ready, object, dataVars, pc,
                 killed>>

\* Closing with bytes unread is a reset.
EndArrives ==
  /\ client = "gone" /\ flying = <<>> /\ end = "no"
  /\ end' \in {"fin"} \cup {e \in {"rst"} : readN < Len(out)}
  /\ ready' = (ready \/ reg # "none")
  /\ UNCHANGED <<clientVars, rx, out, reg, object, dataVars, pc, killed>>

\* What is sent to a client that closed is answered with a reset.
Reset ==
  /\ client = "gone" /\ end = "fin" /\ object = "live" /\ readN < Len(out)
  /\ end' = "rst"
  /\ ready' = (ready \/ reg # "none")
  /\ UNCHANGED <<clientVars, rx, out, reg, object, dataVars, pc, killed>>

-----------------------------------------------------------------------------
(* The thread. *)

At(where) == pc = where /\ ~killed

AcceptConnection ==
  /\ At("epoll_wait") /\ object = "none" /\ client # "away"
  /\ object' = "live" /\ reg' = "in" /\ ready' = Readable
  /\ UNCHANGED <<clientVars, rx, end, out, dataVars, pc, killed>>

\* epoll_wait takes the socket off the ready list and looks at its state.  A reset is
\* readable and writable whatever is registered, if one of the two is.
Poll ==
  /\ At("epoll_wait") /\ ready /\ reg # "none"
  /\ ready' = FALSE
  /\ \/ /\ reg = "in" /\ Readable
        /\ pc' = "recv" /\ recvNum' = 0
        /\ UNCHANGED <<p, total>>
     \/ /\ reg = "out" /\ Writable
        /\ pc' = "send_message" /\ p' = 0 /\ total' = len
        /\ UNCHANGED recvNum
     \/ /\ IF reg = "in" THEN ~Readable ELSE ~Writable
        /\ UNCHANGED <<pc, recvNum, p, total>>
  /\ UNCHANGED <<clientVars, rx, end, out, reg, object, buffer_, len, killed>>

\* close and delete.  handle_message then returns len out of the freed memory, to a caller
\* that has no use for it: not followed.
Gone ==
  /\ object' = "deleted" /\ reg' = "none" /\ ready' = FALSE
  /\ pc' = "epoll_wait"

\* epoll_ctl(EPOLL_CTL_MOD): a condition that holds already is an edge.
Modify(kind) ==
  /\ reg' = kind
  /\ ready' = IF kind = "in" THEN Readable ELSE Writable

Least(m, n) == IF m < n THEN m ELSE n

\* Mutant: each piece is received to the start of the buffer.
PlacedAtStart(n) == [i \in 1 .. BufSize |-> IF i <= n THEN rx[i] ELSE buffer_[i]]

\* recv into buffer_ + recvNum, where recvNum is the length of the piece before.
Placed(n) ==
  [i \in 1 .. BufSize |-> IF i > recvNum /\ i <= recvNum + n THEN rx[i - recvNum] ELSE buffer_[i]]

\* The end of the message is set, and send_packet entered.
Answer(b, n) ==
  /\ buffer_' = [b EXCEPT ![n + 1] = Nul]
  /\ len' = n
  /\ pc' = "send_packet" /\ p' = 0 /\ total' = n

\* A piece shorter than MAXLINE is the last of a message; len grows from message to message.
RecvPiece ==
  LET n == Least(Len(rx), MAXLINE)
  IN /\ n > 0
     /\ recvNum' = n /\ rx' = SubSeq(rx, n + 1, Len(rx))
     /\ IF n = MAXLINE
        THEN buffer_' = Placed(n) /\ len' = len + n /\ UNCHANGED <<pc, p, total>>
        ELSE Answer(Placed(n), len + n)
     /\ UNCHANGED <<object, reg, ready>>

\* handle_message.
HandleMessage ==
  /\ At("recv")
  /\ \/ RecvPiece
     \/ /\ rx = <<>> /\ end = "no"
        /\ Answer(buffer_, len) /\ recvNum' = -1
        /\ UNCHANGED <<rx, object, reg, ready>>
     \/ /\ rx = <<>> /\ end = "fin"
        /\ Gone /\ UNCHANGED <<rx, dataVars>>
     \/ /\ rx = <<>> /\ end = "rst"
        /\ pc' = "epoll_wait" /\ UNCHANGED <<rx, object, reg, ready, dataVars>>
  /\ UNCHANGED <<clientVars, end, out, killed>>

\* One send of what is left, if there is room.
Sent ==
  LET n == Least(total, Free)
  IN /\ end # "rst" /\ Free > 0
     /\ out' = out \o SubSeq(buffer_, p + 1, p + n)
     /\ p' = p + n /\ total' = total - n
     /\ pc' = IF n = total THEN "epoll_wait" ELSE pc

\* send_packet.  An event for input comes with input or the end of the client, so that there
\* is something to send and send never returns 0, the loop's case for a client that left.
\* Of a reset the loop knows nothing: it sends again and is killed.
SendPacket ==
  /\ At("send_packet")
  /\ \/ Sent /\ UNCHANGED <<reg, ready, object, buffer_, len, recvNum, killed>>
     \/ /\ end # "rst" /\ Free = 0
        /\ len' = total /\ pc' = "full"
        /\ UNCHANGED <<out, reg, ready, object, buffer_, recvNum, p, total, killed>>
     \/ /\ end = "rst" /\ killed' = TRUE
        /\ UNCHANGED <<out, reg, ready, object, dataVars, pc>>
  /\ UNCHANGED <<clientVars, rx, end>>

\* The client may have read in between.
WaitForRoom ==
  /\ At("full") /\ Modify("out") /\ pc' = "epoll_wait"
  /\ UNCHANGED <<clientVars, rx, end, out, object, dataVars, killed>>

\* send_message.  Once everything is sent, or the socket is full again, input is waited for.
\* After a reset it gives up, or is killed if the client had closed before.
SendMessage ==
  /\ At("send_message")
  /\ \/ /\ Sent
        /\ IF pc' = "epoll_wait" THEN Modify("in") ELSE UNCHANGED <<reg, ready>>
        /\ UNCHANGED killed
     \/ /\ end # "rst" /\ Free = 0
        /\ Modify("in") /\ pc' = "epoll_wait" /\ UNCHANGED <<out, p, total, killed>>
     \/ /\ end = "rst"
        /\ pc' = "epoll_wait" /\ killed' \in BOOLEAN
        /\ UNCHANGED <<out, reg, ready, p, total>>
  /\ UNCHANGED <<clientVars, rx, end, object, buffer_, len, recvNum>>

\* The network and the client's kernel.
Network == (\E n \in 1 .. Messages * MaxMessage : Arrive(n)) \/ EndArrives \/ Reset

Client == Connect \/ (\E n \in 1 .. MaxMessage : \E m \in [1 .. n -> Chars] : Ask(m)) \/ Close

Thread == AcceptConnection \/ Poll \/ HandleMessage \/ SendPacket \/ WaitForRoom \/ SendMessage

Next == Client \/ Read \/ Network \/ Thread

Spec == Init /\ [][Next]_vars

\* The thread is scheduled; what is sent arrives, and a client reads it.
FairSpec == Spec /\ WF_vars(Thread) /\ WF_vars(Read) /\ WF_vars(Network)

-----------------------------------------------------------------------------
\* Types; a deleted connection is registered nowhere, a live one is.
TypeOK ==
  /\ client \in {"away", "here", "gone"} /\ asked \in 0 .. Messages
  /\ sent \in Seq(Chars) /\ flying \in Seq(Chars) /\ rx \in Seq(Chars)
  /\ out \in Seq(Chars \union {Nul})
  /\ readN \in 0 .. Len(out)
  /\ end \in {"no", "fin", "rst"} /\ ready \in BOOLEAN /\ killed \in BOOLEAN
  /\ object \in {"none", "live", "deleted"} /\ reg \in {"none", "in", "out"}
  /\ (object = "live") <=> (reg # "none")
  /\ buffer_ \in [1 .. BufSize -> Chars \union {Nul}] /\ len \in 0 .. (BufSize - 1)
  /\ pc \in {"epoll_wait", "recv", "send_packet", "full", "send_message"}
  /\ recvNum \in -1 .. MAXLINE /\ p \in 0 .. BufSize /\ total \in 0 .. BufSize

\* The rest of a message arrives before the thread has found nothing more to read: a message
\* that comes later is received to the start of buffer_, but len is not reset
\* (main.cpp:90, 117).
InTime == pc = "send_packet" => flying = <<>>

\* What a client gets back is what it sent, in order: send_packet sends buffer_ up to len,
\* and send_message the rest of it.
EchoInOrder == IsPrefix(out, sent)

\* "receive all" (main.cpp:125): the message printed then, buffer_ up to len, is what was
\* received.
ReceivedAll ==
  pc = "send_packet" /\ total = len =>
    LET n == Len(sent) - Len(flying) - Len(rx)
    IN SubSeq(buffer_, 1, len) = SubSeq(sent, n - len + 1, n)
=============================================================================
