--------------------------- MODULE PrototypesProofs ---------------------------
(***************************************************************************)
(* Proofs about the predecessors of the library, for all sizes of the      *)
(* messages and sockets, any number of messages, connections and threads.  *)
(***************************************************************************)
EXTENDS MCPrototypes, SequenceTheorems, TLAPS

-----------------------------------------------------------------------------
(* EasyNetwork on epoll: main and the worker take turns by sem_.           *)

OfConn == setup \in {"conn", "stay"}

Places == 1 .. (Length + Beyond)
Bytes == {"a", "0", "other"}

\* The types, in parts.  What is left lies in the array, also what the worker sends of it.
NetTypes ==
  /\ client \in {"away", "here", "gone"} /\ asked \in 0 .. Requests /\ rx \in Nat
  /\ end \in {"no", "fin", "rst"} /\ killed \in BOOLEAN
OutTypes == out \in Seq(Bytes) /\ readN \in 0 .. Len(out)
SocketTypes ==
  /\ socket_ \in {"none", "open", "closed"} /\ (socket_ = "open" <=> reg # "none")
  /\ reg \in {"none", "in", "out"} /\ ready \in BOOLEAN /\ conn_ \in BOOLEAN
LeftTypes ==
  /\ ch \in [Places -> Bytes]
  /\ buffer_ \in 0 .. (Length + Beyond) /\ len_ \in Nat /\ buffer_ + len_ <= Length + Beyond + 1
  /\ len_ > 0 => buffer_ > 0
  /\ sem \in {0, 1}
MainTypes ==
  /\ main \in {"sleep", "fill", "strlen", "sem_wait", "send", "full", "post", "looping"}
  /\ i \in 0 .. (Length + 1) /\ n \in 0 .. (Length + Beyond)
  /\ given \in [bytes : Nat, messages : 0 .. Sends]
  /\ main = "fill" => i \in 1 .. Length
  /\ main \in {"fill", "strlen", "sem_wait"} => given.messages < Sends
WorkTypes ==
  /\ worker \in {"epoll_wait", "recv", "send", "sent", "listen"}
  /\ p \in Nat /\ total \in Nat
  /\ worker = "send" => p > 0 /\ p + total <= Length + Beyond + 1
  /\ recvNum \in 0 .. MAXLINE /\ rlen \in Nat /\ overrun \in BOOLEAN

ConnTypes ==
  NetTypes /\ OutTypes /\ SocketTypes /\ LeftTypes /\ MainTypes /\ WorkTypes

\* Whoever sends has sem_.  Main hands it on with a registration for output, which the
\* worker keeps until it posts sem_.
SemOK ==
  /\ main \in {"send", "full", "post", "looping"} => sem = 0 /\ reg # "out"
  /\ worker \in {"send", "sent", "listen"} => sem = 0 /\ reg = "out"
  /\ reg = "out" => sem = 0
  /\ main = "looping" => socket_ = "closed"
  /\ main # "sleep" => conn_
  /\ conn_ => socket_ # "none"
  /\ Conn!LeftIsWaited

ConnInv == ConnTypes /\ SemOK

ConnStep == Conn!Next \/ UNCHANGED easyConnVars

LEMMA ConnSizes ==
  /\ Length \in Nat \ {0} /\ Beyond \in Nat /\ Room \in Nat \ {0} /\ MAXLINE \in Nat \ {0}
  /\ RecvSize \in Nat \ {0} /\ Request \in Nat \ {0} /\ Requests \in Nat \ {0}
  /\ Sends \in Nat \ {0}
BY Instances DEF Conn!ConnectionAssumption

\* The room in the socket; what a receive and a send take.
LEMMA FreeIs == ConnTypes => Conn!Free \in Int
BY ConnSizes DEF ConnTypes, OutTypes, Conn!Free

LEMMA Received ==
  ConnTypes /\ rx > 0 => Conn!Least(rx, MAXLINE) \in 1 .. MAXLINE /\ Conn!Least(rx, MAXLINE) <= rx
BY ConnSizes DEF ConnTypes, NetTypes, Conn!Least

LEMMA TakesTypes ==
  ASSUME ConnTypes, readN' = readN, NEW j \in Nat \ {0}, NEW k \in Nat,
         j + k <= Length + Beyond + 1, Conn!Takes(j, k)
  PROVE  OutTypes'
<1>1. PICK f \in Nat \ {0} : f = Conn!Free
  BY FreeIs DEF Conn!Takes
<1>2. PICK l \in 0 .. k : l = Conn!Least(k, Conn!Free)
  BY <1>1 DEF Conn!Least
<1>3. ch \in Seq(Bytes) /\ Len(ch) = Length + Beyond
  <2>1. Length + Beyond \in Nat
    BY ConnSizes
  <2>2. ch \in [1 .. Length + Beyond -> Bytes]
    BY DEF ConnTypes, LeftTypes, Places
  <2> QED
    BY <2>1, <2>2
<1>4. SubSeq(ch, j, j + l - 1) \in Seq(Bytes)
  <2>1. j \in 1 .. Len(ch) + 1 /\ j + l - 1 \in j - 1 .. Len(ch)
    BY <1>2, <1>3, ConnSizes
  <2> QED
    BY <1>3, <2>1, SubSeqProperties
<1>5. out' = out \o SubSeq(ch, j, j + l - 1)
  BY <1>2 DEF Conn!Takes
<1>6. out' \in Seq(Bytes) /\ Len(out') >= Len(out)
  <2>1. out \in Seq(Bytes) /\ Len(out) \in Nat /\ Len(SubSeq(ch, j, j + l - 1)) \in Nat
    BY <1>4, LenProperties DEF ConnTypes, OutTypes
  <2>2. Len(out') = Len(out) + Len(SubSeq(ch, j, j + l - 1)) /\ out' \in Seq(Bytes)
    BY <1>4, <1>5, <2>1, ConcatProperties
  <2> QED
    BY <2>1, <2>2
<1> QED
  BY <1>6, LenProperties DEF ConnTypes, OutTypes

\* Emptying send_context_ leaves its array typed.
LEMMA CutTypes ==
  ASSUME LeftTypes, ch' = [ch EXCEPT ![buffer_] = "0"], len_' = 0, buffer_' = buffer_, sem' = sem
  PROVE  LeftTypes'
<1>1. ch' \in [Places -> Bytes]
  BY DEF LeftTypes, Bytes
<1>2. buffer_ + 0 <= Length + Beyond + 1
  BY ConnSizes DEF LeftTypes
<1> QED
  BY <1>1, <1>2 DEF LeftTypes

\* One receive, whatever it returns.
LEMMA ReceivedTypes ==
  ASSUME ConnTypes, Conn!HandleMessage
  PROVE  /\ rx' \in Nat /\ recvNum' \in 0 .. MAXLINE /\ rlen' \in Nat /\ overrun' \in BOOLEAN
         /\ worker' \in {"recv", "epoll_wait"} /\ UNCHANGED <<p, total>>
<1> USE ConnSizes DEF ConnTypes, NetTypes, WorkTypes
<1>1. worker = "recv" /\ UNCHANGED <<p, total>>
  BY DEF Conn!HandleMessage, Conn!At
<1>2. CASE rx > 0
  <2>1. PICK k \in 1 .. MAXLINE : k = Conn!Least(rx, MAXLINE) /\ k <= rx
    BY <1>2, Received
  <2>2. rx # 0
    BY <1>2
  <2>3. /\ recvNum' = Conn!Least(rx, MAXLINE) /\ rx' = rx - recvNum' /\ rlen' = rlen + recvNum'
        /\ overrun' = \/ overrun \/ recvNum + recvNum' > RecvSize
                      \/ recvNum' < MAXLINE /\ rlen' >= RecvSize
        /\ worker' = IF recvNum' = MAXLINE THEN worker ELSE "epoll_wait"
    BY <2>2, Zenon DEF Conn!HandleMessage
  <2>4. overrun' \in BOOLEAN
    BY <2>3
  <2>5. worker' \in {"recv", "epoll_wait"}
    BY <1>1, <2>3
  <2> QED
    BY <1>1, <2>1, <2>3, <2>4, <2>5
<1>3. CASE rx = 0
  <2>1. ~(rx > 0)
    BY <1>3
  <2>2. UNCHANGED <<rx, recvNum, rlen>> /\ worker' = "epoll_wait"
    BY <2>1, Zenon DEF Conn!HandleMessage, Conn!recvVars
  <2>3. overrun' \in {overrun, (overrun \/ rlen >= RecvSize)}
    BY <2>1, Zenon DEF Conn!HandleMessage, Conn!recvVars
  <2>4. overrun' \in BOOLEAN
    BY <2>3
  <2> QED
    BY <1>1, <2>2, <2>4
<1> QED
  BY <1>2, <1>3

\* The semaphore.
LEMMA SemStep == ConnInv /\ ConnStep => SemOK'
<1> SUFFICES ASSUME ConnInv, ConnStep PROVE SemOK'
  OBVIOUS
<1> USE ConnSizes DEF ConnInv, ConnTypes, NetTypes, SocketTypes, LeftTypes, MainTypes,
            WorkTypes, SemOK, Conn!LeftIsWaited, Conn!Sending, Conn!SendingLeft,
            Conn!clientVars, Conn!epollVars, Conn!sendVars, Conn!mainVars, Conn!workerVars,
            Conn!recvVars
<1>1. CASE Conn!Connect
  BY <1>1 DEF Conn!Connect
<1>2. CASE Conn!Ask
  BY <1>2 DEF Conn!Ask, Conn!Edge
<1>3. CASE Conn!Read
  BY <1>3 DEF Conn!Read, Conn!Edge
<1>4. CASE Conn!Close
  BY <1>4 DEF Conn!Close
<1>5. CASE Conn!Reset
  BY <1>5 DEF Conn!Reset
<1>6. CASE Conn!NewArray
  BY <1>6 DEF Conn!NewArray, Conn!MainAt
<1>7. CASE Conn!Fill
  BY <1>7 DEF Conn!Fill, Conn!MainAt
<1>8. CASE Conn!StrLen
  BY <1>8 DEF Conn!StrLen, Conn!MainAt
<1>9. CASE Conn!SemWait
  BY <1>9 DEF Conn!SemWait, Conn!MainAt
<1>10. CASE Conn!MainSend
  BY <1>10 DEF Conn!MainSend, Conn!MainAt, Conn!Takes, Conn!EAGAIN, Conn!Pipe, Conn!CloseSocket
<1>11. CASE Conn!WaitForRoom
  <2>1. main = "full" /\ main' = "sleep"
    BY <1>11 DEF Conn!WaitForRoom, Conn!MainAt
  <2>2. conn_ /\ sem = 0 /\ reg # "out" /\ socket_ # "none"
    BY <2>1
  <2>3. UNCHANGED <<sem, conn_, socket_, worker>>
    BY <1>11 DEF Conn!WaitForRoom
  <2>4. CASE socket_ = "open"
    <3>1. reg' = "out"
      BY <1>11, <2>4 DEF Conn!WaitForRoom, Conn!Modify
    <3> QED
      BY <2>1, <2>2, <2>3, <3>1
  <2>5. CASE socket_ # "open"
    <3>1. reg' = reg
      BY <1>11, <2>5 DEF Conn!WaitForRoom, Conn!Modify
    <3>2. socket_ = "closed" /\ reg = "none"
      BY <2>2, <2>5
    <3> QED
      BY <2>1, <2>2, <2>3, <3>1, <3>2
  <2> QED
    BY <2>4, <2>5
<1>12. CASE Conn!MainPost
  BY <1>12 DEF Conn!MainPost, Conn!MainAt
<1>13. CASE Conn!AcceptConnection
  BY <1>13 DEF Conn!AcceptConnection, Conn!At
<1>14. CASE Conn!Poll
  BY <1>14 DEF Conn!Poll, Conn!At
<1>15. CASE Conn!HandleMessage
  BY <1>15 DEF Conn!HandleMessage, Conn!At, Conn!CloseSocket, Conn!Least
<1>16. CASE Conn!WorkerSend
  BY <1>16 DEF Conn!WorkerSend, Conn!At, Conn!Takes, Conn!EAGAIN, Conn!Pipe, Conn!Least
<1>17. CASE Conn!WorkerSent
  BY <1>17 DEF Conn!WorkerSent, Conn!At
<1>18. CASE Conn!WorkerListen
  BY <1>18 DEF Conn!WorkerListen, Conn!At, Conn!Modify
<1>19. CASE UNCHANGED easyConnVars
  BY <1>19 DEF easyConnVars, netVars, connVars
<1> QED
  BY <1>1, <1>2, <1>3, <1>4, <1>5, <1>6, <1>7, <1>8, <1>9, <1>10, <1>11, <1>12, <1>13, <1>14,
     <1>15, <1>16, <1>17, <1>18, <1>19
  DEF ConnStep, Conn!Next, Conn!Main, Conn!WorkerThread

\* The client and its bytes.
LEMMA NetStep == ConnInv /\ ConnStep => NetTypes'
<1> SUFFICES ASSUME ConnInv, ConnStep PROVE NetTypes'
  OBVIOUS
<1> USE ConnSizes DEF ConnInv, ConnTypes, NetTypes, WorkTypes, Conn!clientVars, Conn!epollVars,
            Conn!sendVars, Conn!mainVars, Conn!workerVars, Conn!recvVars
<1>1. CASE Conn!Connect
  BY <1>1 DEF Conn!Connect
<1>2. CASE Conn!Ask
  BY <1>2 DEF Conn!Ask, Conn!Edge
<1>3. CASE Conn!Read
  BY <1>3 DEF Conn!Read, Conn!Edge
<1>4. CASE Conn!Close
  BY <1>4 DEF Conn!Close
<1>5. CASE Conn!Reset
  BY <1>5 DEF Conn!Reset
<1>6. CASE Conn!NewArray
  BY <1>6 DEF Conn!NewArray, Conn!MainAt
<1>7. CASE Conn!Fill
  BY <1>7 DEF Conn!Fill, Conn!MainAt
<1>8. CASE Conn!StrLen
  BY <1>8 DEF Conn!StrLen, Conn!MainAt
<1>9. CASE Conn!SemWait
  BY <1>9 DEF Conn!SemWait, Conn!MainAt
<1>10. CASE Conn!MainSend
  BY <1>10 DEF Conn!MainSend, Conn!MainAt, Conn!Takes, Conn!EAGAIN, Conn!Pipe, Conn!CloseSocket
<1>11. CASE Conn!WaitForRoom
  BY <1>11 DEF Conn!WaitForRoom, Conn!MainAt, Conn!Modify
<1>12. CASE Conn!MainPost
  BY <1>12 DEF Conn!MainPost, Conn!MainAt
<1>13. CASE Conn!AcceptConnection
  BY <1>13 DEF Conn!AcceptConnection, Conn!At
<1>14. CASE Conn!Poll
  BY <1>14 DEF Conn!Poll, Conn!At
<1>15. CASE Conn!HandleMessage
  BY <1>15, ReceivedTypes DEF Conn!HandleMessage
<1>16. CASE Conn!WorkerSend
  BY <1>16 DEF Conn!WorkerSend, Conn!At, Conn!Takes, Conn!EAGAIN, Conn!Pipe, Conn!Least
<1>17. CASE Conn!WorkerSent
  BY <1>17 DEF Conn!WorkerSent, Conn!At
<1>18. CASE Conn!WorkerListen
  BY <1>18 DEF Conn!WorkerListen, Conn!At, Conn!Modify
<1>19. CASE UNCHANGED easyConnVars
  BY <1>19 DEF easyConnVars, netVars, connVars
<1> QED
  BY <1>1, <1>2, <1>3, <1>4, <1>5, <1>6, <1>7, <1>8, <1>9, <1>10, <1>11, <1>12, <1>13, <1>14,
     <1>15, <1>16, <1>17, <1>18, <1>19
  DEF ConnStep, Conn!Next, Conn!Main, Conn!WorkerThread

\* What has been put into the socket.
LEMMA OutStep == ConnInv /\ ConnStep => OutTypes'
<1> SUFFICES ASSUME ConnInv, ConnStep PROVE OutTypes'
  OBVIOUS
<1> USE ConnSizes DEF ConnInv, ConnTypes, OutTypes, LeftTypes, WorkTypes, Conn!clientVars,
            Conn!epollVars, Conn!sendVars, Conn!mainVars, Conn!workerVars, Conn!recvVars
<1>1. CASE Conn!Connect
  BY <1>1 DEF Conn!Connect
<1>2. CASE Conn!Ask
  BY <1>2 DEF Conn!Ask, Conn!Edge
<1>3. CASE Conn!Read
  BY <1>3 DEF Conn!Read, Conn!Edge
<1>4. CASE Conn!Close
  BY <1>4 DEF Conn!Close
<1>5. CASE Conn!Reset
  BY <1>5 DEF Conn!Reset
<1>6. CASE Conn!NewArray
  BY <1>6 DEF Conn!NewArray, Conn!MainAt
<1>7. CASE Conn!Fill
  BY <1>7 DEF Conn!Fill, Conn!MainAt
<1>8. CASE Conn!StrLen
  BY <1>8 DEF Conn!StrLen, Conn!MainAt
<1>9. CASE Conn!SemWait
  BY <1>9 DEF Conn!SemWait, Conn!MainAt
<1>10. CASE Conn!MainSend
  <2>1. readN' = readN
    BY <1>10 DEF Conn!MainSend
  <2>2. CASE UNCHANGED out
    BY <2>1, <2>2
  <2>3. CASE len_ > 0 /\ Conn!Takes(buffer_, len_)
    <3>1. /\ buffer_ \in 1 .. Length + Beyond /\ len_ \in Nat \ {0}
          /\ buffer_ + len_ <= Length + Beyond + 1
      BY <2>3
    <3> QED
      BY <2>1, <2>3, <3>1, TakesTypes
  <2> QED
    BY <1>10, <2>2, <2>3 DEF Conn!MainSend, Conn!Pipe
<1>11. CASE Conn!WaitForRoom
  BY <1>11 DEF Conn!WaitForRoom, Conn!MainAt, Conn!Modify
<1>12. CASE Conn!MainPost
  BY <1>12 DEF Conn!MainPost, Conn!MainAt
<1>13. CASE Conn!AcceptConnection
  BY <1>13 DEF Conn!AcceptConnection, Conn!At
<1>14. CASE Conn!Poll
  BY <1>14 DEF Conn!Poll, Conn!At
<1>15. CASE Conn!HandleMessage
  BY <1>15 DEF Conn!HandleMessage, Conn!At, Conn!CloseSocket, Conn!Least
<1>16. CASE Conn!WorkerSend
  <2>1. readN' = readN
    BY <1>16 DEF Conn!WorkerSend
  <2>2. CASE UNCHANGED out
    BY <2>1, <2>2
  <2>3. CASE Conn!Takes(p, total)
    <3>1. /\ p \in Nat \ {0} /\ total \in Nat
          /\ p + total <= Length + Beyond + 1
      BY <1>16 DEF Conn!WorkerSend, Conn!At
    <3> QED
      BY <2>1, <2>3, <3>1, TakesTypes
  <2> QED
    BY <1>16, <2>2, <2>3 DEF Conn!WorkerSend
<1>17. CASE Conn!WorkerSent
  BY <1>17 DEF Conn!WorkerSent, Conn!At
<1>18. CASE Conn!WorkerListen
  BY <1>18 DEF Conn!WorkerListen, Conn!At, Conn!Modify
<1>19. CASE UNCHANGED easyConnVars
  BY <1>19 DEF easyConnVars, netVars, connVars
<1> QED
  BY <1>1, <1>2, <1>3, <1>4, <1>5, <1>6, <1>7, <1>8, <1>9, <1>10, <1>11, <1>12, <1>13, <1>14,
     <1>15, <1>16, <1>17, <1>18, <1>19
  DEF ConnStep, Conn!Next, Conn!Main, Conn!WorkerThread

\* The socket and its registration.
LEMMA SocketStep == ConnInv /\ ConnStep => SocketTypes'
<1> SUFFICES ASSUME ConnInv, ConnStep PROVE SocketTypes'
  OBVIOUS
<1> USE ConnSizes DEF ConnInv, ConnTypes, SocketTypes, NetTypes, Conn!Readable, Conn!Writable,
            Conn!clientVars, Conn!epollVars, Conn!sendVars, Conn!mainVars, Conn!workerVars,
            Conn!recvVars
<1>1. CASE Conn!Connect
  BY <1>1 DEF Conn!Connect
<1>2. CASE Conn!Ask
  BY <1>2 DEF Conn!Ask, Conn!Edge
<1>3. CASE Conn!Read
  BY <1>3 DEF Conn!Read, Conn!Edge
<1>4. CASE Conn!Close
  BY <1>4 DEF Conn!Close
<1>5. CASE Conn!Reset
  BY <1>5 DEF Conn!Reset
<1>6. CASE Conn!NewArray
  BY <1>6 DEF Conn!NewArray, Conn!MainAt
<1>7. CASE Conn!Fill
  BY <1>7 DEF Conn!Fill, Conn!MainAt
<1>8. CASE Conn!StrLen
  BY <1>8 DEF Conn!StrLen, Conn!MainAt
<1>9. CASE Conn!SemWait
  BY <1>9 DEF Conn!SemWait, Conn!MainAt
<1>10. CASE Conn!MainSend
  BY <1>10 DEF Conn!MainSend, Conn!MainAt, Conn!Takes, Conn!EAGAIN, Conn!Pipe, Conn!CloseSocket
<1>11. CASE Conn!WaitForRoom
  BY <1>11 DEF Conn!WaitForRoom, Conn!MainAt, Conn!Modify
<1>12. CASE Conn!MainPost
  BY <1>12 DEF Conn!MainPost, Conn!MainAt
<1>13. CASE Conn!AcceptConnection
  BY <1>13 DEF Conn!AcceptConnection, Conn!At
<1>14. CASE Conn!Poll
  BY <1>14 DEF Conn!Poll, Conn!At
<1>15. CASE Conn!HandleMessage
  BY <1>15 DEF Conn!HandleMessage, Conn!At, Conn!CloseSocket, Conn!Least
<1>16. CASE Conn!WorkerSend
  BY <1>16 DEF Conn!WorkerSend, Conn!At, Conn!Takes, Conn!EAGAIN, Conn!Pipe, Conn!Least
<1>17. CASE Conn!WorkerSent
  BY <1>17 DEF Conn!WorkerSent, Conn!At
<1>18. CASE Conn!WorkerListen
  BY <1>18 DEF Conn!WorkerListen, Conn!At, Conn!Modify
<1>19. CASE UNCHANGED easyConnVars
  BY <1>19 DEF easyConnVars, netVars, connVars
<1> QED
  BY <1>1, <1>2, <1>3, <1>4, <1>5, <1>6, <1>7, <1>8, <1>9, <1>10, <1>11, <1>12, <1>13, <1>14,
     <1>15, <1>16, <1>17, <1>18, <1>19
  DEF ConnStep, Conn!Next, Conn!Main, Conn!WorkerThread

\* The array and what is left of it.
LEMMA LeftStep == ConnInv /\ ConnStep => LeftTypes'
<1> SUFFICES ASSUME ConnInv, ConnStep PROVE LeftTypes'
  OBVIOUS
<1> USE ConnSizes DEF ConnInv, ConnTypes, Places, Conn!Places, Bytes, LeftTypes, MainTypes,
            SemOK, Conn!clientVars, Conn!epollVars, Conn!sendVars, Conn!mainVars,
            Conn!workerVars, Conn!recvVars
<1>1. CASE Conn!Connect
  BY <1>1 DEF Conn!Connect
<1>2. CASE Conn!Ask
  BY <1>2 DEF Conn!Ask, Conn!Edge
<1>3. CASE Conn!Read
  BY <1>3 DEF Conn!Read, Conn!Edge
<1>4. CASE Conn!Close
  BY <1>4 DEF Conn!Close
<1>5. CASE Conn!Reset
  BY <1>5 DEF Conn!Reset
<1>6. CASE Conn!NewArray
  BY <1>6 DEF Conn!NewArray, Conn!MainAt
<1>7. CASE Conn!Fill
  BY <1>7 DEF Conn!Fill, Conn!MainAt
<1>8. CASE Conn!StrLen
  BY <1>8 DEF Conn!StrLen, Conn!MainAt
<1>9. CASE Conn!SemWait
  BY <1>9 DEF Conn!SemWait, Conn!MainAt
<1>10. CASE Conn!MainSend
  <2>1. sem' = sem
    BY <1>10 DEF Conn!MainSend
  <2>2. CASE UNCHANGED <<ch, buffer_, len_>>
    BY <2>1, <2>2
  <2>3. CASE len_ > 0 /\ Conn!Takes(buffer_, len_)
    <3>1. Conn!Free \in Nat \ {0}
      BY <2>3, FreeIs DEF Conn!Takes
    <3>2. CASE len_ <= Conn!Free
      <4>1. ch' = [ch EXCEPT ![buffer_] = "0"] /\ len_' = 0 /\ buffer_' = buffer_
        BY <1>10, <2>3, <3>2 DEF Conn!MainSend, Conn!EAGAIN, Conn!Pipe, Conn!Takes
      <4> QED
        BY <2>1, <4>1, CutTypes
    <3>3. CASE ~(len_ <= Conn!Free)
      <4>1. ch' = ch /\ len_' = len_ - Conn!Free /\ buffer_' = buffer_ + Conn!Free
        BY <1>10, <2>3, <3>3 DEF Conn!MainSend, Conn!EAGAIN, Conn!Pipe, Conn!Takes
      <4> QED
        BY <2>1, <2>3, <3>1, <3>3, <4>1
    <3> QED
      BY <3>2, <3>3
  <2> QED
    BY <1>10, <2>2, <2>3 DEF Conn!MainSend
<1>11. CASE Conn!WaitForRoom
  BY <1>11 DEF Conn!WaitForRoom, Conn!MainAt, Conn!Modify
<1>12. CASE Conn!MainPost
  BY <1>12 DEF Conn!MainPost, Conn!MainAt
<1>13. CASE Conn!AcceptConnection
  BY <1>13 DEF Conn!AcceptConnection, Conn!At
<1>14. CASE Conn!Poll
  BY <1>14 DEF Conn!Poll, Conn!At
<1>15. CASE Conn!HandleMessage
  BY <1>15 DEF Conn!HandleMessage, Conn!At, Conn!CloseSocket, Conn!Least
<1>16. CASE Conn!WorkerSend
  BY <1>16 DEF Conn!WorkerSend, Conn!At, Conn!Takes, Conn!EAGAIN, Conn!Pipe, Conn!Least
<1>17. CASE Conn!WorkerSent
  <2>1. ch' = [ch EXCEPT ![buffer_] = "0"] /\ len_' = 0 /\ UNCHANGED <<buffer_, sem>>
    BY <1>17 DEF Conn!WorkerSent
  <2> QED
    BY <2>1, CutTypes
<1>18. CASE Conn!WorkerListen
  BY <1>18 DEF Conn!WorkerListen, Conn!At, Conn!Modify
<1>19. CASE UNCHANGED easyConnVars
  BY <1>19 DEF easyConnVars, netVars, connVars
<1> QED
  BY <1>1, <1>2, <1>3, <1>4, <1>5, <1>6, <1>7, <1>8, <1>9, <1>10, <1>11, <1>12, <1>13, <1>14,
     <1>15, <1>16, <1>17, <1>18, <1>19
  DEF ConnStep, Conn!Next, Conn!Main, Conn!WorkerThread

\* The main thread.
LEMMA MainStep == ConnInv /\ ConnStep => MainTypes'
<1> SUFFICES ASSUME ConnInv, ConnStep PROVE MainTypes'
  OBVIOUS
<1> USE ConnSizes DEF ConnInv, ConnTypes, MainTypes, Conn!clientVars, Conn!epollVars,
            Conn!sendVars, Conn!mainVars, Conn!workerVars, Conn!recvVars
<1>1. CASE Conn!Connect
  BY <1>1 DEF Conn!Connect
<1>2. CASE Conn!Ask
  BY <1>2 DEF Conn!Ask, Conn!Edge
<1>3. CASE Conn!Read
  BY <1>3 DEF Conn!Read, Conn!Edge
<1>4. CASE Conn!Close
  BY <1>4 DEF Conn!Close
<1>5. CASE Conn!Reset
  BY <1>5 DEF Conn!Reset
<1>6. CASE Conn!NewArray
  BY <1>6 DEF Conn!NewArray, Conn!MainAt
<1>7. CASE Conn!Fill
  BY <1>7 DEF Conn!Fill, Conn!MainAt
<1>8. CASE Conn!StrLen
  BY <1>8 DEF Conn!StrLen, Conn!MainAt
<1>9. CASE Conn!SemWait
  BY <1>9 DEF Conn!SemWait, Conn!MainAt
<1>10. CASE Conn!MainSend
  BY <1>10 DEF Conn!MainSend, Conn!MainAt, Conn!Takes, Conn!EAGAIN, Conn!Pipe, Conn!CloseSocket
<1>11. CASE Conn!WaitForRoom
  BY <1>11 DEF Conn!WaitForRoom, Conn!MainAt, Conn!Modify
<1>12. CASE Conn!MainPost
  BY <1>12 DEF Conn!MainPost, Conn!MainAt
<1>13. CASE Conn!AcceptConnection
  BY <1>13 DEF Conn!AcceptConnection, Conn!At
<1>14. CASE Conn!Poll
  BY <1>14 DEF Conn!Poll, Conn!At
<1>15. CASE Conn!HandleMessage
  BY <1>15 DEF Conn!HandleMessage, Conn!At, Conn!CloseSocket, Conn!Least
<1>16. CASE Conn!WorkerSend
  BY <1>16 DEF Conn!WorkerSend, Conn!At, Conn!Takes, Conn!EAGAIN, Conn!Pipe, Conn!Least
<1>17. CASE Conn!WorkerSent
  BY <1>17 DEF Conn!WorkerSent, Conn!At
<1>18. CASE Conn!WorkerListen
  BY <1>18 DEF Conn!WorkerListen, Conn!At, Conn!Modify
<1>19. CASE UNCHANGED easyConnVars
  BY <1>19 DEF easyConnVars, netVars, connVars
<1> QED
  BY <1>1, <1>2, <1>3, <1>4, <1>5, <1>6, <1>7, <1>8, <1>9, <1>10, <1>11, <1>12, <1>13, <1>14,
     <1>15, <1>16, <1>17, <1>18, <1>19
  DEF ConnStep, Conn!Next, Conn!Main, Conn!WorkerThread

\* The worker.
LEMMA WorkStep == ConnInv /\ ConnStep => WorkTypes'
<1> SUFFICES ASSUME ConnInv, ConnStep PROVE WorkTypes'
  OBVIOUS
<1> USE ConnSizes DEF ConnInv, ConnTypes, WorkTypes, LeftTypes, NetTypes, Conn!clientVars,
            Conn!epollVars, Conn!sendVars, Conn!mainVars, Conn!workerVars, Conn!recvVars
<1>1. CASE Conn!Connect
  BY <1>1 DEF Conn!Connect
<1>2. CASE Conn!Ask
  BY <1>2 DEF Conn!Ask, Conn!Edge
<1>3. CASE Conn!Read
  BY <1>3 DEF Conn!Read, Conn!Edge
<1>4. CASE Conn!Close
  BY <1>4 DEF Conn!Close
<1>5. CASE Conn!Reset
  BY <1>5 DEF Conn!Reset
<1>6. CASE Conn!NewArray
  BY <1>6 DEF Conn!NewArray, Conn!MainAt
<1>7. CASE Conn!Fill
  BY <1>7 DEF Conn!Fill, Conn!MainAt
<1>8. CASE Conn!StrLen
  BY <1>8 DEF Conn!StrLen, Conn!MainAt
<1>9. CASE Conn!SemWait
  BY <1>9 DEF Conn!SemWait, Conn!MainAt
<1>10. CASE Conn!MainSend
  BY <1>10 DEF Conn!MainSend, Conn!MainAt, Conn!Takes, Conn!EAGAIN, Conn!Pipe, Conn!CloseSocket
<1>11. CASE Conn!WaitForRoom
  BY <1>11 DEF Conn!WaitForRoom, Conn!MainAt, Conn!Modify
<1>12. CASE Conn!MainPost
  BY <1>12 DEF Conn!MainPost, Conn!MainAt
<1>13. CASE Conn!AcceptConnection
  BY <1>13 DEF Conn!AcceptConnection, Conn!At
<1>14. CASE Conn!Poll
  BY <1>14 DEF Conn!Poll, Conn!At
<1>15. CASE Conn!HandleMessage
  BY <1>15, ReceivedTypes DEF Conn!HandleMessage
<1>16. CASE Conn!WorkerSend
  <2>1. CASE Conn!Takes(p, total)
    <3>1. p' = p + Conn!Least(total, Conn!Free) /\ total' = total - Conn!Least(total, Conn!Free)
          /\ worker' \in {worker, "sent"} /\ UNCHANGED Conn!recvVars /\ worker = "send"
      BY <1>16, <2>1 DEF Conn!WorkerSend, Conn!At, Conn!EAGAIN, Conn!Pipe, Conn!Takes
    <3>2. Conn!Least(total, Conn!Free) \in 0 .. total
      BY <2>1, FreeIs DEF Conn!Least, Conn!Takes
    <3> QED
      BY <3>1, <3>2
  <2>2. CASE ~Conn!Takes(p, total)
    BY <1>16, <2>2 DEF Conn!WorkerSend, Conn!At
  <2> QED
    BY <2>1, <2>2
<1>17. CASE Conn!WorkerSent
  BY <1>17 DEF Conn!WorkerSent, Conn!At
<1>18. CASE Conn!WorkerListen
  BY <1>18 DEF Conn!WorkerListen, Conn!At, Conn!Modify
<1>19. CASE UNCHANGED easyConnVars
  BY <1>19 DEF easyConnVars, netVars, connVars
<1> QED
  BY <1>1, <1>2, <1>3, <1>4, <1>5, <1>6, <1>7, <1>8, <1>9, <1>10, <1>11, <1>12, <1>13, <1>14,
     <1>15, <1>16, <1>17, <1>18, <1>19
  DEF ConnStep, Conn!Next, Conn!Main, Conn!WorkerThread

LEMMA ConnStart == OfConn /\ MCInit => ConnInv
<1> SUFFICES ASSUME Conn!Init PROVE ConnInv
  BY DEF OfConn, MCInit
<1> USE ConnSizes DEF Conn!Init
<1>1. NetTypes
  <2>1. killed \in BOOLEAN /\ asked = 0 /\ rx = 0
    BY Zenon
  <2> QED
    BY <2>1 DEF NetTypes
<1>7. WorkTypes
  <2>1. overrun \in BOOLEAN /\ p = 0 /\ total = 0 /\ recvNum = 0 /\ rlen = 0
    BY Zenon
  <2> QED
    BY <2>1 DEF WorkTypes
<1>6. SocketTypes
  BY DEF SocketTypes
<1>2. OutTypes
  BY DEF OutTypes
<1>3. LeftTypes
  BY DEF LeftTypes, Places, Conn!Places, Bytes
<1>4. MainTypes
  BY DEF MainTypes
<1>5. SemOK
  BY DEF SemOK, Conn!LeftIsWaited
<1> QED
  BY <1>1, <1>2, <1>3, <1>4, <1>5, <1>6, <1>7 DEF ConnInv, ConnTypes

LEMMA ConnNext == (OfConn => ConnInv) /\ [MCNext]_allVars => (OfConn => ConnInv)'
<1> SUFFICES ASSUME OfConn => ConnInv, [MCNext]_allVars, OfConn'
             PROVE  ConnInv'
  OBVIOUS
<1>1. ConnInv /\ ConnStep
  BY DEF OfConn, MCNext, allVars, ConnStep, easyConnVars
<1> QED
  BY <1>1, SemStep, NetStep, OutStep, SocketStep, LeftStep, MainStep, WorkStep
  DEF ConnInv, ConnTypes

\* EasyConnection's sem_ keeps main and the worker from sending at the same time: what is in
\* the socket is never mixed of two messages.  While it is taken somebody is on the message.
THEOREM SemaphoreHeld == MCSpec => []SemHeld
<1>1. MCInit => (OfConn => ConnInv)
  BY ConnStart
<1>2. (OfConn => ConnInv) => SemHeld
  <2> SUFFICES ASSUME ConnInv
               PROVE  Conn!TypeOK /\ Conn!OneSender /\ Conn!LeftIsWaited
    BY DEF OfConn, SemHeld
  <2>1. Conn!TypeOK
    BY DEF ConnInv, ConnTypes, NetTypes, OutTypes, SocketTypes, LeftTypes, MainTypes, WorkTypes,
           Bytes, Places, Conn!Places, Conn!TypeOK
  <2>2. Conn!OneSender
    BY DEF ConnInv, SemOK, Conn!OneSender, Conn!Sending, Conn!SendingLeft
  <2> QED
    BY <2>1, <2>2 DEF ConnInv, SemOK
<1> QED
  BY <1>1, <1>2, ConnNext, PTL DEF MCSpec

-----------------------------------------------------------------------------
(* EasyNetwork on completion ports: one AcceptEx goes round while the acceptor runs. *)

OfWin == setup = "win"

\* The types, and that the acceptor is neither stopped nor destroyed.
WinTypes == Win!TypeOK /\ freed = FALSE /\ Caller \notin Workers /\ NoConn \notin Conns

\* What a thread is about to do is about a connection that lives.
ThreadsOK ==
  /\ \A t \in Workers : th[t].pc # "idle" => th[t].conn \in Conns /\ object[th[t].conn] = "live"
  /\ th[Caller].pc # "recv" /\ th[Caller].conn = NoConn

Posted(c) == accepting[c] # "none"
Posting(t) == th[t].pc = "accept"

\* There is one AcceptEx, posted or about to be posted, if the acceptor runs, and none
\* otherwise; it is for the connection that the context holds.
AcceptOK ==
  /\ \A c \in Conns : Posted(c) => running_ = 1 /\ context_ = c /\ accepting[c] # "failed"
  /\ \A t \in Win!Threads : Posting(t) => running_ = 1 /\ \A c \in Conns : ~Posted(c)
  /\ \A t, u \in Win!Threads : Posting(t) /\ Posting(u) => t = u
  /\ Win!Listening

WinInv == WinTypes /\ ThreadsOK /\ AcceptOK /\ Win!Attended

WinStep == Win!Next \/ UNCHANGED prototypeVars

\* The types.
LEMMA WinTypesStep == WinInv /\ WinStep => WinTypes'
<1> SUFFICES ASSUME WinInv, WinStep PROVE WinTypes'
  OBVIOUS
<1> USE DEF WinInv, WinTypes, Win!TypeOK, Win!Threads, Win!acceptorVars, ThreadsOK, AcceptOK
<1>1. CASE Win!Start
  BY <1>1 DEF Win!Start, Win!Goto, Win!Idle
<1>2. CASE Win!CallerAccept
  BY <1>2 DEF Win!CallerAccept, Win!Accept, Win!Create, Win!Close, Win!Goto
<1>3. CASE Win!Stop
  BY <1>3 DEF Win!Stop
<1>4. CASE Win!DestroyAcceptor
  BY <1>4 DEF Win!DestroyAcceptor
<1>5. ASSUME NEW t \in Workers, Win!AcceptNext(t) PROVE WinTypes'
  BY <1>5 DEF Win!AcceptNext, Win!Accept, Win!Create, Win!Close, Win!Goto
<1>6. ASSUME NEW t \in Workers, Win!FirstRecv(t) PROVE WinTypes'
  BY <1>6 DEF Win!FirstRecv, Win!AsyncRecv, Win!Receives, Win!AsyncDisconnect, Win!Goto
<1>7. ASSUME NEW t \in Workers, NEW c \in Conns, Win!AcceptCompleted(t, c) PROVE WinTypes'
  BY <1>7 DEF Win!AcceptCompleted, Win!Goto, Win!Idle
<1>8. ASSUME NEW t \in Workers, NEW c \in Conns, Win!RecvCompleted(t, c) PROVE WinTypes'
  BY <1>8 DEF Win!RecvCompleted, Win!AsyncRecv, Win!Receives, Win!AsyncDisconnect, Win!Idle
<1>9. ASSUME NEW t \in Workers, NEW c \in Conns, Win!DisconnectCompleted(t, c) PROVE WinTypes'
  BY <1>9 DEF Win!DisconnectCompleted, Win!Idle
<1>10. ASSUME NEW c \in Conns, Win!Connect(c) PROVE WinTypes'
  BY <1>10 DEF Win!Connect
<1>11. ASSUME NEW c \in Conns, Win!AcceptFails(c) PROVE WinTypes'
  BY <1>11 DEF Win!AcceptFails
<1>12. ASSUME NEW c \in Conns, NEW w \in {"data", "end"}, Win!Arrive(c, w) PROVE WinTypes'
  BY <1>12 DEF Win!Arrive
<1>13. CASE UNCHANGED prototypeVars
  BY <1>13 DEF prototypeVars, winVars
<1> HIDE DEF WinInv, WinTypes, Win!TypeOK, ThreadsOK, AcceptOK
<1> QED
  BY <1>1, <1>2, <1>3, <1>4, <1>5, <1>6, <1>7, <1>8, <1>9, <1>10, <1>11, <1>12, <1>13
  DEF WinStep, Win!Next, Win!Worker

\* The threads.
LEMMA ThreadsStep == WinInv /\ WinStep => ThreadsOK'
<1> SUFFICES ASSUME WinInv, WinStep PROVE ThreadsOK'
  OBVIOUS
<1> USE DEF WinInv, WinTypes, Win!TypeOK, Win!Threads, Win!acceptorVars, ThreadsOK, AcceptOK,
            Posted, Posting
<1>1. CASE Win!Start
  BY <1>1 DEF Win!Start, Win!Goto, Win!Idle
<1>2. CASE Win!CallerAccept
  BY <1>2 DEF Win!CallerAccept, Win!Accept, Win!Create, Win!Close, Win!Goto
<1>3. CASE Win!Stop
  BY <1>3 DEF Win!Stop
<1>4. CASE Win!DestroyAcceptor
  BY <1>4 DEF Win!DestroyAcceptor
<1>5. ASSUME NEW t \in Workers, Win!AcceptNext(t) PROVE ThreadsOK'
  BY <1>5 DEF Win!AcceptNext, Win!Accept, Win!Create, Win!Close, Win!Goto
<1>6. ASSUME NEW t \in Workers, Win!FirstRecv(t) PROVE ThreadsOK'
  BY <1>6 DEF Win!FirstRecv, Win!AsyncRecv, Win!Receives, Win!AsyncDisconnect, Win!Goto
<1>7. ASSUME NEW t \in Workers, NEW c \in Conns, Win!AcceptCompleted(t, c) PROVE ThreadsOK'
  BY <1>7 DEF Win!AcceptCompleted, Win!Goto, Win!Idle
<1>8. ASSUME NEW t \in Workers, NEW c \in Conns, Win!RecvCompleted(t, c) PROVE ThreadsOK'
  BY <1>8 DEF Win!RecvCompleted, Win!AsyncRecv, Win!Receives, Win!AsyncDisconnect, Win!Idle
<1>9. ASSUME NEW t \in Workers, NEW c \in Conns, Win!DisconnectCompleted(t, c) PROVE ThreadsOK'
  BY <1>9 DEF Win!DisconnectCompleted, Win!Idle
<1>10. ASSUME NEW c \in Conns, Win!Connect(c) PROVE ThreadsOK'
  BY <1>10 DEF Win!Connect
<1>11. ASSUME NEW c \in Conns, Win!AcceptFails(c) PROVE ThreadsOK'
  BY <1>11 DEF Win!AcceptFails
<1>12. ASSUME NEW c \in Conns, NEW w \in {"data", "end"}, Win!Arrive(c, w) PROVE ThreadsOK'
  BY <1>12 DEF Win!Arrive
<1>13. CASE UNCHANGED prototypeVars
  BY <1>13 DEF prototypeVars, winVars
<1> HIDE DEF WinInv, WinTypes, Win!TypeOK, ThreadsOK, AcceptOK, Posted, Posting
<1> QED
  BY <1>1, <1>2, <1>3, <1>4, <1>5, <1>6, <1>7, <1>8, <1>9, <1>10, <1>11, <1>12, <1>13
  DEF WinStep, Win!Next, Win!Worker

\* The AcceptEx.
LEMMA AcceptStep == WinInv /\ WinStep => AcceptOK'
<1> SUFFICES ASSUME WinInv, WinStep PROVE AcceptOK'
  OBVIOUS
<1> USE DEF WinInv, WinTypes, Win!TypeOK, Win!Threads, Win!acceptorVars, ThreadsOK, AcceptOK,
            Posted, Posting, Win!Listening
<1>1. CASE Win!Start
  BY <1>1 DEF Win!Start, Win!Goto, Win!Idle
<1>2. CASE Win!CallerAccept
  BY <1>2 DEF Win!CallerAccept, Win!Accept, Win!Create, Win!Close, Win!Goto
<1>3. CASE Win!Stop
  BY <1>3 DEF Win!Stop
<1>4. CASE Win!DestroyAcceptor
  BY <1>4 DEF Win!DestroyAcceptor
<1>5. ASSUME NEW t \in Workers, Win!AcceptNext(t) PROVE AcceptOK'
  BY <1>5 DEF Win!AcceptNext, Win!Accept, Win!Create, Win!Close, Win!Goto
<1>6. ASSUME NEW t \in Workers, Win!FirstRecv(t) PROVE AcceptOK'
  BY <1>6 DEF Win!FirstRecv, Win!AsyncRecv, Win!Receives, Win!AsyncDisconnect, Win!Goto
<1>7. ASSUME NEW t \in Workers, NEW c \in Conns, Win!AcceptCompleted(t, c) PROVE AcceptOK'
  BY <1>7 DEF Win!AcceptCompleted, Win!Goto, Win!Idle
<1>8. ASSUME NEW t \in Workers, NEW c \in Conns, Win!RecvCompleted(t, c) PROVE AcceptOK'
  BY <1>8 DEF Win!RecvCompleted, Win!AsyncRecv, Win!Receives, Win!AsyncDisconnect, Win!Idle
<1>9. ASSUME NEW t \in Workers, NEW c \in Conns, Win!DisconnectCompleted(t, c) PROVE AcceptOK'
  BY <1>9 DEF Win!DisconnectCompleted, Win!Idle
<1>10. ASSUME NEW c \in Conns, Win!Connect(c) PROVE AcceptOK'
  BY <1>10 DEF Win!Connect
<1>11. ASSUME NEW c \in Conns, Win!AcceptFails(c) PROVE AcceptOK'
  BY <1>11 DEF Win!AcceptFails
<1>12. ASSUME NEW c \in Conns, NEW w \in {"data", "end"}, Win!Arrive(c, w) PROVE AcceptOK'
  BY <1>12 DEF Win!Arrive
<1>13. CASE UNCHANGED prototypeVars
  BY <1>13 DEF prototypeVars, winVars
<1> HIDE DEF WinInv, WinTypes, Win!TypeOK, ThreadsOK, AcceptOK, Posted, Posting, Win!Listening
<1> QED
  BY <1>1, <1>2, <1>3, <1>4, <1>5, <1>6, <1>7, <1>8, <1>9, <1>10, <1>11, <1>12, <1>13
  DEF WinStep, Win!Next, Win!Worker

\* The connections.
LEMMA AttendedStep == WinInv /\ WinStep => Win!Attended'
<1> SUFFICES ASSUME WinInv, WinStep PROVE Win!Attended'
  OBVIOUS
<1> USE DEF WinInv, WinTypes, Win!TypeOK, Win!Threads, Win!acceptorVars, ThreadsOK, AcceptOK,
            Posted, Posting, Win!Attended, Win!IsAttended
<1>1. CASE Win!Start
  BY <1>1 DEF Win!Start, Win!Goto, Win!Idle
<1>2. CASE Win!CallerAccept
  <2>1. PICK d \in Conns :
          /\ object[d] = "none" /\ object' = [object EXCEPT ![d] = object'[d]]
          /\ \/ object'[d] = "live" /\ accepting' = [accepting EXCEPT ![d] = "kernel"]
             \/ object'[d] = "deleted" /\ accepting' = accepting
    BY <1>2 DEF Win!CallerAccept, Win!Accept, Win!Create, Win!Close
  <2>2. UNCHANGED <<recv, disconnect, refused>> /\ \A t \in Workers : th'[t] = th[t]
    BY <1>2 DEF Win!CallerAccept, Win!Goto
  <2>3. ASSUME NEW c \in Conns \ refused, object'[c] = "live"
        PROVE  \/ accepting'[c] # "none" \/ recv'[c] # "none" \/ disconnect'[c] # "none"
               \/ \E t \in Win!Threads : th'[t].conn = c
    <3>1. CASE c = d
      BY <2>1, <2>3, <3>1
    <3>2. CASE c # d
      BY <2>1, <2>2, <2>3, <3>2
    <3> QED
      BY <3>1, <3>2
  <2> QED
    BY <2>2, <2>3
<1>3. CASE Win!Stop
  BY <1>3 DEF Win!Stop
<1>4. CASE Win!DestroyAcceptor
  BY <1>4 DEF Win!DestroyAcceptor
<1>5. ASSUME NEW t \in Workers, Win!AcceptNext(t) PROVE Win!Attended'
  BY <1>5 DEF Win!AcceptNext, Win!Accept, Win!Create, Win!Close, Win!Goto
<1>6. ASSUME NEW t \in Workers, Win!FirstRecv(t) PROVE Win!Attended'
  BY <1>6 DEF Win!FirstRecv, Win!AsyncRecv, Win!Receives, Win!AsyncDisconnect, Win!Goto
<1>7. ASSUME NEW t \in Workers, NEW c \in Conns, Win!AcceptCompleted(t, c) PROVE Win!Attended'
  BY <1>7 DEF Win!AcceptCompleted, Win!Goto, Win!Idle
<1>8. ASSUME NEW t \in Workers, NEW c \in Conns, Win!RecvCompleted(t, c) PROVE Win!Attended'
  BY <1>8 DEF Win!RecvCompleted, Win!AsyncRecv, Win!Receives, Win!AsyncDisconnect, Win!Idle
<1>9. ASSUME NEW t \in Workers, NEW c \in Conns, Win!DisconnectCompleted(t, c) PROVE Win!Attended'
  BY <1>9 DEF Win!DisconnectCompleted, Win!Idle
<1>10. ASSUME NEW c \in Conns, Win!Connect(c) PROVE Win!Attended'
  BY <1>10 DEF Win!Connect
<1>11. ASSUME NEW c \in Conns, Win!AcceptFails(c) PROVE Win!Attended'
  BY <1>11 DEF Win!AcceptFails
<1>12. ASSUME NEW c \in Conns, NEW w \in {"data", "end"}, Win!Arrive(c, w) PROVE Win!Attended'
  BY <1>12 DEF Win!Arrive
<1>13. CASE UNCHANGED prototypeVars
  BY <1>13 DEF prototypeVars, winVars
<1> HIDE DEF WinInv, WinTypes, Win!TypeOK, ThreadsOK, AcceptOK, Posted, Posting, Win!Attended,
    Win!IsAttended
<1> QED
  BY <1>1, <1>2, <1>3, <1>4, <1>5, <1>6, <1>7, <1>8, <1>9, <1>10, <1>11, <1>12, <1>13
  DEF WinStep, Win!Next, Win!Worker

LEMMA WinStart == OfWin /\ MCInit => WinInv
<1> SUFFICES ASSUME Win!Init PROVE WinInv
  BY DEF OfWin, MCInit
<1>1. Caller \notin Workers /\ NoConn \notin Conns
  BY Instances DEF Win!PrototypeAssumption
<1> USE DEF Win!Init, Win!Idle, Win!Threads
<1>2. WinTypes
  <2>1. object \in [Conns -> {"none"}] /\ accepting = object /\ recv = object /\ disconnect = object
    OBVIOUS
  <2>2. th \in [Workers \cup {Caller} -> [pc : {"idle"}, conn : {NoConn}]]
    OBVIOUS
  <2>3. \A c \in Conns : accepting[c] = "none" /\ recv[c] = "none" /\ disconnect[c] = "none"
    OBVIOUS
  <2>4. freed = FALSE /\ running_ = 0 /\ starts = 0 /\ context_ = NoConn /\ refused = {}
    OBVIOUS
  <2> HIDE DEF Win!Init, Win!Idle
  <2>5. /\ object \in [Conns -> {"none", "live", "deleted"}]
        /\ accepting \in [Conns -> {"none", "kernel", "ok", "failed"}]
        /\ recv \in [Conns -> {"none", "kernel", "data", "end"}]
        /\ disconnect \in [Conns -> {"none", "kernel", "done"}]
    BY <2>1
  <2>6. th \in [Win!Threads -> [pc : {"idle", "accept", "recv"}, conn : Conns \cup {NoConn}]]
    BY <2>2
  <2>7. /\ running_ \in {0, 1} /\ starts \in 0 .. 2 /\ context_ \in Conns \cup {NoConn}
        /\ refused \subseteq Conns
    BY <2>4
  <2>8. freed \in BOOLEAN
    BY <2>4, Zenon
  <2> QED
    BY <1>1, <2>3, <2>4, <2>5, <2>6, <2>7, <2>8 DEF WinTypes, Win!TypeOK
<1>3. ThreadsOK
  BY DEF ThreadsOK
<1>4. AcceptOK
  BY DEF AcceptOK, Posted, Posting, Win!Listening
<1>5. Win!Attended
  BY DEF Win!Attended, Win!IsAttended
<1> QED
  BY <1>2, <1>3, <1>4, <1>5 DEF WinInv

LEMMA WinNext == (OfWin => WinInv) /\ [MCNext]_allVars => (OfWin => WinInv)'
<1> SUFFICES ASSUME OfWin => WinInv, [MCNext]_allVars, OfWin'
             PROVE  WinInv'
  OBVIOUS
<1>1. WinInv /\ WinStep
  BY DEF OfWin, MCNext, allVars, WinStep, prototypeVars
<1> QED
  BY <1>1, WinTypesStep, ThreadsStep, AcceptStep, AttendedStep DEF WinInv

\* Whatever the kernel refuses, and with the acceptor started again: no connection is
\* forgotten before it is disconnected, but for one whose update or DisconnectEx was refused,
\* and a running acceptor listens.
THEOREM AcceptorAttends == MCSpec => []Attended
<1>1. MCInit => (OfWin => WinInv)
  BY WinStart
<1>2. (OfWin => WinInv) => Attended
  BY DEF OfWin, WinInv, WinTypes, AcceptOK, Attended
<1> QED
  BY <1>1, <1>2, WinNext, PTL DEF MCSpec

-----------------------------------------------------------------------------
(* The echo server: one message, read in pieces and given back.            *)

OfEcho == setup = "echo"

\* The types; nothing of the message has to wait for room, and nobody is killed.
EchoTypes ==
  /\ Echo!TypeOK /\ reg # "out" /\ killed = FALSE
  /\ asked = 1 => Len(sent) \in 1 .. Message

\* The client goes when it has its answer.
EndsOK ==
  /\ end \in {"no", "fin"} /\ (end = "fin" => client = "gone")
  /\ client = "gone" => asked = 1 /\ out = sent /\ readN = Len(out)

Held == \A k \in 1 .. len : buffer_[k] = sent[k]

\* What has arrived of the message, m bytes of which were received, and what has not.
RestIs(m) ==
  /\ m + Len(rx) + Len(flying) = Len(sent)
  /\ \A k \in 1 .. Len(rx) : rx[k] = sent[m + k]
  /\ \A k \in 1 .. Len(flying) : flying[k] = sent[m + Len(rx) + k]

\* The four phases of the message.  Pieces received are in buffer_, one behind the other; the
\* rest is still to be received.
Arriving == pc = "epoll_wait" /\ out = <<>> /\ len = 0 /\ RestIs(0) /\ (asked = 0 => sent = <<>>)
Receiving ==
  /\ pc = "recv" /\ out = <<>> /\ asked = 1
  /\ recvNum \in {0, MAXLINE} /\ len \in {recvNum, 2 * MAXLINE}
  /\ len = 0 => rx # <<>>
  /\ RestIs(len) /\ Held
Answering ==
  /\ pc = "send_packet" /\ out = <<>> /\ asked = 1
  /\ rx = <<>> /\ flying = <<>> /\ len = Len(sent) /\ total = len /\ p = 0
  /\ Held
GivenBack ==
  /\ pc \in {"epoll_wait", "recv"} /\ asked = 1 /\ out = sent /\ rx = <<>> /\ flying = <<>>
  /\ pc = "recv" => end = "fin"

EchoInv == EchoTypes /\ EndsOK /\ (Arriving \/ Receiving \/ Answering \/ GivenBack)

EchoStep == (Echo!Next /\ Echo!InTime') \/ UNCHANGED echoServerVars

LEMMA EchoSizes == MAXLINE \in Nat \ {0} /\ Message \in Nat \ {0} /\ Message <= 2 * MAXLINE
BY Instances DEF Echo!EchoAssumption

LEMMA Lengths ==
  EchoTypes => /\ Len(sent) \in Nat /\ Len(rx) \in Nat /\ Len(out) \in Nat /\ Len(<<>>) = 0
               /\ Len(flying) \in Nat /\ (flying = <<>> <=> Len(flying) = 0)
               /\ (rx = <<>> <=> Len(rx) = 0) /\ (sent = <<>> <=> Len(sent) = 0)
<1> SUFFICES ASSUME EchoTypes
             PROVE  /\ Len(sent) \in Nat /\ Len(rx) \in Nat /\ Len(out) \in Nat /\ Len(<<>>) = 0
                    /\ Len(flying) \in Nat /\ (flying = <<>> <=> Len(flying) = 0)
                    /\ (rx = <<>> <=> Len(rx) = 0) /\ (sent = <<>> <=> Len(sent) = 0)
  OBVIOUS
<1>1. sent \in Seq(Chars) /\ flying \in Seq(Chars) /\ rx \in Seq(Chars) /\ out \in Seq(Chars \union {"0"})
  BY DEF EchoTypes, Echo!TypeOK
<1> QED
  BY <1>1, EmptySeq, LenProperties

\* What a message of the client is.
LEMMA Messages ==
  ASSUME NEW k \in 1 .. Message, NEW m \in [1 .. k -> Chars]
  PROVE  m \in Seq(Chars) /\ Len(m) = k /\ <<>> \o m = m
<1>1. m \in Seq(Chars) /\ Len(m) = k
  BY EchoSizes
<1> QED
  BY <1>1, ConcatEmptySeq

\* buffer_ up to len, when all of the message is in it.
LEMMA HeldIsSent ==
  ASSUME EchoTypes, Held, len = Len(sent)
  PROVE  SubSeq(buffer_, 1, len) = sent
<1>1. sent \in Seq(Chars) /\ len \in Nat /\ len <= 2 * MAXLINE
  BY EchoSizes DEF EchoTypes, Echo!TypeOK
<1>2. \A k \in 1 .. len : buffer_[k] \in Chars
  BY <1>1, ElementOfSeq DEF Held
<1>3. /\ SubSeq(buffer_, 1, len) \in Seq(Chars) /\ Len(SubSeq(buffer_, 1, len)) = len
      /\ \A k \in 1 .. len : SubSeq(buffer_, 1, len)[k] = buffer_[k]
  BY <1>1, <1>2, SubSeqProperties
<1> QED
  BY <1>1, <1>3, SeqEqual DEF Held

\* A piece is received behind the one before; a short one ends the message.
LEMMA PieceReceived ==
  ASSUME EchoTypes, EndsOK, Receiving, Echo!HandleMessage, Echo!InTime'
  PROVE  (EchoTypes /\ EndsOK /\ (Receiving \/ Answering))'
<1> USE EchoSizes
<1>1. /\ rx \in Seq(Chars) /\ sent \in Seq(Chars) /\ end = "no" /\ asked = 1
      /\ Len(rx) \in Nat /\ Len(sent) \in 1 .. Message /\ (rx = <<>> <=> Len(rx) = 0)
      /\ flying \in Seq(Chars) /\ Len(flying) \in Nat /\ (flying = <<>> <=> Len(flying) = 0)
      /\ len \in Nat /\ len + Len(rx) + Len(flying) = Len(sent)
  <2>1. end # "fin"
    BY Lengths DEF EndsOK, Receiving, EchoTypes
  <2> QED
    BY <2>1, Lengths DEF EchoTypes, Echo!TypeOK, Receiving, EndsOK, RestIs
<1>2. UNCHANGED <<client, asked, sent, flying, readN, end, out, killed>>
  BY DEF Echo!HandleMessage, Echo!clientVars
<1>5. pc' = "send_packet" => flying = <<>> /\ Len(flying) = 0
  BY <1>1, <1>2 DEF Echo!InTime
<1>3. CASE rx = <<>>
  <2>1. /\ buffer_' = [buffer_ EXCEPT ![len + 1] = "0"] /\ len' = len /\ pc' = "send_packet"
        /\ p' = 0 /\ total' = len /\ recvNum' = -1 /\ UNCHANGED <<rx, object, reg, ready>>
    <3>1. ~(Echo!Least(Len(rx), MAXLINE) > 0)
      BY <1>1, <1>3 DEF Echo!Least
    <3> QED
      BY <1>1, <1>3, <3>1 DEF Echo!HandleMessage, Echo!RecvPiece, Echo!Answer
  <2>2. len = Len(sent) /\ len \in 1 .. 2 * MAXLINE
    BY <1>1, <1>3, <1>5, <2>1
  <2>3. buffer_' \in [1 .. 2 * MAXLINE + 1 -> Chars \union {"0"}]
    BY <2>1 DEF EchoTypes, Echo!TypeOK
  <2>4. Held'
    BY <1>2, <2>1, <2>2 DEF Receiving, Held, EchoTypes, Echo!TypeOK
  <2>5. Answering'
    BY <1>2, <1>3, <1>5, <2>1, <2>2, <2>4 DEF Receiving, Answering
  <2>6. EchoTypes'
    BY <1>2, <2>1, <2>2, <2>3 DEF EchoTypes, Echo!TypeOK
  <2> QED
    BY <1>2, <2>5, <2>6 DEF EndsOK
<1>4. CASE rx # <<>>
  <2> DEFINE k == Echo!Least(Len(rx), MAXLINE)
             b == Echo!Placed(k)
  <2>1. k \in 1 .. MAXLINE /\ k <= Len(rx) /\ (k < MAXLINE => k = Len(rx))
    BY <1>1, <1>4 DEF Echo!Least
  <2>2. /\ recvNum' = k /\ rx' = SubSeq(rx, k + 1, Len(rx)) /\ UNCHANGED <<object, reg, ready>>
        /\ IF k = MAXLINE THEN buffer_' = b /\ len' = len + k /\ UNCHANGED <<pc, p, total>>
                          ELSE Echo!Answer(b, len + k)
    BY <1>4 DEF Echo!HandleMessage, Echo!RecvPiece
  <2>3. len = recvNum /\ len \in {0, MAXLINE} /\ len + Len(rx) + Len(flying) = Len(sent)
    BY <1>1, <1>4 DEF Receiving
  <2>4. b = [j \in 1 .. 2 * MAXLINE + 1 |->
               IF j > recvNum /\ j <= recvNum + k THEN rx[j - recvNum] ELSE buffer_[j]]
    BY DEF Echo!Placed
  <2> HIDE DEF k, b
  <2>5. b \in [1 .. 2 * MAXLINE + 1 -> Chars \union {"0"}]
    <3>1. \A j \in 1 .. Len(rx) : rx[j] \in Chars
      BY <1>1, ElementOfSeq
    <3>2. \A j \in 1 .. 2 * MAXLINE + 1 : buffer_[j] \in Chars \union {"0"}
      BY DEF EchoTypes, Echo!TypeOK
    <3>3. \A j \in 1 .. 2 * MAXLINE + 1 :
            j > recvNum /\ j <= recvNum + k => rx[j - recvNum] \in Chars
      BY <1>1, <2>1, <2>3, <3>1
    <3> QED
      BY <2>4, <3>2, <3>3
  <2>6. \A j \in 1 .. len + k : b[j] = sent[j]
    <3> TAKE j \in 1 .. len + k
    <3>1. CASE j <= len
      BY <2>1, <2>3, <2>4, <3>1 DEF Receiving, Held
    <3>2. CASE j > len
      <4>1. b[j] = rx[j - len] /\ j - len \in 1 .. Len(rx)
        BY <1>1, <2>1, <2>3, <2>4, <3>2
      <4> QED
        BY <1>1, <2>3, <3>2, <4>1 DEF Receiving, RestIs
    <3> QED
      BY <2>3, <2>1, <3>1, <3>2
  <2>7. /\ rx' \in Seq(Chars) /\ Len(rx') = Len(rx) - k
        /\ \A j \in 1 .. Len(rx') : rx'[j] = rx[k + j]
    <3>1. \A j \in k + 1 .. Len(rx) : rx[j] \in Chars
      BY <1>1, <2>1, ElementOfSeq
    <3> QED
      BY <1>1, <2>1, <2>2, <3>1, SubSeqProperties
  <2>8. CASE k = MAXLINE
    <3>1. buffer_' = b /\ len' = len + MAXLINE /\ UNCHANGED <<pc, p, total>> /\ recvNum' = MAXLINE
      BY <2>2, <2>8
    <3>2. /\ len' \in {MAXLINE, 2 * MAXLINE} /\ Len(rx') \in Nat
          /\ len' + Len(rx') + Len(flying) = Len(sent) /\ len' + Len(rx') = len + Len(rx)
      <4>1. Len(rx') = Len(rx) - MAXLINE /\ MAXLINE <= Len(rx)
        BY <2>1, <2>7, <2>8
      <4>2. len' \in {MAXLINE, 2 * MAXLINE}
        BY <2>3, <3>1
      <4>3. len' + Len(rx') = len + Len(rx) /\ Len(rx') \in Nat
        BY <1>1, <3>1, <4>1
      <4> QED
        BY <2>3, <4>2, <4>3
    <3>3. \A j \in 1 .. Len(rx') : rx'[j] = sent[len' + j]
      <4> TAKE j \in 1 .. Len(rx')
      <4>1. rx'[j] = rx[k + j] /\ k + j \in 1 .. Len(rx) /\ j \in Nat
        BY <1>1, <2>1, <2>7
      <4>2. rx[k + j] = sent[len + (k + j)]
        BY <4>1 DEF Receiving, RestIs
      <4>3. len + (k + j) = len' + j
        BY <2>3, <2>8, <3>1, <4>1
      <4> QED
        BY <4>1, <4>2, <4>3
    <3>4. Held'
      BY <1>2, <2>6, <2>8, <3>1 DEF Held
    <3>7. RestIs(len)'
      <4>1. \A j \in 1 .. Len(flying) : flying[j] = sent[len' + Len(rx') + j]
        BY <3>2 DEF Receiving, RestIs
      <4> QED
        BY <1>2, <3>2, <3>3, <4>1 DEF RestIs
    <3>5. Receiving'
      <4>1. len' # 0 /\ len' \in {recvNum', 2 * MAXLINE} /\ recvNum' = MAXLINE
        BY <3>1, <3>2
      <4> QED
        BY <1>2, <3>1, <3>4, <3>7, <4>1 DEF Receiving
    <3>6. EchoTypes'
      BY <1>1, <1>2, <2>2, <2>5, <2>7, <3>1, <3>2 DEF EchoTypes, Echo!TypeOK
    <3> QED
      BY <1>2, <3>5, <3>6 DEF EndsOK
  <2>9. CASE k < MAXLINE
    <3>1. /\ buffer_' = [b EXCEPT ![len + k + 1] = "0"] /\ len' = len + k
          /\ pc' = "send_packet" /\ p' = 0 /\ total' = len + k
      BY <2>1, <2>2, <2>9 DEF Echo!Answer
    <3>2. len + k = Len(sent) /\ len + k \in 1 .. 2 * MAXLINE /\ Len(rx') = 0
      <4>1. k = Len(rx) /\ Len(flying) = 0
        BY <1>5, <2>1, <2>9, <3>1
      <4>2. len + k = Len(sent) /\ Len(rx') = Len(rx) - Len(rx)
        BY <1>1, <2>3, <2>7, <4>1
      <4> QED
        BY <1>1, <4>2
    <3>3. rx' = <<>>
      BY <2>7, <3>2, EmptySeq
    <3>4. buffer_' \in [1 .. 2 * MAXLINE + 1 -> Chars \union {"0"}]
      BY <2>5, <3>1
    <3>5. Held'
      BY <1>2, <2>5, <2>6, <3>1, <3>2 DEF Held
    <3>6. Answering'
      BY <1>2, <1>5, <3>1, <3>2, <3>3, <3>5 DEF Receiving, Answering
    <3>7. EchoTypes'
      <4>1. /\ len' \in 0 .. 2 * MAXLINE /\ total' \in 0 .. 2 * MAXLINE + 1
            /\ p' \in 0 .. 2 * MAXLINE + 1 /\ recvNum' \in -1 .. MAXLINE
        BY <2>1, <2>2, <3>1, <3>2
      <4>2. rx' \in Seq(Chars) /\ flying' \in Seq(Chars) /\ UNCHANGED <<object, reg, ready>>
        BY <1>1, <1>2, <2>2, <2>7
      <4> QED
        BY <1>2, <3>1, <3>4, <4>1, <4>2 DEF EchoTypes, Echo!TypeOK
    <3> QED
      BY <1>2, <3>6, <3>7 DEF EndsOK
  <2> QED
    BY <2>1, <2>8, <2>9
<1> QED
  BY <1>3, <1>4

\* All of the message is sent at once, and nothing else.
LEMMA AnswerSent ==
  ASSUME EchoTypes, EndsOK, Answering, Echo!SendPacket
  PROVE  (EchoTypes /\ EndsOK /\ GivenBack)'
<1> USE EchoSizes
<1>1. /\ sent \in Seq(Chars) /\ Len(sent) \in 1 .. Message /\ readN = 0 /\ end = "no"
      /\ Len(out) = 0 /\ out = <<>> /\ len = Len(sent) /\ total = len /\ p = 0
  BY Lengths DEF EchoTypes, Echo!TypeOK, EndsOK, Answering
<1>2. Echo!Free = Message
  BY <1>1 DEF Echo!Free
<1>3. Echo!Least(total, Echo!Free) = total
  BY <1>1, <1>2 DEF Echo!Least
<1>4. ~(Echo!Free = 0)
  BY <1>2
<1>5. Echo!Sent /\ UNCHANGED <<reg, ready, object, buffer_, len, recvNum, killed>>
      /\ UNCHANGED <<client, asked, sent, flying, readN, rx, end>>
  BY <1>1, <1>4 DEF Echo!SendPacket, Echo!clientVars
<1>6. out' = <<>> \o SubSeq(buffer_, 0 + 1, 0 + total) /\ p' = 0 + total /\ total' = total - total
      /\ pc' = "epoll_wait"
  BY <1>1, <1>3, <1>5 DEF Echo!Sent
<1>7. SubSeq(buffer_, 1, total) = sent
  BY <1>1, HeldIsSent DEF Answering
<1>8. out' = sent
  BY <1>1, <1>6, <1>7, ConcatEmptySeq
<1>9. sent \in Seq(Chars \union {"0"})
  BY <1>1
<1>10. EchoTypes'
  BY <1>1, <1>5, <1>6, <1>8, <1>9 DEF EchoTypes, Echo!TypeOK
<1> QED
  BY <1>1, <1>5, <1>6, <1>8, <1>10 DEF EndsOK, Answering, GivenBack

\* A piece of the message arrives.
LEMMA PieceArrives ==
  ASSUME EchoInv, NEW k \in 1 .. 1 * Message, Echo!Arrive(k)
  PROVE  EchoInv'
<1> USE EchoSizes
<1> DEFINE s == SubSeq(flying, 1, k)
           f == SubSeq(flying, k + 1, Len(flying))
<1>1. /\ sent \in Seq(Chars) /\ flying \in Seq(Chars) /\ rx \in Seq(Chars)
      /\ Len(sent) \in Nat /\ Len(flying) \in Nat /\ Len(rx) \in Nat
      /\ k \in 1 .. Len(flying) /\ k \in Nat
  BY Lengths DEF EchoInv, EchoTypes, Echo!TypeOK, Echo!Arrive
<1>2. \A j \in 1 .. Len(flying) : flying[j] \in Chars
  BY <1>1, ElementOfSeq
<1>3. s \in Seq(Chars) /\ Len(s) = k /\ \A j \in 1 .. k : s[j] = flying[j]
  BY <1>1, <1>2, SubSeqProperties
<1>4. /\ f \in Seq(Chars) /\ Len(f) = Len(flying) - k
      /\ \A j \in 1 .. Len(f) : f[j] = flying[k + j]
  BY <1>1, <1>2, SubSeqProperties
<1>5. /\ rx' = rx \o s /\ flying' = f /\ ready' \in BOOLEAN
      /\ UNCHANGED <<client, asked, sent, readN, end, out, reg, object, buffer_, len, recvNum, p,
                     total, pc, killed>>
  BY DEF Echo!Arrive, Echo!Edge, Echo!dataVars, EchoInv, EchoTypes, Echo!TypeOK
<1> HIDE DEF s, f
<1>6. /\ rx \o s \in Seq(Chars) /\ Len(rx \o s) = Len(rx) + k
      /\ \A j \in 1 .. Len(rx) + k :
           (rx \o s)[j] = IF j <= Len(rx) THEN rx[j] ELSE s[j - Len(rx)]
  BY <1>1, <1>3, ConcatProperties
<1>7. rx' \in Seq(Chars) /\ flying' \in Seq(Chars) /\ rx' # <<>>
  <2>1. Len(rx \o s) > 0
    BY <1>1, <1>6
  <2> QED
    BY <1>4, <1>5, <1>6, <2>1, EmptySeq
<1>8. EchoTypes'
  BY <1>5, <1>7 DEF EchoInv, EchoTypes, Echo!TypeOK
<1>9. flying # <<>> /\ EndsOK'
  <2>1. flying # <<>>
    BY <1>1, EmptySeq
  <2> QED
    BY <1>5, <2>1 DEF EchoInv, EndsOK
<1>10. ASSUME RestIs(len), len \in Nat PROVE RestIs(len)'
  <2>1. /\ len + Len(rx') + Len(flying') = Len(sent)
        /\ Len(rx') = Len(rx) + k /\ Len(flying') = Len(flying) - k
    <3>1. Len(rx') = Len(rx) + k /\ Len(flying') = Len(flying) - k
      BY <1>4, <1>5, <1>6
    <3>2. len + Len(rx) + Len(flying) = Len(sent)
      BY <1>10 DEF RestIs
    <3> QED
      BY <1>1, <1>10, <3>1, <3>2
  <2>2. ASSUME NEW j \in 1 .. Len(rx') PROVE rx'[j] = sent[len + j]
    <3>1. CASE j <= Len(rx)
      BY <1>1, <1>5, <1>6, <1>10, <2>1, <2>2, <3>1 DEF RestIs
    <3>2. CASE j > Len(rx)
      <4>1. j - Len(rx) \in 1 .. k /\ j \in 1 .. Len(rx) + k /\ ~(j <= Len(rx))
        BY <1>1, <2>1, <2>2, <3>2
      <4>2. rx'[j] = flying[j - Len(rx)] /\ j - Len(rx) \in 1 .. Len(flying)
        BY <1>1, <1>3, <1>5, <1>6, <4>1
      <4>3. flying[j - Len(rx)] = sent[len + Len(rx) + (j - Len(rx))]
        BY <1>10, <4>2 DEF RestIs
      <4>4. len + Len(rx) + (j - Len(rx)) = len + j
        BY <1>1, <1>10, <2>1, <2>2
      <4> QED
        BY <4>2, <4>3, <4>4
    <3> QED
      BY <1>1, <2>1, <2>2, <3>1, <3>2
  <2>3. ASSUME NEW j \in 1 .. Len(flying') PROVE flying'[j] = sent[len + Len(rx') + j]
    <3>1. flying'[j] = flying[k + j] /\ k + j \in 1 .. Len(flying) /\ j \in Nat
      BY <1>1, <1>4, <1>5, <2>1, <2>3
    <3>2. flying[k + j] = sent[len + Len(rx) + (k + j)]
      BY <1>10, <3>1 DEF RestIs
    <3>3. len + Len(rx) + (k + j) = len + Len(rx') + j
      <4>1. PICK x \in Nat : x = Len(rx)
        BY <1>1
      <4>2. Len(rx') = x + k
        BY <2>1, <4>1
      <4>3. len + x + (k + j) = len + (x + k) + j
        BY <1>1, <1>10, <3>1
      <4> QED
        BY <4>1, <4>2, <4>3
    <3> QED
      BY <3>1, <3>2, <3>3
  <2> QED
    BY <1>5, <2>1, <2>2, <2>3 DEF RestIs
<1>11. CASE Arriving
  <2>1. RestIs(len) /\ len = 0 /\ Arriving
    BY <1>11 DEF Arriving
  <2>2. RestIs(len)' /\ len' = 0
    BY <1>5, <1>10, <2>1
  <2>3. RestIs(0)'
    BY <2>2 DEF RestIs
  <2> QED
    BY <1>5, <1>8, <1>9, <2>1, <2>3 DEF EchoInv, Arriving
<1>12. CASE Receiving
  <2>1. RestIs(len)'
    BY <1>10, <1>12, EchoSizes DEF Receiving
  <2> QED
    BY <1>5, <1>7, <1>8, <1>9, <1>12, <2>1 DEF EchoInv, Receiving, Held
<1> QED
  BY <1>9, <1>11, <1>12 DEF EchoInv, Answering, GivenBack

LEMMA EchoKept == EchoInv /\ EchoStep => EchoInv'
<1> SUFFICES ASSUME EchoInv, EchoStep PROVE EchoInv'
  OBVIOUS
<1> USE EchoSizes, Lengths DEF EchoInv, Echo!clientVars, Echo!dataVars
<1>1. CASE Echo!Connect
  BY <1>1 DEF Echo!Connect, EchoTypes, Echo!TypeOK, EndsOK, Held, RestIs, Arriving, Receiving,
              Answering, GivenBack
<1>2. ASSUME NEW k \in 1 .. Message, NEW m \in [1 .. k -> Chars], Echo!Ask(m)
      PROVE  EchoInv'
  <2>1. asked = 0 /\ asked' = 1
    BY <1>2 DEF Echo!Ask, EchoTypes, Echo!TypeOK
  <2>2. Arriving /\ sent = <<>> /\ rx = <<>> /\ flying = <<>> /\ client = "here"
    <3>1. Arriving /\ sent = <<>>
      BY <2>1 DEF Arriving, Receiving, Answering, GivenBack
    <3>2. Len(rx) = 0 /\ Len(flying) = 0
      BY <3>1 DEF Arriving, RestIs
    <3> QED
      BY <1>2, <3>1, <3>2 DEF Echo!Ask
  <2>3. sent' = m /\ flying' = m /\ m \in Seq(Chars) /\ Len(m) \in 1 .. Message
    BY <1>2, <2>2, Messages DEF Echo!Ask
  <2>5. UNCHANGED <<client, readN, rx, end, out, reg, ready, object, buffer_, len, recvNum, p,
                    total, pc, killed>>
    BY <1>2 DEF Echo!Ask
  <2>6. EchoTypes'
    BY <2>1, <2>3, <2>5 DEF EchoTypes, Echo!TypeOK
  <2>7. RestIs(0)'
    BY <2>2, <2>3, <2>5 DEF RestIs
  <2> QED
    BY <2>1, <2>2, <2>3, <2>5, <2>6, <2>7 DEF Arriving, EndsOK
<1>12. ASSUME NEW k \in 1 .. 1 * Message, Echo!Arrive(k) PROVE EchoInv'
  BY <1>12, PieceArrives
<1>3. CASE Echo!Close
  <2>1. asked = 1 /\ readN = Len(sent) /\ client' = "gone"
    BY <1>3 DEF Echo!Close, EchoTypes, Echo!TypeOK
  <2>2. Len(out) > 0
    BY <2>1 DEF EchoTypes, Echo!TypeOK
  <2>3. GivenBack
    BY <2>2 DEF Arriving, Receiving, Answering
  <2>4. readN = Len(out)
    BY <2>1, <2>3 DEF GivenBack
  <2>5. UNCHANGED <<asked, sent, flying, readN, rx, end, out, reg, ready, object, buffer_, len,
                    recvNum, p, total, pc, killed>>
    BY <1>3 DEF Echo!Close
  <2> QED
    BY <2>1, <2>3, <2>4, <2>5 DEF EchoTypes, Echo!TypeOK, EndsOK, GivenBack
<1>13. CASE Echo!EndArrives
  <2>1. client = "gone" /\ readN = Len(out) /\ out = sent /\ asked = 1
    BY <1>13 DEF Echo!EndArrives, EndsOK
  <2>2. end' = "fin" /\ ready' \in BOOLEAN
    BY <1>13, <2>1 DEF Echo!EndArrives, EchoTypes, Echo!TypeOK
  <2>3. UNCHANGED <<client, asked, sent, flying, readN, rx, out, reg, object, buffer_, len,
                    recvNum, p, total, pc, killed>>
    BY <1>13 DEF Echo!EndArrives
  <2>4. GivenBack
    BY <2>1 DEF EchoTypes, Arriving, Receiving, Answering
  <2>5. GivenBack' /\ EndsOK'
    BY <2>1, <2>2, <2>3, <2>4 DEF GivenBack, EndsOK
  <2> QED
    BY <2>2, <2>3, <2>5 DEF EchoTypes, Echo!TypeOK
<1>4. CASE Echo!Read
  <2>1. readN' = Len(out) /\ ready' \in BOOLEAN
        /\ UNCHANGED <<client, asked, sent, flying, rx, end, out, reg, object, buffer_, len, recvNum, p,
                       total, pc, killed>>
    BY <1>4 DEF Echo!Read, Echo!Edge, EchoTypes, Echo!TypeOK
  <2>2. EchoTypes' /\ EndsOK'
    BY <2>1 DEF EchoTypes, Echo!TypeOK, EndsOK
  <2> QED
    BY <2>1, <2>2 DEF Held, RestIs, Arriving, Receiving, Answering, GivenBack
<1>5. CASE Echo!Reset
  BY <1>5 DEF Echo!Reset, EndsOK, EchoTypes, Echo!TypeOK
<1>6. CASE Echo!AcceptConnection
  <2>1. object' = "live" /\ reg' = "in" /\ ready' \in BOOLEAN
        /\ UNCHANGED <<client, asked, sent, flying, readN, rx, end, out, buffer_, len, recvNum, p,
                       total, pc, killed>>
    BY <1>6 DEF Echo!AcceptConnection, Echo!Readable
  <2> QED
    BY <2>1 DEF EchoTypes, Echo!TypeOK, EndsOK, Held, RestIs, Arriving, Receiving, Answering,
                GivenBack
<1>7. CASE Echo!Poll
  <2>1. reg = "in" /\ pc = "epoll_wait" /\ ready' = FALSE
        /\ UNCHANGED <<client, asked, sent, flying, readN, rx, end, out, reg, object, buffer_, len,
                       p, total, killed>>
    BY <1>7 DEF Echo!Poll, Echo!At, EchoTypes, Echo!TypeOK
  <2>2. CASE ~Echo!Readable
    <3>1. UNCHANGED <<pc, recvNum>>
      BY <1>7, <2>1, <2>2 DEF Echo!Poll
    <3> QED
      BY <2>1, <3>1 DEF EchoTypes, Echo!TypeOK, EndsOK, RestIs, Arriving, Receiving, Answering,
                        GivenBack
  <2>3. CASE Echo!Readable
    <3>1. pc' = "recv" /\ recvNum' = 0
      BY <1>7, <2>1, <2>3 DEF Echo!Poll
    <3>2. EchoTypes' /\ EndsOK'
      <4>1. ready' \in BOOLEAN
        BY <2>1, Zenon
      <4>2. EchoTypes'
        BY <2>1, <3>1, <4>1 DEF EchoTypes, Echo!TypeOK
      <4> QED
        BY <2>1, <4>2 DEF EndsOK
    <3>3. CASE Arriving
      <4>1. end = "no"
        BY <3>3 DEF EndsOK, Arriving, EchoTypes
      <4>2. rx # <<>> /\ asked = 1
        BY <2>3, <3>3, <4>1 DEF Echo!Readable, Arriving, RestIs, EchoTypes, Echo!TypeOK
      <4>3. Receiving'
        BY <2>1, <3>1, <3>3, <4>2 DEF Arriving, Receiving, RestIs, Held
      <4> QED
        BY <3>2, <4>3
    <3>4. CASE GivenBack
      BY <2>1, <2>3, <3>1, <3>2, <3>4 DEF GivenBack, Echo!Readable, EndsOK
    <3> QED
      BY <2>1, <3>3, <3>4 DEF Receiving, Answering
  <2> QED
    BY <2>2, <2>3
<1>8. CASE Echo!HandleMessage
  <2>1. pc = "recv"
    BY <1>8 DEF Echo!HandleMessage, Echo!At
  <2>2. CASE Receiving
    <3>1. Echo!InTime'
      BY <2>1 DEF EchoStep, Echo!InTime, echoServerVars, netVars, echoVars
    <3> QED
      BY <1>8, <2>2, <3>1, PieceReceived
  <2>3. CASE GivenBack
    <3>1. rx = <<>> /\ end = "fin" /\ ~(Echo!Least(Len(rx), MAXLINE) > 0)
      BY <2>1, <2>3 DEF GivenBack, Echo!Least
    <3>2. Echo!Gone /\ UNCHANGED <<rx, buffer_, len, recvNum, p, total>>
          /\ UNCHANGED <<client, asked, sent, flying, readN, end, out, killed>>
      BY <1>8, <3>1 DEF Echo!HandleMessage, Echo!RecvPiece
    <3> QED
      BY <2>3, <3>2 DEF Echo!Gone, EchoTypes, Echo!TypeOK, EndsOK, GivenBack
  <2> QED
    BY <2>1, <2>2, <2>3 DEF Arriving, Answering
<1>9. CASE Echo!SendPacket
  <2>1. Answering
    BY <1>9 DEF Echo!SendPacket, Echo!At, Arriving, Receiving, GivenBack
  <2> QED
    BY <1>9, <2>1, AnswerSent
<1>10. CASE Echo!WaitForRoom \/ Echo!SendMessage
  BY <1>10 DEF Echo!WaitForRoom, Echo!SendMessage, Echo!At, Arriving, Receiving, Answering,
               GivenBack
<1>11. CASE UNCHANGED echoServerVars
  BY <1>11 DEF echoServerVars, netVars, echoVars, EchoTypes, Echo!TypeOK, EndsOK, Held, RestIs,
               Arriving, Receiving, Answering, GivenBack
<1> HIDE DEF EchoInv
<1> QED
  BY <1>1, <1>2, <1>3, <1>4, <1>5, <1>6, <1>7, <1>8, <1>9, <1>10, <1>11, <1>12, <1>13
  DEF EchoStep, Echo!Next, Echo!Client, Echo!Network, Echo!Thread

LEMMA EchoStart == OfEcho /\ MCInit => EchoInv
<1> SUFFICES ASSUME Echo!Init PROVE EchoInv
  BY DEF OfEcho, MCInit
<1> USE EchoSizes, EmptySeq DEF Echo!Init
<1>1. /\ asked = 0 /\ len = 0 /\ recvNum = 0 /\ p = 0 /\ total = 0 /\ readN = 0
      /\ sent = <<>> /\ flying = <<>> /\ rx = <<>> /\ out = <<>>
  BY Zenon
<1>2. ready \in BOOLEAN /\ killed \in BOOLEAN /\ killed = FALSE
  BY Zenon
<1>3. buffer_ \in [1 .. 2 * MAXLINE + 1 -> Chars \union {"0"}]
  OBVIOUS
<1>4. client = "away" /\ end = "no" /\ reg = "none" /\ object = "none" /\ pc = "epoll_wait"
  BY Zenon
<1> HIDE DEF Echo!Init
<1>5. EchoTypes
  BY <1>1, <1>2, <1>3, <1>4 DEF EchoTypes, Echo!TypeOK
<1> QED
  BY <1>1, <1>4, <1>5 DEF EchoInv, EndsOK, Arriving, RestIs

LEMMA EchoNext == (OfEcho => EchoInv) /\ [MCNext]_allVars => (OfEcho => EchoInv)'
<1> SUFFICES ASSUME OfEcho => EchoInv, [MCNext]_allVars, OfEcho'
             PROVE  EchoInv'
  OBVIOUS
<1>1. EchoInv /\ EchoStep
  BY DEF OfEcho, MCNext, allVars, EchoStep, echoServerVars
<1> QED
  BY <1>1, EchoKept

\* Of a message that two reads take and one send gives back, and that arrives in any pieces
\* but none too late for the reads: the echo is what was sent, in order, and what is printed
\* as received is the message.
THEOREM EchoesInOrder == MCSpec => []EchoInOrder
<1>1. MCInit => (OfEcho => EchoInv)
  BY EchoStart
<1>2. (OfEcho => EchoInv) => EchoInOrder
  <2> SUFFICES ASSUME EchoInv
               PROVE  Echo!TypeOK /\ Echo!EchoInOrder /\ Echo!ReceivedAll
    BY DEF OfEcho, EchoInOrder
  <2>1. sent \in Seq(Chars) /\ out \in {<<>>, sent}
    BY DEF EchoInv, EchoTypes, Echo!TypeOK, Arriving, Receiving, Answering, GivenBack
  <2>2. Echo!EchoInOrder
    <3>1. Len(<<>>) = 0 /\ Len(sent) \in Nat /\ SubSeq(sent, 1, 0) = <<>>
      BY <2>1, EmptySeq, LenProperties, SubSeqEmpty
    <3>2. SubSeq(<<>>, 1, 0) = <<>>
      BY SubSeqEmpty
    <3> QED
      BY <2>1, <3>1, <3>2 DEF Echo!EchoInOrder, Echo!IsPrefix
  <2>3. ASSUME pc = "send_packet"
        PROVE  LET k == Len(sent) - Len(flying) - Len(rx)
               IN SubSeq(buffer_, 1, len) = SubSeq(sent, k - len + 1, k)
    <3>1. Answering
      BY <2>3 DEF EchoInv, Arriving, Receiving, GivenBack
    <3>2. Len(rx) = 0 /\ Len(flying) = 0 /\ len = Len(sent) /\ Len(sent) \in Nat
      BY <2>1, <3>1, EmptySeq, LenProperties DEF Answering
    <3>3. SubSeq(buffer_, 1, len) = sent
      BY <3>1, HeldIsSent DEF EchoInv, Answering
    <3>4. SubSeq(sent, 1, Len(sent)) = sent
      BY <2>1, SubSeqFull
    <3>5. Len(sent) - Len(flying) - Len(rx) = Len(sent) /\ Len(sent) - len + 1 = 1
      BY <3>2
    <3> QED
      BY <3>3, <3>4, <3>5
  <2> QED
    BY <2>2, <2>3 DEF EchoInv, EchoTypes, Echo!ReceivedAll
<1> QED
  BY <1>1, <1>2, EchoNext, PTL DEF MCSpec

===============================================================================
