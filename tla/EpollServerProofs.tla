-------------------------- MODULE EpollServerProofs --------------------------
(***************************************************************************)
(* Proofs about EpollServer, for any number of clients that each wait for  *)
(* an answer before they ask again, any lengths of requests and answers,   *)
(* any room in a socket and clients that may leave at any time.            *)
(***************************************************************************)
EXTENDS EpollServer, SequenceTheorems, TLAPS

\* The clients the theorems are about: they wait for answers, and there are answers.
Waiting == ~Pipelined /\ Answer > 0

-----------------------------------------------------------------------------
(* The inductive invariant                                                 *)

MaybeConn == Conns \cup {NoConn}
Commands == [kind : {"ONCONNECT", "ONDATA", "ONDISCONNECT"}, c : Conns, len : Nat]

ClientTypes ==
  /\ client \in [Conns -> {"away", "here", "gone"}]
  /\ asked \in [Conns -> 0 .. Requests]
  /\ flying \in [Conns -> Nat] /\ readN \in [Conns -> Nat]
SocketTypes ==
  /\ backlog \in Seq(Conns) /\ rx \in [Conns -> Nat]
  /\ fin \in SUBSET Conns /\ rst \in SUBSET Conns /\ out \in [Conns -> Seq(Nat \X Nat)]
EpollTypes ==
  /\ reg \in [Conns -> {"none", "in", "out"}]
  /\ ready \in SUBSET (Conns \cup {Listener})
  /\ events \in SUBSET ((Conns \cup {Listener}) \X {"in", "out"})
WorkerTypes ==
  w \in [at : {"epoll_wait", "events", "OnConnection", "recv", "OnData", "OnDisconnect",
               "SendMessage"},
         c : MaybeConn, len : Nat, recvNum : 0 .. MAXLINE]
ConnTypes ==
  /\ object \in [Conns -> {"none", "live", "deleted"}]
  /\ told \in [Conns -> {"idle", "open", "talking", "lost"}]
  /\ sem \in [Conns -> Nat] /\ left \in [Conns -> 0 .. Answer] /\ m_SendBuf \in [Conns -> Nat]
CommandTypes ==
  /\ handled \in [Conns -> Nat] /\ m_CommandList \in Seq(Commands)
  /\ cmd \in [at : {"idle", "batch", "SendData", "sem_wait", "send"}, c : MaybeConn, due : Nat]
  /\ killed \in BOOLEAN /\ notified \in BOOLEAN
Types == ClientTypes /\ SocketTypes /\ EpollTypes /\ WorkerTypes /\ ConnTypes /\ CommandTypes

\* A thread has a connection in hand exactly when it is in a call about it.
Sending == cmd.at \in {"SendData", "sem_wait", "send"}
HandsOK ==
  /\ w.c = NoConn <=> w.at \in {"epoll_wait", "events"}
  /\ cmd.c = NoConn <=> ~Sending
  /\ IF Sending THEN cmd.due >= 1 ELSE cmd.due = 0

\* A connection has one event at most, and none while the worker has it in hand.
EventsOK ==
  /\ w.at = "epoll_wait" => events = {}
  /\ \A e \in events : e[1] \in Conns => e[1] # w.c
  /\ \A d, e \in events : d[1] = e[1] => d = e
  /\ <<Listener, "in">> \in events => backlog # <<>>

\* A connection of which the server's threads know nothing yet.
Listed(c) == \E i \in 1 .. Len(m_CommandList) : m_CommandList[i].c = c
Noticed(c) == \E e \in events : e[1] = c
Fresh(c) == object[c] = "none" \/ (w.at = "OnConnection" /\ w.c = c)
NewOK ==
  /\ \A i \in 1 .. Len(backlog) :
       object[backlog[i]] = "none" /\ client[backlog[i]] # "away"
  /\ \A i, j \in 1 .. Len(backlog) : backlog[i] = backlog[j] => i = j
  /\ \A c \in Conns : client[c] = "away" => object[c] = "none"
  /\ \A c \in Conns : object[c] = "none" => reg[c] = "none" /\ w.c # c /\ ~Noticed(c)
  /\ \A c \in Conns : Fresh(c) => told[c] = "idle" /\ ~Listed(c) /\ cmd.c # c /\ handled[c] = 0

\* The worker sends what is left of a message, or will: sem_ is its.
Writing(c) == \/ reg[c] = "out" \/ <<c, "out">> \in events
              \/ w.at = "SendMessage" /\ w.c = c
SenderOK(c) ==
  c \notin rst =>
    /\ Writing(c) => left[c] > 0 /\ ~(cmd.at = "send" /\ cmd.c = c)
    /\ IF left[c] = 0 THEN sem[c] = 1 ELSE sem[c] = 0
SendersOK ==
  /\ \A c \in Conns : SenderOK(c)
  /\ cmd.at = "send" => left[cmd.c] > 0

\* The messages whose bytes are in the socket or left, the answers begun and those due.
Put(c) == IF cmd.c = c /\ cmd.at = "sem_wait" THEN m_SendBuf[c] - 1 ELSE m_SendBuf[c]
Begun(c) == IF cmd.c = c /\ cmd.at \in {"sem_wait", "send"} THEN m_SendBuf[c] - 1
            ELSE m_SendBuf[c]
Due(c) == IF cmd.c = c THEN cmd.due ELSE 0
OutOK(c) ==
  /\ Len(out[c]) + left[c] <= Put(c) * Answer
  /\ left[c] > 0 => Len(out[c]) + left[c] = Put(c) * Answer
  /\ readN[c] <= Len(out[c]) /\ Len(out[c]) - readN[c] <= Room
BegunOK(c) ==
  /\ cmd.c = c /\ cmd.at \in {"sem_wait", "send"} => m_SendBuf[c] >= 1
  /\ Begun(c) + Due(c) = handled[c] \div Request
AnswersOK == \A c \in Conns : OutOK(c) /\ BegunOK(c)

\* No byte of a request is in two places: what a session was given, what each command
\* brings, what the worker has in hand and what is still on its way are together no more
\* than what was asked.
Bytes(m, c) == IF m.c = c THEN m.len ELSE 0
Hand(c) == IF w.c = c /\ w.at \in {"recv", "OnData"} THEN w.len ELSE 0
Way(c) == Hand(c) + rx[c] + flying[c]
Tally(f, c) ==
  /\ handled[c] <= f[1]
  /\ \A i \in 1 .. Len(m_CommandList) : f[i] + Bytes(m_CommandList[i], c) <= f[i + 1]
  /\ \A i, j \in 1 .. Len(m_CommandList) + 1 : i <= j => f[i] <= f[j]
  /\ f[Len(m_CommandList) + 1] + Way(c) <= asked[c] * Request
FlowOK == \A c \in Conns : \E f \in [1 .. Len(m_CommandList) + 1 -> Nat] : Tally(f, c)

\* A client waits: only the last of its requests may be on its way or without an answer.
AsksOK ==
  \A c \in Conns : asked[c] > 0 =>
    readN[c] >= (asked[c] - 1) * Answer /\ handled[c] >= (asked[c] - 1) * Request

\* Ends and resets come from clients that are gone, and the worker is sent for a reason.
EndsOK ==
  /\ \A c \in fin \cup rst : client[c] = "gone"
  /\ \A c \in rst : readN[c] < Len(out[c])
  /\ \A c \in Conns : <<c, "in">> \in events => Readable(c)
  /\ w.at = "recv" => w.len > 0 \/ Readable(w.c)
  /\ w.at = "OnData" => w.len > 0
  /\ w.at = "OnDisconnect" => w.c \in fin \cup rst

Basics == /\ Types /\ HandsOK /\ EventsOK /\ NewOK /\ SendersOK /\ AnswersOK /\ FlowOK
          /\ AsksOK /\ EndsOK

\* What RecvData has received lies at the front of the buffer.
RecvOK ==
  /\ w.at = "recv" => \/ w.len = 0 /\ w.recvNum = 0
                      \/ w.len \in {MAXLINE, 2 * MAXLINE} /\ w.recvNum = MAXLINE
  /\ w.at \in {"recv", "OnData"} =>
       w.len <= InputBuffer /\ \A i \in 1 .. w.len : rbuf[i] = Start(w.c) + i

\* The end of a connection is noticed once, whoever brings it: the ready list, an event, the
\* worker or a command, which is the last of its connection.
Ending(c) == \E i \in 1 .. Len(m_CommandList) :
  m_CommandList[i].c = c /\ m_CommandList[i].kind = "ONDISCONNECT"
EndOnce(c) ==
  /\ object[c] = "live" /\ ~Fresh(c) => told[c] # "idle"
  /\ object[c] = "deleted" =>
       /\ told[c] = "idle" /\ reg[c] = "none"
       /\ ~Listed(c) /\ ~Noticed(c) /\ w.c # c /\ cmd.c # c
  /\ told[c] = "lost" <=> Ending(c)
  /\ told[c] = "lost" => c \in fin /\ c \notin ready /\ ~Noticed(c) /\ w.c # c
  /\ c \in fin /\ (Noticed(c) \/ (w.c = c /\ w.at # "OnConnection")) => c \notin ready
LastCommand ==
  \A i, j \in 1 .. Len(m_CommandList) :
    m_CommandList[i].kind = "ONDISCONNECT" /\ m_CommandList[j].c = m_CommandList[i].c => j <= i
Life == LastCommand /\ \A c \in Conns : EndOnce(c)
LifeOK == Patient => Life

-----------------------------------------------------------------------------
(* Arithmetic                                                              *)

LEMMA TimesNext == ASSUME NEW a \in Nat, NEW n \in Nat PROVE (n + 1) * a = n * a + a /\ n * a \in Nat
  OBVIOUS

LEMMA TimesLess ==
  ASSUME NEW a \in Nat \ {0}, NEW n \in Nat, NEW m \in Nat, n * a <= m * a
  PROVE  n <= m
  OBVIOUS

LEMMA TimesMore ==
  ASSUME NEW a \in Nat, NEW n \in Nat, NEW m \in Nat, n <= m
  PROVE  n * a <= m * a
  OBVIOUS

LEMMA Quotient ==
  ASSUME NEW a \in Nat \ {0}, NEW n \in Nat, NEW r \in Nat, r < a
  PROVE  (n * a + r) \div a = n /\ (n * a + r) % a = r
  OBVIOUS

LEMMA QuotientFits ==
  ASSUME NEW a \in Nat \ {0}, NEW n \in Nat
  PROVE  n \div a \in Nat /\ (n \div a) * a <= n
  OBVIOUS

LEMMA QuotientMore ==
  ASSUME NEW a \in Nat \ {0}, NEW n \in Nat, NEW m \in Nat, n <= m
  PROVE  n \div a <= m \div a
  OBVIOUS

LEMMA QuotientLess ==
  ASSUME NEW a \in Nat \ {0}, NEW n \in Nat, NEW m \in Nat, n <= m * a
  PROVE  n \div a <= m
  OBVIOUS

LEMMA MinOfTwo ==
  ASSUME NEW a \in Int, NEW b \in Int
  PROVE  Min({a, b}) = IF a <= b THEN a ELSE b
<1>1. \E x \in {a, b} : \A y \in {a, b} : x <= y
  OBVIOUS
<1>2. Min({a, b}) \in {a, b} /\ \A y \in {a, b} : Min({a, b}) <= y
  BY <1>1 DEF Min
<1> QED BY <1>2

\* A function on 1 .. n is a sequence of length n.
LEMMA MakeSeq ==
  ASSUME NEW S, NEW n \in Nat, NEW f \in [1 .. n -> S]
  PROVE  f \in Seq(S) /\ Len(f) = n
  OBVIOUS

\* send takes what there is room for.
LEMMA SendableFits ==
  ASSUME Types, AnswersOK, NEW c \in Conns
  PROVE  /\ Sendable(c) \in 0 .. left[c]
         /\ Len(out[c]) + Sendable(c) - readN[c] <= Room
         /\ Sendable(c) = 0 => left[c] = 0 \/ Full(c)
<1>1. left[c] \in 0 .. Answer /\ Len(out[c]) \in Nat /\ readN[c] \in Nat
  BY DEF Types, ClientTypes, SocketTypes, ConnTypes
<1>2. readN[c] <= Len(out[c]) /\ Len(out[c]) - readN[c] <= Room
  BY DEF AnswersOK, OutOK, BegunOK
<1>3. Room - (Len(out[c]) - readN[c]) \in Int /\ left[c] \in Int /\ Room \in Nat /\ Answer \in Nat
  BY <1>1, Lengths
<1>4. Sendable(c) = IF left[c] <= Room - (Len(out[c]) - readN[c]) THEN left[c]
                    ELSE Room - (Len(out[c]) - readN[c])
  BY <1>3, MinOfTwo DEF Sendable
<1> QED BY <1>1, <1>2, <1>3, <1>4 DEF Full

LEMMA SendGrows ==
  ASSUME Types, NEW c \in Conns, NEW k \in 0 .. left[c], Send(c, k)
  PROVE  /\ out' \in [Conns -> Seq(Nat \X Nat)]
         /\ \A d \in Conns \ {c} : out'[d] = out[d]
         /\ Len(out'[c]) = Len(out[c]) + k
         /\ \A i \in 1 .. Len(out[c]) : out'[c][i] = out[c][i]
         /\ \A i \in 1 .. k : out'[c][Len(out[c]) + i] = <<m_SendBuf[c], Answer - left[c] + i>>
<1> DEFINE t == [i \in 1 .. k |-> <<m_SendBuf[c], Answer - left[c] + i>>]
<1>1. left[c] \in 0 .. Answer /\ m_SendBuf[c] \in Nat /\ out[c] \in Seq(Nat \X Nat) /\ Answer \in Nat
  BY Lengths DEF Types, SocketTypes, ConnTypes
<1>2. t \in [1 .. k -> Nat \X Nat] /\ k \in Nat
  BY <1>1
<1>3. t \in Seq(Nat \X Nat) /\ Len(t) = k
  BY <1>2, MakeSeq
<1>4. out' = [out EXCEPT ![c] = out[c] \o t]
  BY DEF Send
<1>5. out'[c] = out[c] \o t /\ \A d \in Conns \ {c} : out'[d] = out[d]
  BY <1>4 DEF Types, SocketTypes
<1>6. out[c] \o t \in Seq(Nat \X Nat)
  BY <1>1, <1>3
<1>7. out' \in [Conns -> Seq(Nat \X Nat)]
  BY <1>4, <1>6 DEF Types, SocketTypes
<1>8. \A i \in 1 .. k : t[i] = <<m_SendBuf[c], Answer - left[c] + i>>
  OBVIOUS
<1> HIDE DEF t
<1>9. /\ Len(out[c] \o t) = Len(out[c]) + k
      /\ \A i \in 1 .. Len(out[c]) + k : (out[c] \o t)[i] =
           IF i <= Len(out[c]) THEN out[c][i] ELSE t[i - Len(out[c])]
  <2>1. /\ Len(out[c] \o t) = Len(out[c]) + Len(t)
        /\ \A i \in 1 .. Len(out[c]) + Len(t) : (out[c] \o t)[i] =
             IF i <= Len(out[c]) THEN out[c][i] ELSE t[i - Len(out[c])]
    BY <1>1, <1>3, ConcatProperties, Zenon
  <2> QED BY <1>3, <2>1
<1>10. Len(out[c]) \in Nat
  BY <1>1
<1>11. \A i \in 1 .. Len(out[c]) : out'[c][i] = out[c][i]
  BY <1>2, <1>5, <1>9, <1>10
<1>12. ASSUME NEW i \in 1 .. k
       PROVE  out'[c][Len(out[c]) + i] = <<m_SendBuf[c], Answer - left[c] + i>>
  <2>1. /\ Len(out[c]) + i \in 1 .. Len(out[c]) + k /\ ~(Len(out[c]) + i <= Len(out[c]))
        /\ Len(out[c]) + i - Len(out[c]) = i
    BY <1>2, <1>10
  <2>2. out'[c][Len(out[c]) + i] = t[Len(out[c]) + i - Len(out[c])]
    BY <1>5, <1>9, <2>1
  <2>3. out'[c][Len(out[c]) + i] = t[i]
    BY <2>1, <2>2
  <2> QED BY <1>8, <2>3
<1> QED BY <1>5, <1>7, <1>9, <1>11, <1>12

\* What is sent comes after what was sent before.
LEMMA OutGrows ==
  ASSUME Types, NEW c \in Conns, NEW k \in 0 .. left[c], Send(c, k), NEW d \in Conns
  PROVE  /\ k \in Nat /\ Len(out[d]) \in Nat /\ Len(out'[d]) \in Nat
         /\ Len(out'[d]) >= Len(out[d])
         /\ Len(out'[d]) = Len(out[d]) + (IF d = c THEN k ELSE 0)
<1>1. k \in Nat /\ Len(out[d]) \in Nat
  BY DEF Types, SocketTypes, ConnTypes
<1>2. CASE d = c
  BY <1>1, <1>2, SendGrows
<1>3. CASE d # c
  BY <1>1, <1>3, SendGrows
<1> QED BY <1>2, <1>3

-----------------------------------------------------------------------------
(* Types                                                                   *)

\* A thread that is in a call about a connection has one.
LEMMA HandsConns ==
  ASSUME Types, HandsOK
  PROVE  /\ w.at \in {"OnConnection", "recv", "OnData", "OnDisconnect", "SendMessage"} => w.c \in Conns
         /\ cmd.at \in {"SendData", "sem_wait", "send"} => cmd.c \in Conns /\ cmd.due >= 1
  BY Names DEF Types, WorkerTypes, CommandTypes, HandsOK, Sending, MaybeConn

LEMMA Numbers ==
  /\ 0 \in 0 .. MAXLINE /\ MAXLINE \in Nat \ {0} /\ Request \in Nat \ {0} /\ Requests \in Nat \ {0}
  /\ Room \in Nat \ {0} /\ InputBuffer \in Nat \ {0} /\ Answer \in Nat
  BY Lengths

\* The first command, and the list without it.
LEMMA CurrentCommand ==
  ASSUME CommandTypes, m_CommandList # <<>>
  PROVE  /\ Current \in Commands /\ Current = m_CommandList[1]
         /\ Len(m_CommandList) \in Nat \ {0}
         /\ Tail(m_CommandList) \in Seq(Commands)
         /\ Len(Tail(m_CommandList)) = Len(m_CommandList) - 1
         /\ \A i \in 1 .. Len(m_CommandList) - 1 : Tail(m_CommandList)[i] = m_CommandList[i + 1]
<1>1. m_CommandList \in Seq(Commands)
  BY DEF CommandTypes
<1>2. /\ Head(m_CommandList) \in Commands /\ Tail(m_CommandList) \in Seq(Commands)
      /\ Len(Tail(m_CommandList)) = Len(m_CommandList) - 1
      /\ \A i \in 1 .. Len(Tail(m_CommandList)) : Tail(m_CommandList)[i] = m_CommandList[i + 1]
  BY <1>1, HeadTailProperties, Zenon
<1>3. Len(m_CommandList) \in Nat \ {0} /\ Head(m_CommandList) = m_CommandList[1]
  BY <1>1
<1> QED BY <1>2, <1>3 DEF Current

\* A command that is pushed comes last.
LEMMA PushedCommand ==
  ASSUME CommandTypes, NEW m \in Commands
  PROVE  /\ Append(m_CommandList, m) \in Seq(Commands)
         /\ Len(m_CommandList) \in Nat
         /\ Len(Append(m_CommandList, m)) = Len(m_CommandList) + 1
         /\ \A i \in 1 .. Len(m_CommandList) : Append(m_CommandList, m)[i] = m_CommandList[i]
         /\ Append(m_CommandList, m)[Len(m_CommandList) + 1] = m
<1>1. m_CommandList \in Seq(Commands)
  BY DEF CommandTypes
<1>2. Len(m_CommandList) \in Nat
  BY <1>1
<1>3. /\ Append(m_CommandList, m) \in Seq(Commands)
      /\ Len(Append(m_CommandList, m)) = Len(m_CommandList) + 1
      /\ \A i \in 1 .. Len(m_CommandList) : Append(m_CommandList, m)[i] = m_CommandList[i]
      /\ Append(m_CommandList, m)[Len(m_CommandList) + 1] = m
  BY <1>1, AppendProperties
<1> QED BY <1>2, <1>3

\* How many answers ONDATA brings is a number.
LEMMA DueIsNumber ==
  ASSUME NEW n \in Nat, NEW m \in Nat
  PROVE  ((n + m) \div Request) - (n \div Request) \in Nat
<1>1. n + m \in Nat /\ n <= n + m
  OBVIOUS
<1>2. n \div Request \in Nat /\ (n + m) \div Request \in Nat /\ n \div Request <= (n + m) \div Request
  BY <1>1, Numbers, QuotientFits, QuotientMore
<1> QED BY <1>2

-----------------------------------------------------------------------------
(* What the steps with a choice do                                         *)

LEMMA Accepted ==
  ASSUME Types, EventsOK, AcceptConnection
  PROVE  /\ Head(backlog) \in Conns /\ Head(backlog) = backlog[1]
         /\ Len(backlog) \in Nat \ {0}
         /\ backlog' \in Seq(Conns) /\ Len(backlog') = Len(backlog) - 1
         /\ \A i \in 1 .. Len(backlog) - 1 : backlog'[i] = backlog[i + 1]
         /\ w'.at = "OnConnection" /\ w'.c = Head(backlog)
<1>1. backlog \in Seq(Conns) /\ backlog # <<>> /\ backlog' = Tail(backlog)
  BY DEF Types, SocketTypes, EventsOK, AcceptConnection
<1>2. /\ Head(backlog) \in Conns /\ Tail(backlog) \in Seq(Conns)
      /\ Len(Tail(backlog)) = Len(backlog) - 1
      /\ \A i \in 1 .. Len(Tail(backlog)) : Tail(backlog)[i] = backlog[i + 1]
  BY <1>1, HeadTailProperties, Zenon
<1>3. Len(backlog) \in Nat \ {0} /\ Head(backlog) = backlog[1]
  BY <1>1
<1>4. w'.at = "OnConnection" /\ w'.c = Head(backlog)
  BY DEF AcceptConnection, Types, WorkerTypes
<1> QED BY <1>1, <1>2, <1>3, <1>4

LEMMA LeftTaken ==
  ASSUME Types, NEW c \in Conns, BeginSendLeft(c)
  PROVE  \/ left[c] = 0 /\ w'.at = "events" /\ w'.c = NoConn
         \/ left[c] # 0 /\ w'.at = "SendMessage" /\ w'.c = c
<1>1. CASE left[c] = 0
  BY <1>1 DEF BeginSendLeft, Return
<1>2. CASE left[c] # 0
  BY <1>2 DEF BeginSendLeft, Types, WorkerTypes
<1> QED BY <1>1, <1>2

LEMMA DataTaken ==
  ASSUME Types, HandleOnData, Answer > 0,
         NEW n, n = handled[Current.c] + Current.len,
         NEW due, due = (n \div Request) - (handled[Current.c] \div Request)
  PROVE  /\ Current \in Commands /\ n \in Nat /\ due \in Nat /\ handled[Current.c] \in Nat
         /\ handled' = [handled EXCEPT ![Current.c] = n]
         /\ \/ due = 0 /\ cmd' = cmd
            \/ due > 0 /\ cmd' = [at |-> "SendData", c |-> Current.c, due |-> due]
<1>1. Current \in Commands /\ Current.c \in Conns /\ Current.len \in Nat
  BY CurrentCommand DEF HandleOnData, Handling, Commands, Types
<1>2. handled[Current.c] \in Nat
  BY <1>1 DEF Types, CommandTypes
<1>3. due \in Nat /\ n \in Nat
  BY <1>1, <1>2, DueIsNumber
<1>4. /\ handled' = [handled EXCEPT ![Current.c] = n]
      /\ cmd' = IF due = 0 THEN cmd ELSE [at |-> "SendData", c |-> Current.c, due |-> due]
  BY DEF HandleOnData
<1> QED BY <1>1, <1>2, <1>3, <1>4

LEMMA NextDue ==
  ASSUME Types, HandsOK, Sending, NextAnswer
  PROVE  \/ cmd.due = 1 /\ cmd'.at = "batch" /\ cmd'.c = NoConn /\ cmd'.due = 0
         \/ /\ cmd'.at = "SendData" /\ cmd'.c = cmd.c
            /\ cmd'.due \in Nat /\ cmd'.due >= 1 /\ cmd.due = cmd'.due + 1
<1>1. cmd.due \in Nat /\ cmd.due >= 1
  BY DEF Types, CommandTypes, HandsOK
<1>2. CASE cmd.due = 1
  BY <1>2 DEF NextAnswer
<1>3. CASE cmd.due # 1
  BY <1>1, <1>3 DEF NextAnswer, Types, CommandTypes
<1> QED BY <1>2, <1>3

-----------------------------------------------------------------------------
(* Types and hands are kept                                               *)

LEMMA TypesStep == Basics /\ [Next]_vars => Types'
<1> SUFFICES ASSUME Basics, [Next]_vars PROVE Types'
  OBVIOUS
<1>0. /\ ClientTypes /\ SocketTypes /\ EpollTypes /\ WorkerTypes /\ ConnTypes /\ CommandTypes
      /\ Basics /\ Types
  BY DEF Basics, Types
<1>00. /\ w.at \in {"OnConnection", "recv", "OnData", "OnDisconnect", "SendMessage"}
            => w.c \in Conns
       /\ cmd.at \in {"SendData", "sem_wait", "send"} => cmd.c \in Conns /\ cmd.due >= 1
  BY HandsConns DEF Basics
<1>1. ASSUME NEW c \in Conns, Connect(c) PROVE Types'
  <2>1. WorkerTypes' /\ ConnTypes' /\ CommandTypes'
    BY <1>0, <1>1 DEF WorkerTypes, ConnTypes, CommandTypes, Connect, socketVars, sendVars,
                      workerVars, commandVars, clientVars
  <2>2. ClientTypes'
    BY <1>0, <1>00, <1>1 DEF ClientTypes, Connect, socketVars, sendVars, workerVars, commandVars,
                             clientVars
  <2>3. SocketTypes'
    BY <1>0, <1>00, <1>1 DEF SocketTypes, Connect, socketVars, sendVars, workerVars, commandVars,
                             clientVars
  <2>4. EpollTypes'
    BY <1>0, <1>00, <1>1 DEF EpollTypes, Connect, socketVars, sendVars, workerVars, commandVars,
                             clientVars
  <2> QED BY <2>1, <2>2, <2>3, <2>4 DEF Types
<1>2. ASSUME NEW c \in Conns, Ask(c) PROVE Types'
  <2>a. asked[c] + 1 \in 0 .. Requests /\ flying[c] + Request \in Nat
    BY <1>0, <1>2, Numbers DEF Ask, ClientTypes
  <2>1. SocketTypes' /\ EpollTypes' /\ WorkerTypes' /\ ConnTypes' /\ CommandTypes'
    BY <1>0, <1>2 DEF SocketTypes, EpollTypes, WorkerTypes, ConnTypes, CommandTypes, Ask,
                      socketVars, sendVars, workerVars, commandVars, clientVars
  <2>2. ClientTypes'
    BY <1>0, <1>00, <1>2, <2>a DEF ClientTypes, Ask, socketVars, sendVars, workerVars,
                                   commandVars, clientVars
  <2> QED BY <2>1, <2>2 DEF Types
<1>3. ASSUME NEW c \in Conns, Read(c) PROVE Types'
  <2>1. SocketTypes' /\ WorkerTypes' /\ ConnTypes' /\ CommandTypes'
    BY <1>0, <1>3 DEF SocketTypes, WorkerTypes, ConnTypes, CommandTypes, Read, Edge, socketVars,
                      sendVars, workerVars, commandVars, clientVars
  <2>2. ClientTypes'
    BY <1>0, <1>00, <1>3 DEF ClientTypes, Read, Edge, socketVars, sendVars, workerVars,
                             commandVars, clientVars
  <2>3. EpollTypes'
    BY <1>0, <1>00, <1>3 DEF EpollTypes, Read, Edge, socketVars, sendVars, workerVars,
                             commandVars, clientVars
  <2> QED BY <2>1, <2>2, <2>3 DEF Types
<1>4. ASSUME NEW c \in Conns, ClientClose(c) PROVE Types'
  <2>1. SocketTypes' /\ EpollTypes' /\ WorkerTypes' /\ ConnTypes' /\ CommandTypes'
    BY <1>0, <1>4 DEF SocketTypes, EpollTypes, WorkerTypes, ConnTypes, CommandTypes, ClientClose,
                      socketVars, sendVars, workerVars, commandVars, clientVars
  <2>2. ClientTypes'
    BY <1>0, <1>00, <1>4 DEF ClientTypes, ClientClose, socketVars, sendVars, workerVars,
                             commandVars, clientVars
  <2> QED BY <2>1, <2>2 DEF Types
<1>5. ASSUME NEW c \in Conns, NEW n \in 1 .. (Requests * Request), Arrive(c, n) PROVE Types'
  <2>1. WorkerTypes' /\ ConnTypes' /\ CommandTypes'
    BY <1>0, <1>5 DEF WorkerTypes, ConnTypes, CommandTypes, Arrive, Edge, socketVars, sendVars,
                      workerVars, commandVars, clientVars
  <2>2. ClientTypes'
    BY <1>0, <1>00, <1>5 DEF ClientTypes, Arrive, Edge, socketVars, sendVars, workerVars,
                             commandVars, clientVars
  <2>3. SocketTypes'
    BY <1>0, <1>00, <1>5 DEF SocketTypes, Arrive, Edge, socketVars, sendVars, workerVars,
                             commandVars, clientVars
  <2>4. EpollTypes'
    BY <1>0, <1>00, <1>5 DEF EpollTypes, Arrive, Edge, socketVars, sendVars, workerVars,
                             commandVars, clientVars
  <2> QED BY <2>1, <2>2, <2>3, <2>4 DEF Types
<1>6. ASSUME NEW c \in Conns, EndArrives(c) PROVE Types'
  <2>1. ClientTypes' /\ WorkerTypes' /\ ConnTypes' /\ CommandTypes'
    BY <1>0, <1>6 DEF ClientTypes, WorkerTypes, ConnTypes, CommandTypes, EndArrives, Edge,
                      socketVars, sendVars, workerVars, commandVars, clientVars
  <2>2. SocketTypes'
    BY <1>0, <1>00, <1>6 DEF SocketTypes, EndArrives, Edge, socketVars, sendVars, workerVars,
                             commandVars, clientVars
  <2>3. EpollTypes'
    BY <1>0, <1>00, <1>6 DEF EpollTypes, EndArrives, Edge, socketVars, sendVars, workerVars,
                             commandVars, clientVars
  <2> QED BY <2>1, <2>2, <2>3 DEF Types
<1>7. ASSUME NEW c \in Conns, ResetArrives(c) PROVE Types'
  <2>1. ClientTypes' /\ WorkerTypes' /\ ConnTypes' /\ CommandTypes'
    BY <1>0, <1>7 DEF ClientTypes, WorkerTypes, ConnTypes, CommandTypes, ResetArrives,
                      socketVars, sendVars, workerVars, commandVars, clientVars
  <2>2. SocketTypes'
    BY <1>0, <1>00, <1>7 DEF SocketTypes, ResetArrives, socketVars, sendVars, workerVars,
                             commandVars, clientVars
  <2>3. EpollTypes'
    BY <1>0, <1>00, <1>7 DEF EpollTypes, ResetArrives, socketVars, sendVars, workerVars,
                             commandVars, clientVars
  <2> QED BY <2>1, <2>2, <2>3 DEF Types
<1>8. CASE EpollWait
  <2>1. ClientTypes' /\ SocketTypes' /\ ConnTypes' /\ CommandTypes'
    BY <1>0, <1>8 DEF ClientTypes, SocketTypes, ConnTypes, CommandTypes, EpollWait, Return,
                      Reported, socketVars, sendVars, workerVars, commandVars, clientVars
  <2>2. EpollTypes'
    BY <1>0, <1>00, <1>8 DEF EpollTypes, EpollWait, Return, Reported, socketVars, sendVars,
                             workerVars, commandVars, clientVars
  <2>3. WorkerTypes'
    BY <1>0, <1>00, <1>8, Numbers DEF WorkerTypes, MaybeConn, Commands, EpollWait, Return,
                                      Reported, socketVars, sendVars, workerVars, commandVars,
       clientVars
  <2> QED BY <2>1, <2>2, <2>3 DEF Types
<1>9. CASE NextRound
  <2>1. ClientTypes' /\ SocketTypes' /\ EpollTypes' /\ ConnTypes' /\ CommandTypes'
    BY <1>0, <1>9 DEF ClientTypes, SocketTypes, EpollTypes, ConnTypes, CommandTypes, NextRound,
                      socketVars, sendVars, workerVars, commandVars, clientVars
  <2>2. WorkerTypes'
    BY <1>0, <1>00, <1>9, Numbers DEF WorkerTypes, MaybeConn, Commands, NextRound, socketVars,
                                      sendVars, workerVars, commandVars, clientVars
  <2> QED BY <2>1, <2>2 DEF Types
<1>10. CASE AcceptConnection
  <2>a. Head(backlog) \in Conns /\ Tail(backlog) \in Seq(Conns)
    BY <1>0, <1>10, HeadTailProperties, Zenon DEF AcceptConnection, SocketTypes, EventsOK, Basics
  <2>1. ClientTypes' /\ CommandTypes'
    BY <1>0, <1>10 DEF ClientTypes, CommandTypes, AcceptConnection, Ctl, socketVars, sendVars,
                       workerVars, commandVars, clientVars
  <2>2. EpollTypes'
    BY <1>0, <1>00, <1>10, <2>a DEF EpollTypes, AcceptConnection, Ctl, socketVars, sendVars,
                                    workerVars, commandVars, clientVars
  <2>3. WorkerTypes'
    BY <1>0, <1>00, <1>10, Numbers, <2>a DEF WorkerTypes, MaybeConn, Commands, AcceptConnection,
       Ctl, socketVars, sendVars, workerVars, commandVars, clientVars
  <2>4. ConnTypes'
    BY <1>0, <1>00, <1>10, <2>a DEF ConnTypes, AcceptConnection, Ctl, socketVars, sendVars,
                                    workerVars, commandVars, clientVars
  <2>5. SocketTypes'
    BY <1>0, <1>00, <1>10, <2>a DEF SocketTypes, AcceptConnection, Ctl, socketVars, sendVars,
                                    workerVars, commandVars, clientVars
  <2> QED BY <2>1, <2>2, <2>3, <2>4, <2>5 DEF Types
<1>11. CASE OnConnection
  <2>a. /\ w.c \in Conns /\ w.len \in Nat
        /\ Append(m_CommandList, [kind |-> "ONCONNECT", c |-> w.c, len |-> 0]) \in Seq(Commands)
    BY <1>0, <1>00, <1>11, PushedCommand DEF OnConnection, WorkerTypes, Commands
  <2>1. ClientTypes' /\ SocketTypes' /\ EpollTypes'
    BY <1>0, <1>11 DEF ClientTypes, SocketTypes, EpollTypes, OnConnection, Push, Return,
                       socketVars, sendVars, workerVars, commandVars, clientVars
  <2>2. WorkerTypes'
    BY <1>0, <1>00, <1>11, Numbers DEF WorkerTypes, MaybeConn, Commands, OnConnection, Push,
                                       Return, socketVars, sendVars, workerVars, commandVars,
       clientVars
  <2>3. ConnTypes'
    BY <1>0, <1>00, <1>11 DEF ConnTypes, OnConnection, Push, Return, socketVars, sendVars,
                              workerVars, commandVars, clientVars
  <2>4. CommandTypes'
    BY <1>0, <1>00, <1>11, <2>a DEF CommandTypes, MaybeConn, Commands, OnConnection, Push,
                                    Return, socketVars, sendVars, workerVars, commandVars,
       clientVars
  <2> QED BY <2>1, <2>2, <2>3, <2>4 DEF Types
<1>12. CASE OnData
  <2>a. /\ w.c \in Conns /\ w.len \in Nat
        /\ Append(m_CommandList, [kind |-> "ONDATA", c |-> w.c, len |-> w.len]) \in Seq(Commands)
    BY <1>0, <1>00, <1>12, PushedCommand DEF OnData, WorkerTypes, Commands
  <2>1. ClientTypes' /\ SocketTypes' /\ EpollTypes'
    BY <1>0, <1>12 DEF ClientTypes, SocketTypes, EpollTypes, OnData, Push, Return, socketVars,
                       sendVars, workerVars, commandVars, clientVars
  <2>2. WorkerTypes'
    BY <1>0, <1>00, <1>12, Numbers DEF WorkerTypes, MaybeConn, Commands, OnData, Push, Return,
                                       socketVars, sendVars, workerVars, commandVars, clientVars
  <2>3. ConnTypes'
    BY <1>0, <1>00, <1>12 DEF ConnTypes, OnData, Push, Return, socketVars, sendVars, workerVars,
                              commandVars, clientVars
  <2>4. CommandTypes'
    BY <1>0, <1>00, <1>12, <2>a DEF CommandTypes, MaybeConn, Commands, OnData, Push, Return,
                                    socketVars, sendVars, workerVars, commandVars, clientVars
  <2> QED BY <2>1, <2>2, <2>3, <2>4 DEF Types
<1>13. CASE OnDisconnect
  <2>a. /\ w.c \in Conns /\ w.len \in Nat
        /\ Append(m_CommandList, [kind |-> "ONDISCONNECT", c |-> w.c, len |-> 0]) \in Seq(Commands)
    BY <1>0, <1>00, <1>13, PushedCommand DEF OnDisconnect, WorkerTypes, Commands
  <2>1. ClientTypes' /\ SocketTypes' /\ EpollTypes'
    BY <1>0, <1>13 DEF ClientTypes, SocketTypes, EpollTypes, OnDisconnect, Push, Return,
                       socketVars, sendVars, workerVars, commandVars, clientVars
  <2>2. WorkerTypes'
    BY <1>0, <1>00, <1>13, Numbers DEF WorkerTypes, MaybeConn, Commands, OnDisconnect, Push,
                                       Return, socketVars, sendVars, workerVars, commandVars,
       clientVars
  <2>3. ConnTypes'
    BY <1>0, <1>00, <1>13 DEF ConnTypes, OnDisconnect, Push, Return, socketVars, sendVars,
                              workerVars, commandVars, clientVars
  <2>4. CommandTypes'
    BY <1>0, <1>00, <1>13, <2>a DEF CommandTypes, MaybeConn, Commands, OnDisconnect, Push,
                                    Return, socketVars, sendVars, workerVars, commandVars,
       clientVars
  <2> QED BY <2>1, <2>2, <2>3, <2>4 DEF Types
<1>14. ASSUME NEW c \in Conns, BeginRecv(c) PROVE Types'
  <2>1. ClientTypes' /\ SocketTypes' /\ ConnTypes' /\ CommandTypes'
    BY <1>0, <1>14 DEF ClientTypes, SocketTypes, ConnTypes, CommandTypes, BeginRecv, socketVars,
                       sendVars, workerVars, commandVars, clientVars
  <2>2. EpollTypes'
    BY <1>0, <1>00, <1>14 DEF EpollTypes, BeginRecv, socketVars, sendVars, workerVars,
                              commandVars, clientVars
  <2>3. WorkerTypes'
    BY <1>0, <1>00, <1>14, Numbers DEF WorkerTypes, MaybeConn, Commands, BeginRecv, socketVars,
                                       sendVars, workerVars, commandVars, clientVars
  <2> QED BY <2>1, <2>2, <2>3 DEF Types
<1>15. ASSUME NEW c \in Conns, BeginSendLeft(c) PROVE Types'
  <2>a. \/ w' = [at |-> "events", c |-> NoConn, len |-> 0, recvNum |-> 0]
        \/ w' = [w EXCEPT !.at = "SendMessage", !.c = c]
    BY <1>15 DEF BeginSendLeft, Return
  <2>1. ClientTypes' /\ SocketTypes' /\ ConnTypes' /\ CommandTypes'
    BY <1>0, <1>15 DEF ClientTypes, SocketTypes, ConnTypes, CommandTypes, BeginSendLeft, Return,
                       socketVars, sendVars, workerVars, commandVars, clientVars
  <2>2. EpollTypes'
    BY <1>0, <1>00, <1>15 DEF EpollTypes, BeginSendLeft, Return, socketVars, sendVars,
                              workerVars, commandVars, clientVars
  <2>3. WorkerTypes'
    <3>1. CASE w' = [at |-> "events", c |-> NoConn, len |-> 0, recvNum |-> 0]
      BY <3>1, Numbers DEF WorkerTypes, MaybeConn
    <3>2. CASE w' = [w EXCEPT !.at = "SendMessage", !.c = c]
      BY <1>0, <3>2 DEF WorkerTypes, MaybeConn
    <3> QED BY <2>a, <3>1, <3>2
  <2> QED BY <2>1, <2>2, <2>3 DEF Types
<1>16. CASE Recv
  <2>b. w.c \in Conns /\ rx[w.c] \in Nat
    BY <1>0, <1>00, <1>16 DEF Recv, SocketTypes
  <2>c. Min({MAXLINE, rx[w.c]}) = IF MAXLINE <= rx[w.c] THEN MAXLINE ELSE rx[w.c]
    BY <2>b, Numbers, MinOfTwo
  <2>a. /\ w.c \in Conns /\ Min({MAXLINE, rx[w.c]}) \in 0 .. MAXLINE
        /\ Min({MAXLINE, rx[w.c]}) \in Nat /\ rx[w.c] - Min({MAXLINE, rx[w.c]}) \in Nat
    BY <2>b, <2>c, Numbers
  <2>1. ClientTypes' /\ EpollTypes' /\ ConnTypes' /\ CommandTypes'
    BY <1>0, <1>16 DEF ClientTypes, EpollTypes, ConnTypes, CommandTypes, Recv, socketVars,
                       sendVars, workerVars, commandVars, clientVars
  <2>2. SocketTypes'
    BY <1>0, <1>00, <1>16, <2>a DEF SocketTypes, Recv, socketVars, sendVars, workerVars,
                                    commandVars, clientVars
  <2>3. WorkerTypes'
    <3> DEFINE n == Min({MAXLINE, rx[w.c]})
    <3>1. w' = [w EXCEPT !.at = IF n = MAXLINE THEN "recv" ELSE "OnData", !.len = @ + n, !.recvNum = n]
      BY <1>16 DEF Recv
    <3>2. n \in 0 .. MAXLINE /\ w.len + n \in Nat
      BY <1>0, <2>a DEF WorkerTypes
    <3> HIDE DEF n
    <3> QED BY <1>0, <3>1, <3>2 DEF WorkerTypes
  <2> QED BY <2>1, <2>2, <2>3 DEF Types
<1>17. CASE RecvNothing
  <2>1. ClientTypes' /\ SocketTypes' /\ EpollTypes' /\ ConnTypes' /\ CommandTypes'
    BY <1>0, <1>17 DEF ClientTypes, SocketTypes, EpollTypes, ConnTypes, CommandTypes,
                       RecvNothing, socketVars, sendVars, workerVars, commandVars, clientVars
  <2>2. WorkerTypes'
    BY <1>0, <1>00, <1>17, Numbers DEF WorkerTypes, MaybeConn, Commands, RecvNothing, socketVars,
                                       sendVars, workerVars, commandVars, clientVars
  <2> QED BY <2>1, <2>2 DEF Types
<1>18. CASE SendLeftPart
  <2>a. /\ w.c \in Conns /\ Sendable(w.c) \in 0 .. left[w.c] /\ Send(w.c, Sendable(w.c))
        /\ out' \in [Conns -> Seq(Nat \X Nat)]
    BY <1>0, <1>00, <1>18, SendableFits, SendGrows DEF Basics, SendLeftPart
  <2>b. left[w.c] - Sendable(w.c) \in 0 .. Answer /\ 0 \in 0 .. Answer /\ sem[w.c] + 1 \in Nat /\ w.c \in Conns
    BY <1>0, <2>a, Numbers DEF ConnTypes
  <2>1. ClientTypes' /\ EpollTypes' /\ WorkerTypes' /\ CommandTypes'
    BY <1>0, <1>18 DEF ClientTypes, EpollTypes, WorkerTypes, CommandTypes, SendLeftPart,
                       socketVars, sendVars, workerVars, commandVars, clientVars
  <2>2. SocketTypes'
    BY <1>0, <1>00, <1>18, <2>a DEF SocketTypes, SendLeftPart, socketVars, sendVars, workerVars,
                                    commandVars, clientVars
  <2>3. ConnTypes'
    BY <1>0, <1>00, <1>18, <2>a, <2>b DEF ConnTypes, SendLeftPart, socketVars, sendVars,
                                          workerVars, commandVars, clientVars
  <2> QED BY <2>1, <2>2, <2>3 DEF Types
<1>19. CASE SendLeftEnd
  <2>a. /\ w.c \in Conns /\ Sendable(w.c) \in 0 .. left[w.c] /\ Send(w.c, Sendable(w.c))
        /\ out' \in [Conns -> Seq(Nat \X Nat)]
    BY <1>0, <1>00, <1>19, SendableFits, SendGrows DEF Basics, SendLeftEnd
  <2>b. left[w.c] - Sendable(w.c) \in 0 .. Answer /\ 0 \in 0 .. Answer /\ sem[w.c] + 1 \in Nat /\ w.c \in Conns
    BY <1>0, <2>a, Numbers DEF ConnTypes
  <2>1. ClientTypes' /\ CommandTypes'
    BY <1>0, <1>19 DEF ClientTypes, CommandTypes, SendLeftEnd, Return, Ctl, socketVars, sendVars,
                       workerVars, commandVars, clientVars
  <2>2. SocketTypes'
    BY <1>0, <1>00, <1>19, <2>a DEF SocketTypes, SendLeftEnd, Return, Ctl, socketVars, sendVars,
                                    workerVars, commandVars, clientVars
  <2>3. EpollTypes'
    BY <1>0, <1>00, <1>19 DEF EpollTypes, SendLeftEnd, Return, Ctl, socketVars, sendVars,
                              workerVars, commandVars, clientVars
  <2>4. ConnTypes'
    BY <1>0, <1>00, <1>19, <2>b DEF ConnTypes, SendLeftEnd, Return, Ctl, socketVars, sendVars,
                                    workerVars, commandVars, clientVars
  <2>5. WorkerTypes'
    BY <1>0, <1>00, <1>19, Numbers DEF WorkerTypes, MaybeConn, Commands, SendLeftEnd, Return,
                                       Ctl, socketVars, sendVars, workerVars, commandVars,
       clientVars
  <2> QED BY <2>1, <2>2, <2>3, <2>4, <2>5 DEF Types
<1>20. CASE SendLeftFails
  <2>1. ClientTypes' /\ SocketTypes' /\ EpollTypes' /\ CommandTypes'
    BY <1>0, <1>20 DEF ClientTypes, SocketTypes, EpollTypes, CommandTypes, SendLeftFails, Return,
                       socketVars, sendVars, workerVars, commandVars, clientVars
  <2>2. ConnTypes'
    BY <1>0, <1>00, <1>20 DEF ConnTypes, SendLeftFails, Return, socketVars, sendVars, workerVars,
                              commandVars, clientVars
  <2>3. WorkerTypes'
    BY <1>0, <1>00, <1>20, Numbers DEF WorkerTypes, MaybeConn, Commands, SendLeftFails, Return,
                                       socketVars, sendVars, workerVars, commandVars, clientVars
  <2> QED BY <2>1, <2>2, <2>3 DEF Types
<1>21. CASE BeginBatch
  <2>1. ClientTypes' /\ SocketTypes' /\ EpollTypes' /\ WorkerTypes' /\ ConnTypes'
    BY <1>0, <1>21 DEF ClientTypes, SocketTypes, EpollTypes, WorkerTypes, ConnTypes, BeginBatch,
                       socketVars, sendVars, workerVars, commandVars, clientVars
  <2>2. CommandTypes'
    BY <1>0, <1>00, <1>21 DEF CommandTypes, MaybeConn, Commands, BeginBatch, socketVars,
                              sendVars, workerVars, commandVars, clientVars
  <2> QED BY <2>1, <2>2 DEF Types
<1>22. CASE EndBatch
  <2>1. ClientTypes' /\ SocketTypes' /\ EpollTypes' /\ WorkerTypes' /\ ConnTypes'
    BY <1>0, <1>22 DEF ClientTypes, SocketTypes, EpollTypes, WorkerTypes, ConnTypes, EndBatch,
                       socketVars, sendVars, workerVars, commandVars, clientVars
  <2>2. CommandTypes'
    BY <1>0, <1>00, <1>22 DEF CommandTypes, MaybeConn, Commands, EndBatch, socketVars, sendVars,
                              workerVars, commandVars, clientVars
  <2> QED BY <2>1, <2>2 DEF Types
<1>23. CASE HandleOnConnect
  <2>1. ClientTypes' /\ SocketTypes' /\ EpollTypes' /\ WorkerTypes' /\ ConnTypes'
    BY <1>0, <1>23 DEF ClientTypes, SocketTypes, EpollTypes, WorkerTypes, ConnTypes,
                       HandleOnConnect, Handling, Done, Current, socketVars, sendVars,
       workerVars, commandVars, clientVars
  <2>2. CommandTypes'
    BY <1>0, <1>00, <1>23, CurrentCommand DEF CommandTypes, MaybeConn, Commands, HandleOnConnect,
       Handling, Done, Current, socketVars, sendVars, workerVars, commandVars, clientVars
  <2> QED BY <2>1, <2>2 DEF Types
<1>24. CASE HandleOnData
  <2>a. /\ Current.c \in Conns /\ Current.len \in Nat /\ Tail(m_CommandList) \in Seq(Commands)
        /\ handled[Current.c] \in Nat
        /\ ((handled[Current.c] + Current.len) \div Request) - (handled[Current.c] \div Request) \in Nat
    BY <1>0, <1>24, CurrentCommand, DueIsNumber DEF HandleOnData, Handling, CommandTypes, Commands
  <2>1. ClientTypes' /\ SocketTypes' /\ EpollTypes' /\ WorkerTypes' /\ ConnTypes'
    BY <1>0, <1>24 DEF ClientTypes, SocketTypes, EpollTypes, WorkerTypes, ConnTypes,
                       HandleOnData, Handling, Done, Current, socketVars, sendVars, workerVars,
       commandVars, clientVars
  <2>2. CommandTypes'
    BY <1>0, <1>00, <1>24, <2>a DEF CommandTypes, MaybeConn, Commands, HandleOnData, Handling,
                                    Done, Current, socketVars, sendVars, workerVars, commandVars,
       clientVars
  <2> QED BY <2>1, <2>2 DEF Types
<1>25. CASE HandleOnDisconnect
  <2>1. ClientTypes' /\ SocketTypes' /\ WorkerTypes'
    BY <1>0, <1>25 DEF ClientTypes, SocketTypes, WorkerTypes, HandleOnDisconnect, Handling, Done,
                       Current, socketVars, sendVars, workerVars, commandVars, clientVars
  <2>2. EpollTypes'
    BY <1>0, <1>00, <1>25, CurrentCommand DEF EpollTypes, HandleOnDisconnect, Handling, Done,
       Current, socketVars, sendVars, workerVars, commandVars, clientVars
  <2>3. ConnTypes'
    BY <1>0, <1>00, <1>25, CurrentCommand DEF ConnTypes, HandleOnDisconnect, Handling, Done,
       Current, socketVars, sendVars, workerVars, commandVars, clientVars
  <2>4. CommandTypes'
    BY <1>0, <1>00, <1>25, CurrentCommand DEF CommandTypes, MaybeConn, Commands,
       HandleOnDisconnect, Handling, Done, Current, socketVars, sendVars, workerVars,
       commandVars, clientVars
  <2> QED BY <2>1, <2>2, <2>3, <2>4 DEF Types
<1>26. CASE SendData
  <2>1. ClientTypes' /\ SocketTypes' /\ EpollTypes' /\ WorkerTypes'
    BY <1>0, <1>26 DEF ClientTypes, SocketTypes, EpollTypes, WorkerTypes, SendData, socketVars,
                       sendVars, workerVars, commandVars, clientVars
  <2>2. ConnTypes'
    BY <1>0, <1>00, <1>26 DEF ConnTypes, SendData, socketVars, sendVars, workerVars, commandVars,
                              clientVars
  <2>3. CommandTypes'
    BY <1>0, <1>00, <1>26 DEF CommandTypes, MaybeConn, Commands, SendData, socketVars, sendVars,
                              workerVars, commandVars, clientVars
  <2> QED BY <2>1, <2>2, <2>3 DEF Types
<1>27. CASE SemWait
  <2>a. cmd.c \in Conns /\ sem[cmd.c] - 1 \in Nat /\ Answer \in 0 .. Answer
    BY <1>0, <1>00, <1>27, Numbers DEF SemWait, ConnTypes
  <2>1. ClientTypes' /\ SocketTypes' /\ EpollTypes' /\ WorkerTypes'
    BY <1>0, <1>27 DEF ClientTypes, SocketTypes, EpollTypes, WorkerTypes, SemWait, socketVars,
                       sendVars, workerVars, commandVars, clientVars
  <2>2. ConnTypes'
    BY <1>0, <1>00, <1>27, <2>a DEF ConnTypes, SemWait, socketVars, sendVars, workerVars,
                                    commandVars, clientVars
  <2>3. CommandTypes'
    BY <1>0, <1>00, <1>27 DEF CommandTypes, MaybeConn, Commands, SemWait, socketVars, sendVars,
                              workerVars, commandVars, clientVars
  <2> QED BY <2>1, <2>2, <2>3 DEF Types
<1>28. CASE SendPart
  <2>a. /\ cmd.c \in Conns /\ Sendable(cmd.c) \in 0 .. left[cmd.c] /\ Send(cmd.c, Sendable(cmd.c))
        /\ out' \in [Conns -> Seq(Nat \X Nat)]
    BY <1>0, <1>00, <1>28, SendableFits, SendGrows DEF Basics, SendPart
  <2>b. left[cmd.c] - Sendable(cmd.c) \in 0 .. Answer /\ 0 \in 0 .. Answer /\ sem[cmd.c] + 1 \in Nat /\ cmd.c \in Conns
    BY <1>0, <2>a, Numbers DEF ConnTypes
  <2>1. ClientTypes' /\ EpollTypes' /\ WorkerTypes' /\ CommandTypes'
    BY <1>0, <1>28 DEF ClientTypes, EpollTypes, WorkerTypes, CommandTypes, SendPart, socketVars,
                       sendVars, workerVars, commandVars, clientVars
  <2>2. SocketTypes'
    BY <1>0, <1>00, <1>28, <2>a DEF SocketTypes, SendPart, socketVars, sendVars, workerVars,
                                    commandVars, clientVars
  <2>3. ConnTypes'
    BY <1>0, <1>00, <1>28, <2>a, <2>b DEF ConnTypes, SendPart, socketVars, sendVars, workerVars,
                                          commandVars, clientVars
  <2> QED BY <2>1, <2>2, <2>3 DEF Types
<1>29. CASE SendAll
  <2>a. /\ cmd.c \in Conns /\ Sendable(cmd.c) \in 0 .. left[cmd.c] /\ Send(cmd.c, Sendable(cmd.c))
        /\ out' \in [Conns -> Seq(Nat \X Nat)]
    BY <1>0, <1>00, <1>29, SendableFits, SendGrows DEF Basics, SendAll
  <2>b. left[cmd.c] - Sendable(cmd.c) \in 0 .. Answer /\ 0 \in 0 .. Answer /\ sem[cmd.c] + 1 \in Nat /\ cmd.c \in Conns
    BY <1>0, <2>a, Numbers DEF ConnTypes
  <2>c. cmd' = [at |-> "batch", c |-> NoConn, due |-> 0] \/ cmd' = [cmd EXCEPT !.at = "SendData", !.due = @ - 1]
    BY <1>29 DEF SendAll, NextAnswer
  <2>d. cmd.c \in MaybeConn /\ cmd.due - 1 \in Nat
    BY <1>0, <1>00, <1>29 DEF SendAll, MaybeConn, CommandTypes
  <2>1. ClientTypes' /\ EpollTypes' /\ WorkerTypes'
    BY <1>0, <1>29 DEF ClientTypes, EpollTypes, WorkerTypes, SendAll, NextAnswer, socketVars,
                       sendVars, workerVars, commandVars, clientVars
  <2>2. SocketTypes'
    BY <1>0, <1>00, <1>29, <2>a DEF SocketTypes, SendAll, NextAnswer, socketVars, sendVars,
                                    workerVars, commandVars, clientVars
  <2>3. ConnTypes'
    BY <1>0, <1>00, <1>29, <2>b DEF ConnTypes, SendAll, NextAnswer, socketVars, sendVars,
                                    workerVars, commandVars, clientVars
  <2>4. CommandTypes'
    BY <1>0, <1>00, <1>29, <2>c, <2>d DEF CommandTypes, MaybeConn, Commands, SendAll, NextAnswer,
                                          socketVars, sendVars, workerVars, commandVars,
       clientVars
  <2> QED BY <2>1, <2>2, <2>3, <2>4 DEF Types
<1>30. CASE SendAgain
  <2>c. cmd' = [at |-> "batch", c |-> NoConn, due |-> 0] \/ cmd' = [cmd EXCEPT !.at = "SendData", !.due = @ - 1]
    BY <1>30 DEF SendAgain, NextAnswer
  <2>d. cmd.c \in MaybeConn /\ cmd.due - 1 \in Nat
    BY <1>0, <1>00, <1>30 DEF SendAgain, MaybeConn, CommandTypes
  <2>1. ClientTypes' /\ SocketTypes' /\ WorkerTypes' /\ ConnTypes'
    BY <1>0, <1>30 DEF ClientTypes, SocketTypes, WorkerTypes, ConnTypes, SendAgain, NextAnswer,
                       Ctl, socketVars, sendVars, workerVars, commandVars, clientVars
  <2>2. EpollTypes'
    BY <1>0, <1>00, <1>30 DEF EpollTypes, SendAgain, NextAnswer, Ctl, socketVars, sendVars,
                              workerVars, commandVars, clientVars
  <2>3. CommandTypes'
    BY <1>0, <1>00, <1>30, <2>c, <2>d DEF CommandTypes, MaybeConn, Commands, SendAgain,
                                          NextAnswer, Ctl, socketVars, sendVars, workerVars,
       commandVars, clientVars
  <2> QED BY <2>1, <2>2, <2>3 DEF Types
<1>31. CASE SendReset
  <2>1. ClientTypes' /\ SocketTypes' /\ EpollTypes' /\ WorkerTypes' /\ ConnTypes'
    BY <1>0, <1>31 DEF ClientTypes, SocketTypes, EpollTypes, WorkerTypes, ConnTypes, SendReset,
                       socketVars, sendVars, workerVars, commandVars, clientVars
  <2>2. CommandTypes'
    BY <1>0, <1>00, <1>31 DEF CommandTypes, MaybeConn, Commands, SendReset, socketVars, sendVars,
                              workerVars, commandVars, clientVars
  <2> QED BY <2>1, <2>2 DEF Types
<1>32. CASE UNCHANGED vars
  BY <1>0, <1>32 DEF Types, ClientTypes, SocketTypes, EpollTypes, WorkerTypes, ConnTypes,
                     CommandTypes, vars, socketVars, sendVars, workerVars, commandVars, clientVars
<1> QED BY <1>1, <1>2, <1>3, <1>4, <1>5, <1>6, <1>7, <1>8, <1>9, <1>10, <1>11, <1>12, <1>13,
    <1>14, <1>15, <1>16, <1>17, <1>18, <1>19, <1>20, <1>21, <1>22, <1>23, <1>24, <1>25, <1>26,
    <1>27, <1>28, <1>29, <1>30, <1>31, <1>32 DEF Next, Worker, CommandHandler, Arrivals

LEMMA HandsStep == Waiting /\ Basics /\ [Next]_vars => HandsOK'
<1> SUFFICES ASSUME Waiting, Basics, [Next]_vars PROVE HandsOK'
  OBVIOUS
<1>0. /\ HandsOK /\ EventsOK /\ Types /\ WorkerTypes /\ CommandTypes /\ NoConn \notin Conns
      /\ w.at \in {"OnConnection", "recv", "OnData", "OnDisconnect", "SendMessage"} => w.c \in Conns
      /\ cmd.at \in {"SendData", "sem_wait", "send"} => cmd.c \in Conns /\ cmd.due >= 1
  BY HandsConns, Names DEF Basics, Types
<1>1. CASE EpollWait
  BY <1>0, <1>1 DEF HandsOK, Sending, EpollWait, Return, Reported, clientVars, socketVars,
                    workerVars, sendVars, commandVars
<1>2. CASE NextRound
  BY <1>0, <1>2 DEF HandsOK, Sending, NextRound, clientVars, socketVars, workerVars, sendVars,
                    commandVars
<1>3. CASE AcceptConnection
  BY <1>0, <1>3, Accepted DEF HandsOK, Sending, AcceptConnection, commandVars
<1>4. CASE OnConnection
  BY <1>0, <1>4 DEF HandsOK, Sending, OnConnection, Push, Return, clientVars, socketVars,
                    workerVars, sendVars, commandVars
<1>5. CASE OnData
  BY <1>0, <1>5 DEF HandsOK, Sending, OnData, Push, Return, clientVars, socketVars, workerVars,
                    sendVars, commandVars
<1>6. CASE OnDisconnect
  BY <1>0, <1>6 DEF HandsOK, Sending, OnDisconnect, Push, Return, clientVars, socketVars,
                    workerVars, sendVars, commandVars
<1>7. ASSUME NEW c \in Conns, BeginRecv(c) PROVE HandsOK'
  BY <1>0, <1>7 DEF HandsOK, Sending, BeginRecv, clientVars, socketVars, workerVars, sendVars,
                    commandVars
<1>8. ASSUME NEW c \in Conns, BeginSendLeft(c) PROVE HandsOK'
  BY <1>0, <1>8, LeftTaken DEF HandsOK, Sending, BeginSendLeft, commandVars
<1>9. CASE Recv
  BY <1>0, <1>9 DEF HandsOK, Sending, Recv, clientVars, socketVars, workerVars, sendVars,
                    commandVars
<1>10. CASE RecvNothing
  BY <1>0, <1>10 DEF HandsOK, Sending, RecvNothing, clientVars, socketVars, workerVars,
                     sendVars, commandVars
<1>11. CASE SendLeftEnd
  BY <1>0, <1>11 DEF HandsOK, Sending, SendLeftEnd, Return, Ctl, clientVars, socketVars,
                     workerVars, sendVars, commandVars
<1>12. CASE SendLeftFails
  BY <1>0, <1>12 DEF HandsOK, Sending, SendLeftFails, Return, clientVars, socketVars,
                     workerVars, sendVars, commandVars
<1>13. CASE BeginBatch
  BY <1>0, <1>13 DEF HandsOK, Sending, BeginBatch, clientVars, socketVars, workerVars, sendVars,
                     commandVars
<1>14. CASE EndBatch
  BY <1>0, <1>14 DEF HandsOK, Sending, EndBatch, clientVars, socketVars, workerVars, sendVars,
                     commandVars
<1>15. CASE HandleOnData
  <2>1. Answer > 0 /\ NoConn \notin Conns
    BY Names DEF Waiting
  <2>2. Current.c \in Conns /\ w' = w /\ ((cmd' = cmd) \/ (cmd'.at = "SendData" /\ cmd'.c = Current.c /\ cmd'.due >= 1))
    BY <1>0, <1>15, <2>1, DataTaken DEF HandleOnData, workerVars, Commands
  <2> QED BY <1>0, <2>1, <2>2 DEF HandsOK, Sending
<1>16. CASE SendData
  BY <1>0, <1>16 DEF HandsOK, Sending, SendData, clientVars, socketVars, workerVars, sendVars,
                     commandVars
<1>17. CASE SemWait
  BY <1>0, <1>17 DEF HandsOK, Sending, SemWait, clientVars, socketVars, workerVars, sendVars,
                     commandVars
<1>18. CASE SendAll
  <2>1. w' = w /\ Sending /\ NextAnswer
    BY <1>18 DEF SendAll, Sending, workerVars
  <2>2. \/ cmd'.at = "batch" /\ cmd'.c = NoConn /\ cmd'.due = 0
        \/ cmd'.at = "SendData" /\ cmd'.c = cmd.c /\ cmd'.due >= 1
    BY <1>0, <2>1, NextDue
  <2> QED BY <1>0, <2>1, <2>2 DEF HandsOK, Sending
<1>19. CASE SendAgain
  <2>1. w' = w /\ Sending /\ NextAnswer
    BY <1>19 DEF SendAgain, Sending, workerVars
  <2>2. \/ cmd'.at = "batch" /\ cmd'.c = NoConn /\ cmd'.due = 0
        \/ cmd'.at = "SendData" /\ cmd'.c = cmd.c /\ cmd'.due >= 1
    BY <1>0, <2>1, NextDue
  <2> QED BY <1>0, <2>1, <2>2 DEF HandsOK, Sending
<1>20. CASE UNCHANGED <<w, cmd>>
  BY <1>0, <1>20 DEF HandsOK, Sending
<1> QED BY <1>1, <1>2, <1>3, <1>4, <1>5, <1>6, <1>7, <1>8, <1>9, <1>10, <1>11, <1>12, <1>13,
           <1>14, <1>15, <1>16, <1>17, <1>18, <1>19, <1>20
           DEF Next, Worker, CommandHandler, Arrivals, vars, Connect, Ask, Read, Edge,
               ClientClose, Arrive, EndArrives, ResetArrives, SendLeftPart, HandleOnConnect,
               Handling, Done, Current, HandleOnDisconnect, SendPart, SendReset, clientVars,
               socketVars, workerVars, sendVars, commandVars

-----------------------------------------------------------------------------
(* Events and commands                                                     *)

LEMMA ListedPush ==
  ASSUME CommandTypes, NEW m \in Commands, m_CommandList' = Append(m_CommandList, m),
         NEW c \in Conns
  PROVE  Listed(c)' <=> Listed(c) \/ m.c = c
<1>1. /\ Len(m_CommandList) \in Nat /\ Len(m_CommandList') = Len(m_CommandList) + 1
      /\ \A i \in 1 .. Len(m_CommandList) : m_CommandList'[i] = m_CommandList[i]
      /\ m_CommandList'[Len(m_CommandList) + 1] = m
  BY PushedCommand
<1>2. /\ Len(m_CommandList) + 1 \in 1 .. Len(m_CommandList')
      /\ \A i \in 1 .. Len(m_CommandList) : i \in 1 .. Len(m_CommandList')
      /\ \A i \in 1 .. Len(m_CommandList') :
           i \in 1 .. Len(m_CommandList) \/ i = Len(m_CommandList) + 1
  BY <1>1
<1> QED BY <1>1, <1>2 DEF Listed

LEMMA ListedPop ==
  ASSUME CommandTypes, m_CommandList # <<>>, m_CommandList' = Tail(m_CommandList)
  PROVE  /\ Listed(Current.c)
         /\ \A c \in Conns : Listed(c)' => Listed(c)
<1>1. /\ Len(m_CommandList) \in Nat \ {0} /\ Len(m_CommandList') = Len(m_CommandList) - 1
      /\ \A i \in 1 .. Len(m_CommandList) - 1 : m_CommandList'[i] = m_CommandList[i + 1]
      /\ Current = m_CommandList[1]
  BY CurrentCommand
<1>2. /\ 1 \in 1 .. Len(m_CommandList)
      /\ \A i \in 1 .. Len(m_CommandList') :
           i \in 1 .. Len(m_CommandList) - 1 /\ i + 1 \in 1 .. Len(m_CommandList)
  BY <1>1
<1> QED BY <1>1, <1>2 DEF Listed

\* What the handlers take is the first command, and they leave the others.
LEMMA Handled ==
  ASSUME Types, NEW kind, Handling(kind), Done
  PROVE  /\ Current \in Commands /\ Current.c \in Conns /\ Current.kind = kind
         /\ m_CommandList # <<>> /\ m_CommandList' = Tail(m_CommandList)
         /\ Listed(Current.c) /\ \A c \in Conns : Listed(c)' => Listed(c)
<1>1. CommandTypes /\ m_CommandList # <<>> /\ m_CommandList' = Tail(m_CommandList)
  BY DEF Handling, Done, Types
<1>2. Current \in Commands /\ Current.c \in Conns
  BY <1>1, CurrentCommand DEF Commands
<1> QED BY <1>1, <1>2, ListedPop DEF Handling

\* The callbacks push one command of the connection that the worker has in hand.
LEMMA Pushed ==
  ASSUME Types, NEW kind \in {"ONCONNECT", "ONDATA", "ONDISCONNECT"}, NEW len \in Nat,
         w.c \in Conns, Push(kind, w.c, len)
  PROVE  /\ [kind |-> kind, c |-> w.c, len |-> len] \in Commands
         /\ m_CommandList' = Append(m_CommandList, [kind |-> kind, c |-> w.c, len |-> len])
         /\ \A c \in Conns : Listed(c)' <=> Listed(c) \/ w.c = c
         /\ w'.at = "events" /\ w'.c = NoConn
<1>1. [kind |-> kind, c |-> w.c, len |-> len] \in Commands
  BY DEF Commands
<1>2. /\ CommandTypes
      /\ m_CommandList' = Append(m_CommandList, [kind |-> kind, c |-> w.c, len |-> len])
  BY DEF Push, Types
<1>3. w'.at = "events" /\ w'.c = NoConn
  BY DEF Push, Return
<1> QED BY <1>1, <1>2, <1>3, ListedPush

\* What epoll reports of a connection is what it is registered for, and once.
LEMMA ReportedOnce ==
  ASSUME Types
  PROVE  /\ \A e \in Reported : e[1] \in Conns => e = <<e[1], reg[e[1]]>> /\ e[1] \in ready
         /\ \A d, e \in Reported : d[1] = e[1] => d = e
         /\ <<Listener, "in">> \in Reported => backlog # <<>>
         /\ \A c \in Conns : <<c, "in">> \in Reported => reg[c] = "in" /\ Readable(c)
         /\ \A c \in Conns : <<c, "out">> \in Reported => reg[c] = "out"
<1>1. \A e \in Reported :
        \/ e[1] \in ready /\ e[1] \in Conns /\ e = <<e[1], reg[e[1]]>>
           /\ (\/ reg[e[1]] = "in" /\ Readable(e[1])
               \/ reg[e[1]] = "out")
        \/ e = <<Listener, "in">> /\ e[1] = Listener /\ backlog # <<>>
  BY DEF Reported, Types, EpollTypes
<1>2. Listener \notin Conns
  BY Names
<1>3. \A c \in Conns : \A k : <<c, k>>[1] = c /\ (<<c, k>> = <<c, reg[c]>> => k = reg[c])
  OBVIOUS
<1>4. ASSUME NEW c \in Conns, NEW k, <<c, k>> \in Reported
      PROVE  k = reg[c] /\ (\/ reg[c] = "in" /\ Readable(c)
                            \/ reg[c] = "out")
  BY <1>1, <1>2, <1>3, <1>4
<1> QED BY <1>1, <1>2, <1>4

LEMMA EventsStep == Basics /\ [Next]_vars => EventsOK'
<1> SUFFICES ASSUME Basics, [Next]_vars PROVE EventsOK'
  OBVIOUS
<1>0. /\ EventsOK /\ Types /\ NewOK /\ NoConn \notin Conns /\ Listener \notin Conns
      /\ w.at \in {"OnConnection", "recv", "OnData", "OnDisconnect", "SendMessage"} => w.c \in Conns
  BY HandsConns, Names DEF Basics, Types
<1>1. ASSUME NEW c \in Conns, Connect(c) PROVE EventsOK'
  <2>1. w' = w /\ events' = events /\ backlog' = Append(backlog, c) /\ backlog \in Seq(Conns)
    BY <1>0, <1>1 DEF Connect, workerVars, Types, SocketTypes
  <2>2. backlog' # <<>>
    BY <2>1, AppendProperties, Zenon
  <2> QED BY <1>0, <2>1, <2>2 DEF EventsOK
<1>2. CASE EpollWait
  <2>1. events' = Reported /\ backlog' = backlog /\ w'.at = "events" /\ w'.c = NoConn
    BY <1>2 DEF EpollWait, Return, socketVars
  <2> QED BY <1>0, <2>1, ReportedOnce DEF EventsOK
<1>3. CASE NextRound
  BY <1>0, <1>3 DEF EventsOK, NextRound, clientVars, socketVars, workerVars, sendVars,
                    commandVars
<1>4. CASE AcceptConnection
  <2>1. /\ events' = events \ {<<Listener, "in">>}
        /\ w'.at = "OnConnection" /\ w'.c = backlog[1] /\ w'.c \in Conns
        /\ 1 \in 1 .. Len(backlog)
    BY <1>0, <1>4, Accepted DEF AcceptConnection
  <2>2. ~Noticed(w'.c)
    BY <1>0, <2>1 DEF NewOK
  <2> QED BY <1>0, <2>1, <2>2 DEF EventsOK, Noticed
<1>5. CASE OnConnection
  BY <1>0, <1>5 DEF EventsOK, OnConnection, Push, Return, clientVars, socketVars, workerVars,
                    sendVars, commandVars
<1>6. CASE OnData
  BY <1>0, <1>6 DEF EventsOK, OnData, Push, Return, clientVars, socketVars, workerVars,
                    sendVars, commandVars
<1>7. CASE OnDisconnect
  BY <1>0, <1>7 DEF EventsOK, OnDisconnect, Push, Return, clientVars, socketVars, workerVars,
                    sendVars, commandVars
<1>8. ASSUME NEW c \in Conns, BeginRecv(c) PROVE EventsOK'
  <2>1. /\ events' = events \ {<<c, "in">>} /\ <<c, "in">> \in events /\ backlog' = backlog
        /\ w'.at = "recv" /\ w'.c = c
    BY <1>8 DEF BeginRecv, socketVars
  <2>2. \A e \in events' : e[1] # c
    BY <1>0, <2>1 DEF EventsOK
  <2> QED BY <1>0, <2>1, <2>2 DEF EventsOK
<1>9. ASSUME NEW c \in Conns, BeginSendLeft(c) PROVE EventsOK'
  <2>1. /\ events' = events \ {<<c, "out">>} /\ <<c, "out">> \in events /\ backlog' = backlog
        /\ w'.at # "epoll_wait" /\ w'.c \in {c, NoConn}
    BY <1>0, <1>9, LeftTaken DEF BeginSendLeft, socketVars
  <2>2. \A e \in events' : e[1] # c
    BY <1>0, <2>1 DEF EventsOK
  <2> QED BY <1>0, <2>1, <2>2 DEF EventsOK
<1>10. CASE Recv
  BY <1>0, <1>10 DEF EventsOK, Recv, clientVars, socketVars, workerVars, sendVars, commandVars
<1>11. CASE RecvNothing
  BY <1>0, <1>11 DEF EventsOK, RecvNothing, clientVars, socketVars, workerVars, sendVars,
                     commandVars
<1>12. CASE SendLeftEnd
  BY <1>0, <1>12 DEF EventsOK, SendLeftEnd, Return, Ctl, clientVars, socketVars, workerVars,
                     sendVars, commandVars
<1>13. CASE SendLeftFails
  BY <1>0, <1>13 DEF EventsOK, SendLeftFails, Return, clientVars, socketVars, workerVars,
                     sendVars, commandVars
<1>14. CASE UNCHANGED <<w, events, backlog>>
  BY <1>0, <1>14 DEF EventsOK
<1> QED BY <1>1, <1>2, <1>3, <1>4, <1>5, <1>6, <1>7, <1>8, <1>9, <1>10, <1>11, <1>12, <1>13,
           <1>14
           DEF Next, Worker, CommandHandler, Arrivals, vars, Ask, Read, Edge, ClientClose,
               Arrive, EndArrives, ResetArrives, SendLeftPart, BeginBatch, EndBatch,
               HandleOnConnect, Handling, Done, Current, HandleOnData, HandleOnDisconnect,
               SendData, SemWait, SendPart, SendAll, NextAnswer, SendAgain, Ctl, SendReset,
               clientVars, socketVars, workerVars, sendVars, commandVars

LEMMA NewStep == Basics /\ [Next]_vars => NewOK'
<1> SUFFICES ASSUME Basics, [Next]_vars PROVE NewOK'
  OBVIOUS
<1>0. /\ NewOK /\ EventsOK /\ HandsOK /\ Types /\ NoConn \notin Conns /\ Listener \notin Conns
      /\ w.at \in {"OnConnection", "recv", "OnData", "OnDisconnect", "SendMessage"} => w.c \in Conns
      /\ cmd.at \in {"SendData", "sem_wait", "send"} => cmd.c \in Conns /\ cmd.due >= 1
  BY HandsConns, Names DEF Basics, Types
<1>1. ASSUME NEW c \in Conns, Connect(c) PROVE NewOK'
  <2>1. /\ backlog \in Seq(Conns) /\ backlog' = Append(backlog, c)
        /\ client[c] = "away" /\ client' = [client EXCEPT ![c] = "here"]
        /\ UNCHANGED <<object, reg, w, events, told, m_CommandList, cmd, handled>>
    BY <1>0, <1>1 DEF Connect, workerVars, commandVars, Types, SocketTypes
  <2>2. /\ Len(backlog) \in Nat /\ Len(backlog') = Len(backlog) + 1 /\ backlog'[Len(backlog) + 1] = c
        /\ \A i \in 1 .. Len(backlog) : backlog'[i] = backlog[i]
    BY <2>1, AppendProperties
  <2>3. client' \in [Conns -> {"away", "here", "gone"}] /\ client'[c] = "here"
        /\ \A d \in Conns \ {c} : client'[d] = client[d]
    BY <1>0, <2>1 DEF Types, ClientTypes
  <2>4. object[c] = "none" /\ \A i \in 1 .. Len(backlog) : backlog[i] # c /\ backlog[i] \in Conns
    BY <1>0, <2>1 DEF NewOK
  <2>5. \A i \in 1 .. Len(backlog') : i \in 1 .. Len(backlog) \/ i = Len(backlog) + 1
    BY <2>2
  <2>6. \A i \in 1 .. Len(backlog') : object'[backlog'[i]] = "none" /\ client'[backlog'[i]] # "away"
    BY <1>0, <2>1, <2>2, <2>3, <2>4, <2>5 DEF NewOK
  <2>7. \A i, j \in 1 .. Len(backlog') : backlog'[i] = backlog'[j] => i = j
    BY <1>0, <2>2, <2>4, <2>5 DEF NewOK
  <2> QED BY <1>0, <2>1, <2>3, <2>4, <2>6, <2>7 DEF NewOK, Fresh, Noticed, Listed
<1>2. ASSUME NEW c \in Conns, ClientClose(c) PROVE NewOK'
  BY <1>0, <1>2 DEF NewOK, Fresh, Noticed, Listed, ClientClose, clientVars, socketVars,
                    workerVars, sendVars, commandVars
<1>3. CASE EpollWait
  <2>1. /\ events' = Reported /\ w'.c = NoConn /\ w'.at = "events" /\ w.at = "epoll_wait"
        /\ UNCHANGED <<backlog, object, client, reg, told, m_CommandList, cmd, handled>>
    BY <1>3 DEF EpollWait, Return, socketVars, clientVars, commandVars
  <2>2. \A c \in Conns : object[c] = "none" => ~Noticed(c)'
    BY <1>0, <2>1, ReportedOnce DEF NewOK, Noticed, Reported
  <2> QED BY <1>0, <2>1, <2>2 DEF NewOK, Fresh, Listed
<1>4. CASE NextRound
  <2>1. /\ w'.c = w.c /\ w'.at # "OnConnection"
        /\ UNCHANGED <<backlog, object, client, reg, events, told, m_CommandList, cmd, handled>>
    BY <1>0, <1>4 DEF NextRound, clientVars, socketVars, commandVars, Types, WorkerTypes
  <2> QED BY <1>0, <2>1 DEF NewOK, Fresh, Listed, Noticed
<1>5. CASE AcceptConnection
  <2> DEFINE c == Head(backlog)
  <2>1. /\ c \in Conns /\ c = backlog[1] /\ Len(backlog) \in Nat \ {0}
        /\ backlog' \in Seq(Conns) /\ Len(backlog') = Len(backlog) - 1
        /\ \A i \in 1 .. Len(backlog) - 1 : backlog'[i] = backlog[i + 1]
        /\ w'.at = "OnConnection" /\ w'.c = c
    BY <1>0, <1>5, Accepted
  <2>2. /\ events' \subseteq events /\ object' = [object EXCEPT ![c] = "live"]
        /\ \E kind : reg' = [reg EXCEPT ![c] = kind]
        /\ UNCHANGED <<client, told, m_CommandList, cmd, handled>>
    BY <1>5 DEF AcceptConnection, Ctl, clientVars, commandVars
  <2>3. /\ object'[c] = "live" /\ \A d \in Conns \ {c} : object'[d] = object[d] /\ reg'[d] = reg[d]
    BY <1>0, <2>1, <2>2 DEF Types, ConnTypes, EpollTypes
  <2> HIDE DEF c
  <2>4. \A i \in 1 .. Len(backlog') : i + 1 \in 1 .. Len(backlog) /\ i + 1 # 1 /\ 1 \in 1 .. Len(backlog)
    BY <2>1
  <2>5. /\ object[c] = "none" /\ client[c] # "away"
        /\ \A i \in 1 .. Len(backlog') : backlog'[i] # c /\ backlog'[i] = backlog[i + 1] /\ backlog'[i] \in Conns
    BY <1>0, <2>1, <2>4 DEF NewOK
  <2>6. \A i \in 1 .. Len(backlog') : object'[backlog'[i]] = "none" /\ client'[backlog'[i]] # "away"
    BY <1>0, <2>2, <2>3, <2>4, <2>5 DEF NewOK
  <2>7. \A i, j \in 1 .. Len(backlog') : backlog'[i] = backlog'[j] => i = j
    BY <1>0, <2>1, <2>4, <2>5 DEF NewOK
  <2>8. w.c # c /\ w.at # "OnConnection"
    BY <1>0, <1>5, <2>1 DEF HandsOK, AcceptConnection
  <2> QED BY <1>0, <2>1, <2>2, <2>3, <2>5, <2>6, <2>7, <2>8 DEF NewOK, Fresh, Noticed, Listed
<1>6. CASE OnConnection
  <2>1. w.c \in Conns /\ w.at = "OnConnection" /\ w.len \in Nat /\ Push("ONCONNECT", w.c, 0)
        /\ object' = object /\ \A d \in Conns \ {w.c} : told'[d] = told[d]
    BY <1>0, <1>6 DEF OnConnection, Types, WorkerTypes, ConnTypes
  <2>2. /\ \A d \in Conns : Listed(d)' <=> Listed(d) \/ w.c = d
        /\ w'.at = "events" /\ w'.c = NoConn
    BY <1>0, <2>1, Pushed
  <2>3. UNCHANGED <<backlog, client, reg, events, cmd, handled>>
    BY <1>6 DEF OnConnection, Push, clientVars, socketVars
  <2>4. \A d \in Conns : Fresh(d)' => object[d] = "none" /\ d # w.c
    BY <1>0, <2>1, <2>2 DEF Fresh, NewOK
  <2> QED BY <1>0, <2>1, <2>2, <2>3, <2>4 DEF NewOK, Fresh, Noticed
<1>7. CASE OnData
  <2>1. w.c \in Conns /\ w.at = "OnData" /\ w.len \in Nat /\ Push("ONDATA", w.c, w.len)
        /\ object' = object /\ \A d \in Conns \ {w.c} : told'[d] = told[d]
    BY <1>0, <1>7 DEF OnData, Types, WorkerTypes, ConnTypes
  <2>2. /\ \A d \in Conns : Listed(d)' <=> Listed(d) \/ w.c = d
        /\ w'.at = "events" /\ w'.c = NoConn
    BY <1>0, <2>1, Pushed
  <2>3. UNCHANGED <<backlog, client, reg, events, cmd, handled>>
    BY <1>7 DEF OnData, Push, clientVars, socketVars
  <2>4. \A d \in Conns : Fresh(d)' => object[d] = "none" /\ d # w.c
    BY <1>0, <2>1, <2>2 DEF Fresh, NewOK
  <2> QED BY <1>0, <2>1, <2>2, <2>3, <2>4 DEF NewOK, Fresh, Noticed
<1>8. CASE OnDisconnect
  <2>1. w.c \in Conns /\ w.at = "OnDisconnect" /\ w.len \in Nat /\ Push("ONDISCONNECT", w.c, 0)
        /\ object' = object /\ \A d \in Conns \ {w.c} : told'[d] = told[d]
    BY <1>0, <1>8 DEF OnDisconnect, Types, WorkerTypes, ConnTypes
  <2>2. /\ \A d \in Conns : Listed(d)' <=> Listed(d) \/ w.c = d
        /\ w'.at = "events" /\ w'.c = NoConn
    BY <1>0, <2>1, Pushed
  <2>3. UNCHANGED <<backlog, client, reg, events, cmd, handled>>
    BY <1>8 DEF OnDisconnect, Push, clientVars, socketVars
  <2>4. \A d \in Conns : Fresh(d)' => object[d] = "none" /\ d # w.c
    BY <1>0, <2>1, <2>2 DEF Fresh, NewOK
  <2> QED BY <1>0, <2>1, <2>2, <2>3, <2>4 DEF NewOK, Fresh, Noticed
<1>9. ASSUME NEW c \in Conns, BeginRecv(c) PROVE NewOK'
  <2>1. /\ events' \subseteq events /\ w'.c = c /\ w'.at = "recv" /\ Noticed(c)
        /\ UNCHANGED <<backlog, object, client, reg, told, m_CommandList, cmd, handled>>
    BY <1>9 DEF BeginRecv, socketVars, clientVars, commandVars, Noticed
  <2> QED BY <1>0, <2>1 DEF NewOK, Fresh, Listed, Noticed
<1>10. ASSUME NEW c \in Conns, BeginSendLeft(c) PROVE NewOK'
  <2>1. /\ events' \subseteq events /\ w'.c \in {c, NoConn} /\ w'.at \in {"events", "SendMessage"} /\ Noticed(c)
        /\ UNCHANGED <<backlog, object, client, reg, told, m_CommandList, cmd, handled>>
    BY <1>0, <1>10, LeftTaken DEF BeginSendLeft, socketVars, clientVars, commandVars, Noticed
  <2> QED BY <1>0, <2>1 DEF NewOK, Fresh, Listed, Noticed
<1>11. CASE Recv
  <2>1. /\ w'.c = w.c /\ w'.at # "OnConnection"
        /\ UNCHANGED <<backlog, object, client, reg, events, told, m_CommandList, cmd, handled>>
    BY <1>0, <1>11 DEF Recv, clientVars, commandVars, Types, WorkerTypes
  <2> QED BY <1>0, <2>1 DEF NewOK, Fresh, Listed, Noticed
<1>12. CASE RecvNothing
  <2>1. /\ w'.c = w.c /\ w'.at # "OnConnection"
        /\ UNCHANGED <<backlog, object, client, reg, events, told, m_CommandList, cmd, handled>>
    BY <1>0, <1>12 DEF RecvNothing, clientVars, socketVars, commandVars, Types, WorkerTypes
  <2> QED BY <1>0, <2>1 DEF NewOK, Fresh, Listed, Noticed
<1>13. CASE SendLeftEnd
  <2>1. /\ w.c \in Conns /\ w'.c = NoConn /\ w'.at = "events" /\ w.at = "SendMessage"
        /\ \A d \in Conns \ {w.c} : reg'[d] = reg[d]
        /\ UNCHANGED <<backlog, object, client, events, told, m_CommandList, cmd, handled>>
    BY <1>0, <1>13 DEF SendLeftEnd, Ctl, Return, clientVars, commandVars, Types, EpollTypes
  <2> QED BY <1>0, <2>1 DEF NewOK, Fresh, Listed, Noticed
<1>14. CASE SendLeftFails
  <2>1. /\ w'.c = NoConn /\ w'.at = "events"
        /\ UNCHANGED <<backlog, object, client, reg, events, told, m_CommandList, cmd, handled>>
    BY <1>0, <1>14 DEF SendLeftFails, Return, clientVars, socketVars, commandVars
  <2> QED BY <1>0, <2>1 DEF NewOK, Fresh, Listed, Noticed
<1>15. CASE BeginBatch
  BY <1>0, <1>15 DEF NewOK, Fresh, Noticed, Listed, BeginBatch, clientVars, socketVars,
                     workerVars, sendVars, commandVars
<1>16. CASE EndBatch
  BY <1>0, <1>16 DEF NewOK, Fresh, Noticed, Listed, EndBatch, clientVars, socketVars,
                     workerVars, sendVars, commandVars
<1>17. CASE HandleOnConnect
  <2>1. /\ \A d \in Conns : Listed(d)' => Listed(d)
        /\ UNCHANGED <<backlog, object, client, reg, w, events, told, cmd, handled>>
    BY <1>0, <1>17, Handled DEF HandleOnConnect, clientVars, socketVars, workerVars
  <2> QED BY <1>0, <2>1 DEF NewOK, Fresh, Noticed
<1>18. CASE HandleOnData
  <2>1. /\ Current.c \in Conns /\ Listed(Current.c) /\ \A d \in Conns : Listed(d)' => Listed(d)
        /\ UNCHANGED <<backlog, object, client, reg, w, events, told>>
    BY <1>0, <1>18, Handled DEF HandleOnData, clientVars, socketVars, workerVars
  <2>2. ~Fresh(Current.c)
    BY <1>0, <2>1 DEF NewOK
  <2>3. \A d \in Conns \ {Current.c} : handled'[d] = handled[d] /\ (cmd'.c = d => cmd.c = d)
    BY <1>0, <1>18, <2>1 DEF HandleOnData, Types, CommandTypes
  <2> QED BY <1>0, <2>1, <2>2, <2>3 DEF NewOK, Fresh, Noticed
<1>19. CASE HandleOnDisconnect
  <2>1. /\ Current.c \in Conns /\ Listed(Current.c) /\ \A d \in Conns : Listed(d)' => Listed(d)
    BY <1>0, <1>19, Handled DEF HandleOnDisconnect
  <2>2. /\ object'[Current.c] = "deleted" /\ told'[Current.c] = "idle"
        /\ \A d \in Conns \ {Current.c} : object'[d] = object[d] /\ reg'[d] = reg[d] /\ told'[d] = told[d]
        /\ UNCHANGED <<backlog, client, w, events, cmd, handled>>
    BY <1>0, <1>19, <2>1 DEF HandleOnDisconnect, clientVars, socketVars, workerVars, Types,
                             ConnTypes, EpollTypes
  <2>3. ~Fresh(Current.c)
    BY <1>0, <2>1 DEF NewOK
  <2>4. \A i \in 1 .. Len(backlog) : backlog[i] \in Conns
    BY <1>0 DEF Types, SocketTypes
  <2>5. \A i \in 1 .. Len(backlog) : backlog[i] # Current.c
    BY <1>0, <2>3 DEF NewOK, Fresh
  <2> QED BY <1>0, <2>1, <2>2, <2>3, <2>4, <2>5 DEF NewOK, Fresh, Noticed
<1>20. CASE SendData
  BY <1>0, <1>20 DEF NewOK, Fresh, Noticed, Listed, SendData, clientVars, socketVars,
                     workerVars, sendVars, commandVars
<1>21. CASE SemWait
  BY <1>0, <1>21 DEF NewOK, Fresh, Noticed, Listed, SemWait, clientVars, socketVars, workerVars,
                     sendVars, commandVars
<1>22. CASE SendAll
  <2>1. w' = w /\ Sending /\ NextAnswer /\ UNCHANGED <<backlog, object, client, reg, events, told, m_CommandList, handled>>
    BY <1>22 DEF SendAll, Sending, workerVars, clientVars
  <2>2. cmd'.c \in {cmd.c, NoConn}
    BY <1>0, <2>1, NextDue
  <2> QED BY <1>0, <2>1, <2>2 DEF NewOK, Fresh, Noticed, Listed
<1>23. CASE SendAgain
  <2>1. w' = w /\ Sending /\ NextAnswer /\ UNCHANGED <<backlog, object, client, events, told, m_CommandList, handled>>
    BY <1>23 DEF SendAgain, Sending, workerVars, clientVars, socketVars
  <2>2. cmd'.c \in {cmd.c, NoConn}
    BY <1>0, <2>1, NextDue
  <2>3. cmd.c \in Conns /\ \A d \in Conns \ {cmd.c} : reg'[d] = reg[d]
    BY <1>0, <1>23 DEF SendAgain, Ctl, Types, EpollTypes
  <2> QED BY <1>0, <2>1, <2>2, <2>3 DEF NewOK, Fresh, Noticed, Listed
<1>24. CASE UNCHANGED <<backlog, object, client, reg, w, events, told, m_CommandList, cmd, handled>>
  BY <1>0, <1>24 DEF NewOK, Fresh, Noticed, Listed
<1> QED BY <1>1, <1>2, <1>3, <1>4, <1>5, <1>6, <1>7, <1>8, <1>9, <1>10, <1>11, <1>12, <1>13,
           <1>14, <1>15, <1>16, <1>17, <1>18, <1>19, <1>20, <1>21, <1>22, <1>23, <1>24
           DEF Next, Worker, CommandHandler, Arrivals, vars, Ask, Read, Edge, Arrive,
               EndArrives, ResetArrives, SendLeftPart, SendPart, SendReset, clientVars,
               socketVars, workerVars, sendVars, commandVars

-----------------------------------------------------------------------------
(* How far a connection is                                                 *)

\* No session was given more than its client asked, the command now first included.
LEMMA Given ==
  ASSUME Types, FlowOK, NEW c \in Conns
  PROVE  /\ handled[c] + Way(c) <= asked[c] * Request
         /\ m_CommandList # <<>> =>
              handled[c] + Bytes(m_CommandList[1], c) + Way(c) <= asked[c] * Request
         /\ Way(c) \in Nat /\ Hand(c) \in Nat
         /\ m_CommandList # <<>> => Bytes(m_CommandList[1], c) \in Nat
<1> DEFINE n == Len(m_CommandList)
<1>1. PICK f \in [1 .. n + 1 -> Nat] : Tally(f, c)
  BY DEF FlowOK
<1>2. n \in Nat /\ m_CommandList \in Seq(Commands) /\ asked[c] \in Nat /\ handled[c] \in Nat
      /\ Hand(c) \in Nat /\ rx[c] \in Nat /\ flying[c] \in Nat
  BY DEF Types, CommandTypes, ClientTypes, SocketTypes, WorkerTypes, Hand
<1>3. Way(c) \in Nat /\ asked[c] * Request \in Nat
  BY <1>2, Numbers DEF Way
<1>4. f[1] \in Nat /\ f[n + 1] \in Nat /\ f[1] <= f[n + 1]
  BY <1>1, <1>2 DEF Tally
<1>5. handled[c] <= f[1] /\ f[n + 1] + Way(c) <= asked[c] * Request
  BY <1>1 DEF Tally
<1>6. handled[c] + Way(c) <= asked[c] * Request
  BY <1>2, <1>3, <1>4, <1>5
<1>7. ASSUME m_CommandList # <<>>
      PROVE  /\ handled[c] + Bytes(m_CommandList[1], c) + Way(c) <= asked[c] * Request
             /\ Bytes(m_CommandList[1], c) \in Nat
  <2>1. n >= 1 /\ m_CommandList[1] \in Commands
    BY <1>2, <1>7
  <2>2. Bytes(m_CommandList[1], c) \in Nat
    BY <2>1 DEF Bytes, Commands
  <2>3. f[2] \in Nat /\ f[2] <= f[n + 1] /\ f[1] + Bytes(m_CommandList[1], c) <= f[2]
    BY <1>1, <1>2, <2>1 DEF Tally
  <2> DEFINE b == Bytes(m_CommandList[1], c)
             way == Way(c)
             all == asked[c] * Request
  <2>4. /\ b \in Nat /\ way \in Nat /\ all \in Nat /\ handled[c] \in Nat
        /\ f[1] \in Nat /\ f[2] \in Nat /\ f[n + 1] \in Nat
        /\ handled[c] <= f[1] /\ f[1] + b <= f[2] /\ f[2] <= f[n + 1] /\ f[n + 1] + way <= all
    BY <1>2, <1>3, <1>4, <1>5, <2>2, <2>3
  <2> HIDE DEF b, way, all
  <2>5. handled[c] + b + way <= all
    BY <2>4
  <2> QED BY <2>2, <2>5 DEF b, way, all
<1> QED BY <1>2, <1>3, <1>6, <1>7

\* Answers are begun in the order of the requests that are complete.
LEMMA BegunFits ==
  ASSUME Types, HandsOK, AnswersOK, FlowOK, NEW c \in Conns
  PROVE  /\ Put(c) \in Nat /\ Begun(c) \in Nat /\ Due(c) \in Nat
         /\ handled[c] \div Request \in Nat /\ handled[c] \div Request <= asked[c]
         /\ Begun(c) + Due(c) = handled[c] \div Request
         /\ Put(c) <= handled[c] \div Request
         /\ cmd.c = c => Due(c) >= 1
         /\ cmd.c = c /\ cmd.at # "send" => Put(c) < asked[c] /\ Put(c) = Begun(c)
<1>1. /\ m_SendBuf[c] \in Nat /\ handled[c] \in Nat /\ asked[c] \in Nat /\ cmd.due \in Nat
      /\ cmd.c = c => cmd.due >= 1 /\ cmd.at \in {"SendData", "sem_wait", "send"}
      /\ cmd.c = c /\ cmd.at \in {"sem_wait", "send"} => m_SendBuf[c] >= 1
      /\ Begun(c) + Due(c) = handled[c] \div Request
  BY Names DEF Types, ConnTypes, CommandTypes, ClientTypes, HandsOK, Sending, AnswersOK, BegunOK
<1>2. handled[c] <= asked[c] * Request
  <2>1. handled[c] + Way(c) <= asked[c] * Request /\ Way(c) \in Nat
    BY Given DEF Types, ClientTypes, SocketTypes, WorkerTypes, Way, Hand
  <2> QED BY <1>1, <2>1, Numbers
<1>3. handled[c] \div Request \in Nat /\ handled[c] \div Request <= asked[c]
  BY <1>1, <1>2, Numbers, QuotientFits, QuotientLess
<1>4. Put(c) \in Nat /\ Begun(c) \in Nat /\ Due(c) \in Nat /\ (cmd.c = c => Due(c) >= 1)
  BY <1>1 DEF Put, Begun, Due
<1>5. CASE cmd.c = c
  <2>1. Put(c) <= Begun(c) + 1 /\ (cmd.at # "send" => Put(c) = Begun(c))
    BY <1>1, <1>5 DEF Put, Begun
  <2> QED BY <1>1, <1>3, <1>4, <1>5, <2>1
<1>6. CASE cmd.c # c
  <2>1. Put(c) = Begun(c)
    BY <1>6 DEF Put, Begun
  <2> QED BY <1>1, <1>3, <1>4, <1>6, <2>1
<1> QED BY <1>5, <1>6

\* While an answer is not begun that its client waits for, all before it were sent and read.
LEMMA Behind ==
  ASSUME Types, AnswersOK, AsksOK, EndsOK, NEW c \in Conns, Put(c) \in Nat, Put(c) < asked[c]
  PROVE  left[c] = 0 /\ Len(out[c]) = Put(c) * Answer /\ readN[c] = Len(out[c]) /\ c \notin rst
<1>1. /\ asked[c] \in Nat /\ readN[c] \in Nat /\ Len(out[c]) \in Nat /\ left[c] \in Nat
      /\ Answer \in Nat
  BY Numbers DEF Types, ClientTypes, SocketTypes, ConnTypes
<1>2. /\ asked[c] - 1 \in Nat /\ Put(c) <= asked[c] - 1
      /\ readN[c] >= (asked[c] - 1) * Answer
  BY <1>1 DEF AsksOK
<1>3. Put(c) * Answer <= (asked[c] - 1) * Answer /\ Put(c) * Answer \in Nat /\ (asked[c] - 1) * Answer \in Nat
  BY <1>1, <1>2, TimesMore, TimesNext
<1>4. Len(out[c]) + left[c] <= Put(c) * Answer /\ readN[c] <= Len(out[c])
  BY DEF AnswersOK, OutOK
<1>5. left[c] = 0 /\ Len(out[c]) = Put(c) * Answer /\ readN[c] = Len(out[c])
  <2> DEFINE p == Put(c) * Answer
             q == (asked[c] - 1) * Answer
  <2>1. /\ p \in Nat /\ q \in Nat /\ p <= q /\ readN[c] >= q
        /\ Len(out[c]) + left[c] <= p /\ readN[c] <= Len(out[c])
    BY <1>2, <1>3, <1>4
  <2> HIDE DEF p, q
  <2>2. left[c] = 0 /\ Len(out[c]) = p /\ readN[c] = Len(out[c])
    BY <1>1, <2>1
  <2> QED BY <2>2 DEF p
<1> QED BY <1>1, <1>5 DEF EndsOK

\* A client that has all its answers has nothing left anywhere.
LEMMA Served ==
  ASSUME Waiting, Basics, NEW c \in Conns, Answered(c)
  PROVE  /\ Put(c) = asked[c] /\ left[c] = 0 /\ Len(out[c]) = readN[c]
         /\ handled[c] = asked[c] * Request /\ Way(c) = 0 /\ cmd.c # c /\ c \notin rst
         /\ rx[c] = 0 /\ flying[c] = 0 /\ Hand(c) = 0
         /\ readN[c] = asked[c] * Answer
<1>1. /\ asked[c] \in Nat /\ readN[c] \in Nat /\ Len(out[c]) \in Nat /\ left[c] \in Nat
      /\ handled[c] \in Nat /\ Answer \in Nat \ {0} /\ Request \in Nat \ {0}
      /\ rx[c] \in Nat /\ flying[c] \in Nat /\ Hand(c) \in Nat
  BY Numbers DEF Basics, Types, ClientTypes, SocketTypes, ConnTypes, CommandTypes, WorkerTypes,
                 Waiting, Hand
<1>2. /\ Put(c) \in Nat /\ handled[c] \div Request \in Nat /\ handled[c] \div Request <= asked[c]
      /\ Put(c) <= handled[c] \div Request
      /\ cmd.c = c /\ cmd.at # "send" => Put(c) < asked[c]
  BY BegunFits DEF Basics
<1>3. /\ Len(out[c]) + left[c] <= Put(c) * Answer /\ readN[c] <= Len(out[c])
      /\ readN[c] = asked[c] * Answer
  BY DEF Basics, AnswersOK, OutOK, Answered
<1>4. /\ Put(c) * Answer \in Nat /\ asked[c] * Answer \in Nat /\ asked[c] * Request \in Nat
      /\ (handled[c] \div Request) * Request <= handled[c]
  BY <1>1, <1>2, TimesNext, QuotientFits
<1>5. asked[c] * Answer <= Put(c) * Answer
  <2> DEFINE p == Put(c) * Answer
             q == asked[c] * Answer
  <2>1. /\ p \in Nat /\ q \in Nat /\ readN[c] = q
        /\ Len(out[c]) + left[c] <= p /\ readN[c] <= Len(out[c])
    BY <1>3, <1>4
  <2> HIDE DEF p, q
  <2>2. q <= p
    BY <1>1, <2>1
  <2> QED BY <2>2 DEF p, q
<1>6. asked[c] <= Put(c)
  BY <1>1, <1>2, <1>5, TimesLess
<1>7. Put(c) = asked[c] /\ handled[c] \div Request = asked[c]
  BY <1>1, <1>2, <1>6
<1>8. left[c] = 0 /\ Len(out[c]) = readN[c]
  BY <1>1, <1>3, <1>4, <1>7
<1>9. handled[c] + Way(c) <= asked[c] * Request /\ handled[c] >= asked[c] * Request
  BY <1>4, <1>7, Given DEF Basics
<1>10. handled[c] = asked[c] * Request /\ rx[c] = 0 /\ flying[c] = 0 /\ Hand(c) = 0
  <2> DEFINE all == asked[c] * Request
  <2>1. /\ all \in Nat /\ handled[c] + (Hand(c) + rx[c] + flying[c]) <= all /\ handled[c] >= all
    BY <1>4, <1>9 DEF Way
  <2> HIDE DEF all
  <2>2. handled[c] = all /\ rx[c] = 0 /\ flying[c] = 0 /\ Hand(c) = 0
    BY <1>1, <2>1
  <2> QED BY <2>2 DEF all
<1>11. cmd.c # c
  <2>1. cmd.c = c => cmd.at = "send"
    BY <1>2, <1>7
  <2>2. cmd.at = "send" => left[cmd.c] > 0
    BY DEF Basics, SendersOK
  <2> QED BY <1>8, <2>1, <2>2
<1>12. c \notin rst
  BY <1>1, <1>8 DEF Basics, EndsOK
<1> QED BY <1>3, <1>7, <1>8, <1>10, <1>11, <1>12 DEF Way

LEMMA AsksStep == Waiting /\ Basics /\ [Next]_vars => AsksOK'
<1> SUFFICES ASSUME Waiting, Basics, [Next]_vars PROVE AsksOK'
  OBVIOUS
<1>0. /\ Types /\ HandsOK /\ EventsOK /\ NewOK /\ SendersOK /\ AnswersOK /\ FlowOK /\ AsksOK /\ EndsOK
      /\ NoConn \notin Conns /\ Listener \notin Conns /\ Answer \in Nat \ {0}
      /\ w.at \in {"OnConnection", "recv", "OnData", "OnDisconnect", "SendMessage"} => w.c \in Conns
      /\ cmd.at \in {"SendData", "sem_wait", "send"} => cmd.c \in Conns /\ cmd.due >= 1
  BY HandsConns, Names, Numbers DEF Basics, Waiting
<1>1. ASSUME NEW c \in Conns, Ask(c) PROVE AsksOK'
  <2>1. /\ asked[c] \in Nat /\ asked' = [asked EXCEPT ![c] = asked[c] + 1] /\ Answered(c)
        /\ UNCHANGED <<readN, handled>>
    BY <1>0, <1>1 DEF Ask, Waiting, sendVars, commandVars, Types, ClientTypes
  <2>2. /\ readN[c] = asked[c] * Answer /\ handled[c] = asked[c] * Request
        /\ asked[c] * Answer \in Nat /\ asked[c] * Request \in Nat
    BY <1>0, <2>1, Served, Numbers, TimesNext
  <2>3. asked'[c] - 1 = asked[c] /\ \A d \in Conns \ {c} : asked'[d] = asked[d]
    BY <1>0, <2>1 DEF Types, ClientTypes
  <2>4. readN[c] >= (asked'[c] - 1) * Answer /\ handled[c] >= (asked'[c] - 1) * Request
    BY <2>2, <2>3
  <2> QED BY <1>0, <2>1, <2>3, <2>4 DEF AsksOK
<1>2. ASSUME NEW c \in Conns, Read(c) PROVE AsksOK'
  <2>1. /\ readN[c] < Len(out[c]) /\ readN' = [readN EXCEPT ![c] = Len(out[c])]
        /\ UNCHANGED <<asked, handled>>
    BY <1>2 DEF Read, commandVars
  <2>2. /\ readN'[c] >= readN[c] /\ readN'[c] \in Nat /\ readN[c] \in Nat /\ asked[c] \in Nat
        /\ \A d \in Conns \ {c} : readN'[d] = readN[d]
    BY <1>0, <2>1 DEF Types, ClientTypes, SocketTypes
  <2>3. asked[c] > 0 => readN'[c] >= (asked[c] - 1) * Answer
    <3>1. asked[c] > 0 => (asked[c] - 1) * Answer \in Nat
      BY <1>0, <2>2, TimesNext
    <3>2. asked[c] > 0 => readN[c] >= (asked[c] - 1) * Answer
      BY <1>0 DEF AsksOK
    <3> QED BY <2>2, <3>1, <3>2
  <2> QED BY <1>0, <2>1, <2>2, <2>3 DEF AsksOK
<1>3. CASE HandleOnData
  <2> DEFINE c == Current.c
  <2>1. /\ c \in Conns /\ Current.len \in Nat /\ handled[c] \in Nat
        /\ handled' = [handled EXCEPT ![c] = handled[c] + Current.len]
        /\ UNCHANGED <<asked, readN>>
    BY <1>0, <1>3, DataTaken DEF HandleOnData, clientVars, Commands
  <2>2. /\ handled'[c] >= handled[c] /\ handled'[c] \in Nat /\ asked[c] \in Nat
        /\ \A d \in Conns \ {c} : handled'[d] = handled[d]
    BY <1>0, <2>1 DEF Types, ClientTypes, CommandTypes
  <2> HIDE DEF c
  <2>3. asked[c] > 0 => handled'[c] >= (asked[c] - 1) * Request
    <3>1. asked[c] > 0 => (asked[c] - 1) * Request \in Nat
      BY <1>0, <2>2, Numbers, TimesNext
    <3>2. asked[c] > 0 => handled[c] >= (asked[c] - 1) * Request
      BY <1>0, <2>1 DEF AsksOK
    <3> QED BY <2>1, <2>2, <3>1, <3>2
  <2> QED BY <1>0, <2>1, <2>2, <2>3 DEF AsksOK
<1>4. CASE UNCHANGED <<asked, readN, handled>>
  BY <1>0, <1>4 DEF AsksOK
<1> QED BY <1>1, <1>2, <1>3, <1>4
           DEF Next, Worker, CommandHandler, Arrivals, vars, Connect, ClientClose, Arrive, Edge,
               EndArrives, ResetArrives, EpollWait, Return, Reported, NextRound,
               AcceptConnection, Ctl, OnConnection, Push, OnData, OnDisconnect, BeginRecv,
               BeginSendLeft, Recv, RecvNothing, SendLeftPart, SendLeftEnd, SendLeftFails,
               BeginBatch, EndBatch, HandleOnConnect, Handling, Done, Current,
               HandleOnDisconnect, SendData, SemWait, SendPart, SendAll, NextAnswer, SendAgain,
               SendReset, clientVars, socketVars, workerVars, sendVars, commandVars

LEMMA EndsStep == Waiting /\ Basics /\ [Next]_vars => EndsOK'
<1> SUFFICES ASSUME Waiting, Basics, [Next]_vars PROVE EndsOK'
  OBVIOUS
<1>0. /\ Types /\ HandsOK /\ EventsOK /\ NewOK /\ SendersOK /\ AnswersOK /\ FlowOK /\ AsksOK /\ EndsOK
      /\ NoConn \notin Conns /\ Listener \notin Conns /\ Answer \in Nat \ {0}
      /\ w.at \in {"OnConnection", "recv", "OnData", "OnDisconnect", "SendMessage"} => w.c \in Conns
      /\ cmd.at \in {"SendData", "sem_wait", "send"} => cmd.c \in Conns /\ cmd.due >= 1
  BY HandsConns, Names, Numbers DEF Basics, Waiting
<1>1. ASSUME NEW c \in Conns, Connect(c) PROVE EndsOK'
  BY <1>0, <1>1 DEF EndsOK, Readable, Connect, clientVars, socketVars, workerVars, sendVars,
                    commandVars
<1>2. ASSUME NEW c \in Conns, Read(c) PROVE EndsOK'
  <2>1. /\ client[c] = "here" /\ \A d \in Conns \ {c} : readN'[d] = readN[d]
        /\ UNCHANGED <<fin, rst, client, out, events, rx, w>>
    BY <1>0, <1>2 DEF Read, socketVars, workerVars, Types, ClientTypes
  <2>2. c \notin fin \cup rst
    BY <1>0, <2>1 DEF EndsOK
  <2>3. \A d \in rst : readN'[d] < Len(out'[d])
    BY <1>0, <2>1, <2>2 DEF EndsOK, Types, SocketTypes
  <2> QED BY <1>0, <2>1, <2>3 DEF EndsOK, Readable
<1>3. ASSUME NEW c \in Conns, ClientClose(c) PROVE EndsOK'
  BY <1>0, <1>3 DEF EndsOK, Readable, ClientClose, clientVars, socketVars, workerVars, sendVars,
                    commandVars
<1>4. ASSUME NEW c \in Conns, NEW n \in 1 .. (Requests * Request), Arrive(c, n) PROVE EndsOK'
  <2>1. /\ rx[c] \in Nat /\ rx' = [rx EXCEPT ![c] = rx[c] + n] /\ n \in Nat
        /\ UNCHANGED <<fin, rst, client, readN, out, events, w>>
    BY <1>0, <1>4, Numbers DEF Arrive, workerVars, Types, SocketTypes
  <2>2. \A d \in Conns : rx[d] > 0 => rx'[d] > 0
    BY <1>0, <2>1 DEF Types, SocketTypes
  <2> QED BY <1>0, <2>1, <2>2, HandsConns DEF EndsOK, Readable
<1>5. ASSUME NEW c \in Conns, EndArrives(c) PROVE EndsOK'
  BY <1>0, <1>5 DEF EndsOK, Readable, EndArrives, Edge, clientVars, socketVars, workerVars,
                    sendVars, commandVars
<1>6. ASSUME NEW c \in Conns, ResetArrives(c) PROVE EndsOK'
  BY <1>0, <1>6 DEF EndsOK, Readable, ResetArrives, clientVars, socketVars, workerVars,
                    sendVars, commandVars
<1>7. CASE EpollWait
  <2>1. /\ events' = Reported /\ w'.at = "events"
        /\ UNCHANGED <<fin, rst, client, readN, out, rx>>
    BY <1>7 DEF EpollWait, Return, socketVars, clientVars
  <2> QED BY <1>0, <2>1, ReportedOnce DEF EndsOK, Readable
<1>8. CASE NextRound
  BY <1>0, <1>8 DEF EndsOK, Readable, NextRound, clientVars, socketVars, workerVars, sendVars,
                    commandVars
<1>9. CASE AcceptConnection
  <2>1. /\ events' \subseteq events /\ w'.at = "OnConnection"
        /\ UNCHANGED <<fin, rst, client, readN, out, rx>>
    BY <1>0, <1>9, Accepted DEF AcceptConnection, clientVars
  <2> QED BY <1>0, <2>1 DEF EndsOK, Readable
<1>10. CASE OnConnection
  BY <1>0, <1>10 DEF EndsOK, Readable, OnConnection, Push, Return, clientVars, socketVars,
                     workerVars, sendVars, commandVars
<1>11. CASE OnData
  BY <1>0, <1>11 DEF EndsOK, Readable, OnData, Push, Return, clientVars, socketVars, workerVars,
                     sendVars, commandVars
<1>12. CASE OnDisconnect
  BY <1>0, <1>12 DEF EndsOK, Readable, OnDisconnect, Push, Return, clientVars, socketVars,
                     workerVars, sendVars, commandVars
<1>13. ASSUME NEW c \in Conns, BeginRecv(c) PROVE EndsOK'
  <2>1. /\ events' \subseteq events /\ <<c, "in">> \in events /\ w'.at = "recv" /\ w'.c = c
        /\ UNCHANGED <<fin, rst, client, readN, out, rx>>
    BY <1>13 DEF BeginRecv, socketVars, clientVars
  <2> QED BY <1>0, <2>1 DEF EndsOK, Readable
<1>14. ASSUME NEW c \in Conns, BeginSendLeft(c) PROVE EndsOK'
  <2>1. /\ events' \subseteq events /\ w'.at \in {"events", "SendMessage"}
        /\ UNCHANGED <<fin, rst, client, readN, out, rx>>
    BY <1>0, <1>14, LeftTaken DEF BeginSendLeft, socketVars, clientVars
  <2> QED BY <1>0, <2>1 DEF EndsOK, Readable
<1>15. CASE Recv
  <2> DEFINE n == Min({MAXLINE, rx[w.c]})
  <2>1. w.c \in Conns /\ rx[w.c] \in Nat /\ rx[w.c] > 0 /\ MAXLINE \in Nat \ {0} /\ w.len \in Nat
    BY <1>0, <1>15, Numbers DEF Recv, Types, SocketTypes, WorkerTypes
  <2>2. n \in Nat \ {0}
    BY <2>1, MinOfTwo
  <2>3. /\ w'.len = w.len + n /\ w'.c = w.c /\ w'.at \in {"recv", "OnData"}
        /\ \A d \in Conns \ {w.c} : rx'[d] = rx[d]
        /\ UNCHANGED <<fin, rst, client, readN, out, events>>
    BY <1>0, <1>15 DEF Recv, clientVars, Types, SocketTypes, WorkerTypes
  <2> HIDE DEF n
  <2>4. <<w.c, "in">> \notin events
    BY <1>0, <2>1 DEF EventsOK
  <2>5. w'.len > 0
    BY <2>1, <2>2, <2>3
  <2>6. \A d \in Conns : <<d, "in">> \in events => Readable(d)'
    BY <1>0, <2>3, <2>4 DEF EndsOK, Readable
  <2> QED BY <1>0, <2>3, <2>5, <2>6 DEF EndsOK
<1>16. CASE RecvNothing
  <2>1. /\ w.c \in Conns /\ w'.c = w.c /\ w'.len = w.len /\ rx[w.c] = 0 /\ w.at = "recv"
        /\ w'.at = IF w.c \in fin \cup rst THEN "OnDisconnect" ELSE "OnData"
        /\ UNCHANGED <<fin, rst, client, readN, out, events, rx>>
    BY <1>0, <1>16 DEF RecvNothing, clientVars, socketVars, Types, WorkerTypes
  <2> QED BY <1>0, <2>1 DEF EndsOK, Readable
<1>17. CASE SendLeftPart
  <2>1. /\ w.c \in Conns /\ Sendable(w.c) \in 0 .. left[w.c] /\ Send(w.c, Sendable(w.c))
        /\ UNCHANGED <<fin, rst, client, readN, events, rx>>
    BY <1>0, <1>17, SendableFits DEF SendLeftPart, clientVars, workerVars
  <2>2. \A d \in Conns : Len(out'[d]) >= Len(out[d]) /\ Len(out[d]) \in Nat /\ Len(out'[d]) \in Nat /\ readN[d] \in Nat
    <3>1. \A d \in Conns : Len(out'[d]) >= Len(out[d]) /\ Len(out[d]) \in Nat /\ Len(out'[d]) \in Nat
      BY <1>0, <2>1, OutGrows
    <3> QED BY <1>0, <3>1 DEF Types, ClientTypes
  <2>5. \A d \in rst : readN'[d] < Len(out'[d])
    BY <1>0, <2>1, <2>2 DEF EndsOK, Types, SocketTypes
  <2>3. w' = w
    BY <1>17 DEF SendLeftPart, workerVars
  <2> QED BY <1>0, <2>1, <2>3, <2>5 DEF EndsOK, Readable
<1>18. CASE SendLeftEnd
  <2>1. /\ w.c \in Conns /\ Sendable(w.c) \in 0 .. left[w.c] /\ Send(w.c, Sendable(w.c))
        /\ UNCHANGED <<fin, rst, client, readN, events, rx>>
    BY <1>0, <1>18, SendableFits DEF SendLeftEnd, clientVars, workerVars
  <2>2. \A d \in Conns : Len(out'[d]) >= Len(out[d]) /\ Len(out[d]) \in Nat /\ Len(out'[d]) \in Nat /\ readN[d] \in Nat
    <3>1. \A d \in Conns : Len(out'[d]) >= Len(out[d]) /\ Len(out[d]) \in Nat /\ Len(out'[d]) \in Nat
      BY <1>0, <2>1, OutGrows
    <3> QED BY <1>0, <3>1 DEF Types, ClientTypes
  <2>5. \A d \in rst : readN'[d] < Len(out'[d])
    BY <1>0, <2>1, <2>2 DEF EndsOK, Types, SocketTypes
  <2>3. w'.at = "events"
    BY <1>18 DEF SendLeftEnd, Return
  <2> QED BY <1>0, <2>1, <2>3, <2>5 DEF EndsOK, Readable
<1>19. CASE SendLeftFails
  BY <1>0, <1>19 DEF EndsOK, Readable, SendLeftFails, Return, clientVars, socketVars,
                     workerVars, sendVars, commandVars
<1>20. CASE SendPart
  <2>1. /\ cmd.c \in Conns /\ Sendable(cmd.c) \in 0 .. left[cmd.c] /\ Send(cmd.c, Sendable(cmd.c))
        /\ UNCHANGED <<fin, rst, client, readN, events, rx>>
    BY <1>0, <1>20, SendableFits DEF SendPart, clientVars, workerVars
  <2>2. \A d \in Conns : Len(out'[d]) >= Len(out[d]) /\ Len(out[d]) \in Nat /\ Len(out'[d]) \in Nat /\ readN[d] \in Nat
    <3>1. \A d \in Conns : Len(out'[d]) >= Len(out[d]) /\ Len(out[d]) \in Nat /\ Len(out'[d]) \in Nat
      BY <1>0, <2>1, OutGrows
    <3> QED BY <1>0, <3>1 DEF Types, ClientTypes
  <2>5. \A d \in rst : readN'[d] < Len(out'[d])
    BY <1>0, <2>1, <2>2 DEF EndsOK, Types, SocketTypes
  <2>3. w' = w
    BY <1>20 DEF SendPart, workerVars
  <2> QED BY <1>0, <2>1, <2>3, <2>5 DEF EndsOK, Readable
<1>21. CASE SendAll
  <2>1. /\ cmd.c \in Conns /\ Sendable(cmd.c) \in 0 .. left[cmd.c] /\ Send(cmd.c, Sendable(cmd.c))
        /\ UNCHANGED <<fin, rst, client, readN, events, rx>>
    BY <1>0, <1>21, SendableFits DEF SendAll, clientVars, workerVars
  <2>2. \A d \in Conns : Len(out'[d]) >= Len(out[d]) /\ Len(out[d]) \in Nat /\ Len(out'[d]) \in Nat /\ readN[d] \in Nat
    <3>1. \A d \in Conns : Len(out'[d]) >= Len(out[d]) /\ Len(out[d]) \in Nat /\ Len(out'[d]) \in Nat
      BY <1>0, <2>1, OutGrows
    <3> QED BY <1>0, <3>1 DEF Types, ClientTypes
  <2>5. \A d \in rst : readN'[d] < Len(out'[d])
    BY <1>0, <2>1, <2>2 DEF EndsOK, Types, SocketTypes
  <2>3. w' = w
    BY <1>21 DEF SendAll, workerVars
  <2> QED BY <1>0, <2>1, <2>3, <2>5 DEF EndsOK, Readable
<1>22. CASE UNCHANGED <<fin, rst, client, readN, out, events, rx, w>>
  BY <1>0, <1>22 DEF EndsOK, Readable
<1> QED BY <1>1, <1>2, <1>3, <1>4, <1>5, <1>6, <1>7, <1>8, <1>9, <1>10, <1>11, <1>12, <1>13,
           <1>14, <1>15, <1>16, <1>17, <1>18, <1>19, <1>20, <1>21, <1>22
           DEF Next, Worker, CommandHandler, Arrivals, vars, Ask, BeginBatch, EndBatch,
               HandleOnConnect, Handling, Done, Current, HandleOnData, HandleOnDisconnect,
               SendData, SemWait, SendAgain, NextAnswer, Ctl, SendReset, clientVars, socketVars,
               workerVars, sendVars, commandVars

\* What is sent of a message goes from what is left of it into the socket.
LEMMA PartSent ==
  ASSUME Types, AnswersOK, NEW c \in Conns, NEW k \in 0 .. left[c], Send(c, k),
         Len(out[c]) + k - readN[c] <= Room, readN' = readN,
         NEW d \in Conns, Put(d) \in Nat, Put(d)' = Put(d),
         \/ left'[d] = left[d] - (IF d = c THEN k ELSE 0)
         \/ d = c /\ left'[d] = 0
  PROVE  OutOK(d)'
<1> DEFINE p == Put(d) * Answer
<1>1. p \in Nat /\ Answer \in Nat
  BY Numbers, TimesNext
<1>2. /\ k \in Nat /\ Len(out[d]) \in Nat /\ Len(out'[d]) = Len(out[d]) + (IF d = c THEN k ELSE 0)
  BY OutGrows
<1>3. /\ Len(out[d]) + left[d] <= p /\ (left[d] > 0 => Len(out[d]) + left[d] = p)
      /\ readN[d] <= Len(out[d]) /\ Len(out[d]) - readN[d] <= Room
  BY DEF AnswersOK, OutOK
<1>4. left[d] \in Nat /\ readN[d] \in Nat /\ Room \in Nat
  BY Numbers DEF Types, ConnTypes, ClientTypes
<1>5. OutOK(d)' <=> /\ Len(out'[d]) + left'[d] <= p
                    /\ left'[d] > 0 => Len(out'[d]) + left'[d] = p
                    /\ readN[d] <= Len(out'[d]) /\ Len(out'[d]) - readN[d] <= Room
  BY DEF OutOK
<1> HIDE DEF p
<1>6. CASE d = c
  <2> DEFINE x == Len(out[d])
             y == Len(out'[d])
             l == left[d]
             r == readN[d]
  <2>1. /\ x \in Nat /\ k \in Nat /\ l \in Nat /\ r \in Nat /\ Room \in Nat
        /\ k <= l /\ y = x + k /\ (left'[d] = l - k \/ left'[d] = 0)
        /\ x + l <= p /\ (l > 0 => x + l = p) /\ r <= x /\ x + k - r <= Room
    BY <1>2, <1>3, <1>4, <1>6
  <2> HIDE DEF x, y, l, r
  <2>2. /\ y + left'[d] <= p
        /\ left'[d] > 0 => y + left'[d] = p
        /\ r <= y /\ y - r <= Room
    BY <1>1, <2>1
  <2> QED BY <1>5, <2>2 DEF x, y, l, r
<1>7. CASE d # c
  BY <1>1, <1>2, <1>3, <1>4, <1>5, <1>7
<1> QED BY <1>6, <1>7

LEMMA AnswersStep == Waiting /\ Basics /\ [Next]_vars => AnswersOK'
<1> SUFFICES ASSUME Waiting, Basics, [Next]_vars PROVE AnswersOK'
  OBVIOUS
<1>0. /\ Types /\ HandsOK /\ EventsOK /\ NewOK /\ SendersOK /\ AnswersOK /\ FlowOK /\ AsksOK /\ EndsOK
      /\ NoConn \notin Conns /\ Listener \notin Conns /\ Answer \in Nat \ {0}
      /\ w.at \in {"OnConnection", "recv", "OnData", "OnDisconnect", "SendMessage"} => w.c \in Conns
      /\ cmd.at \in {"SendData", "sem_wait", "send"} => cmd.c \in Conns /\ cmd.due >= 1
  BY HandsConns, Names, Numbers DEF Basics, Waiting
<1>1. ASSUME NEW c \in Conns, Read(c) PROVE AnswersOK'
  <2> SUFFICES ASSUME NEW d \in Conns PROVE OutOK(d)' /\ BegunOK(d)'
    BY DEF AnswersOK
  <2>0. /\ OutOK(d) /\ BegunOK(d) /\ Put(d) \in Nat /\ Begun(d) \in Nat
        /\ Begun(d) + Due(d) = handled[d] \div Request
    BY <1>0, BegunFits DEF AnswersOK
  <2>1. /\ readN' = [readN EXCEPT ![c] = Len(out[c])] /\ UNCHANGED <<cmd, m_SendBuf, handled, out, left>>
    BY <1>1 DEF Read, sendVars, commandVars, socketVars
  <2>2. Len(out[d]) \in Nat /\ Room \in Nat /\ (readN'[d] = readN[d] \/ readN'[d] = Len(out[d]))
    <3>1. out[d] \in Seq(Nat \X Nat) /\ readN \in [Conns -> Nat]
      BY <1>0 DEF Types, ClientTypes, SocketTypes
    <3> QED BY <2>1, <3>1, Numbers
  <2>3. Put(d)' = Put(d) /\ BegunOK(d)'
    BY <2>0, <2>1 DEF Put, BegunOK, Begun, Due
  <2> QED BY <2>0, <2>1, <2>2, <2>3 DEF OutOK
<1>2. CASE SendLeftPart
  <2> SUFFICES ASSUME NEW d \in Conns PROVE OutOK(d)' /\ BegunOK(d)'
    BY DEF AnswersOK
  <2>0. /\ OutOK(d) /\ BegunOK(d) /\ Put(d) \in Nat /\ Begun(d) \in Nat
        /\ Begun(d) + Due(d) = handled[d] \div Request
    BY <1>0, BegunFits DEF AnswersOK
  <2>1. /\ w.c \in Conns /\ Sendable(w.c) \in 0 .. left[w.c] /\ Send(w.c, Sendable(w.c))
        /\ Len(out[w.c]) + Sendable(w.c) - readN[w.c] <= Room
        /\ left' = [left EXCEPT ![w.c] = left[w.c] - Sendable(w.c)]
        /\ UNCHANGED <<readN, cmd, m_SendBuf, handled>>
    BY <1>0, <1>2, SendableFits DEF SendLeftPart, clientVars, commandVars
  <2>2. left'[d] = left[d] - (IF d = w.c THEN Sendable(w.c) ELSE 0)
    BY <1>0, <2>1 DEF Types, ConnTypes
  <2>3. Put(d)' = Put(d)
    BY <2>1 DEF Put
  <2>4. OutOK(d)'
    BY <1>0, <2>0, <2>1, <2>2, <2>3, PartSent
  <2>5. BegunOK(d)'
    BY <2>0, <2>1 DEF BegunOK, Begun, Due
  <2> QED BY <2>4, <2>5
<1>3. CASE SendLeftEnd
  <2> SUFFICES ASSUME NEW d \in Conns PROVE OutOK(d)' /\ BegunOK(d)'
    BY DEF AnswersOK
  <2>0. /\ OutOK(d) /\ BegunOK(d) /\ Put(d) \in Nat /\ Begun(d) \in Nat
        /\ Begun(d) + Due(d) = handled[d] \div Request
    BY <1>0, BegunFits DEF AnswersOK
  <2>1. /\ w.c \in Conns /\ Sendable(w.c) \in 0 .. left[w.c] /\ Send(w.c, Sendable(w.c))
        /\ Len(out[w.c]) + Sendable(w.c) - readN[w.c] <= Room
        /\ left' = [left EXCEPT ![w.c] = 0]
        /\ UNCHANGED <<readN, cmd, m_SendBuf, handled>>
    BY <1>0, <1>3, SendableFits DEF SendLeftEnd, clientVars, commandVars
  <2>2. (d = w.c /\ left'[d] = 0) \/ (d # w.c /\ left'[d] = left[d] - 0)
    BY <1>0, <2>1 DEF Types, ConnTypes
  <2>3. Put(d)' = Put(d)
    BY <2>1 DEF Put
  <2>4. OutOK(d)'
    BY <1>0, <2>0, <2>1, <2>2, <2>3, PartSent
  <2>5. BegunOK(d)'
    BY <2>0, <2>1 DEF BegunOK, Begun, Due
  <2> QED BY <2>4, <2>5
<1>4. CASE BeginBatch
  BY <1>0, <1>4 DEF AnswersOK, OutOK, BegunOK, Put, Begun, Due, BeginBatch, clientVars,
                    socketVars, workerVars, sendVars, commandVars
<1>5. CASE EndBatch
  BY <1>0, <1>5 DEF AnswersOK, OutOK, BegunOK, Put, Begun, Due, EndBatch, clientVars,
                    socketVars, workerVars, sendVars, commandVars
<1>6. CASE HandleOnData
  <2> SUFFICES ASSUME NEW d \in Conns PROVE OutOK(d)' /\ BegunOK(d)'
    BY DEF AnswersOK
  <2>0. /\ OutOK(d) /\ BegunOK(d) /\ Put(d) \in Nat /\ Begun(d) \in Nat
        /\ Begun(d) + Due(d) = handled[d] \div Request
    BY <1>0, BegunFits DEF AnswersOK
  <2> DEFINE n == handled[Current.c] + Current.len
             due == (n \div Request) - (handled[Current.c] \div Request)
  <2>1. /\ Current.c \in Conns /\ due \in Nat /\ handled' = [handled EXCEPT ![Current.c] = n]
        /\ \/ due = 0 /\ cmd' = cmd
           \/ due > 0 /\ cmd' = [at |-> "SendData", c |-> Current.c, due |-> due]
    BY <1>0, <1>6, DataTaken DEF Commands
  <2>2. /\ cmd.c = NoConn /\ cmd.at = "batch" /\ UNCHANGED <<readN, m_SendBuf, out, left>>
    BY <1>0, <1>6 DEF HandleOnData, Handling, HandsOK, Sending, clientVars, socketVars, sendVars
  <2>3. /\ n \div Request \in Nat /\ handled[Current.c] \div Request \in Nat
        /\ handled'[d] = IF d = Current.c THEN n ELSE handled[d]
    <3>1. handled[Current.c] \in Nat /\ n \in Nat
      BY <1>0, <1>6, DataTaken
    <3> QED BY <1>0, <2>1, <3>1, Numbers, QuotientFits DEF Types, CommandTypes
  <2>4. Put(d) = m_SendBuf[d] /\ Begun(d) = m_SendBuf[d] /\ Due(d) = 0 /\ m_SendBuf[d] \in Nat
    BY <1>0, <2>2 DEF Put, Begun, Due, Types, ConnTypes
  <2> HIDE DEF n, due
  <2>5. Put(d)' = m_SendBuf[d] /\ Begun(d)' = m_SendBuf[d]
    BY <1>0, <2>1, <2>2 DEF Put, Begun
  <2>6. OutOK(d)'
    BY <2>0, <2>2, <2>4, <2>5 DEF OutOK
  <2>7. Due(d)' = IF d = Current.c THEN due ELSE 0
    BY <1>0, <2>1, <2>2 DEF Due
  <2>8. Begun(d)' + Due(d)' = handled'[d] \div Request
    <3>1. CASE d = Current.c
      <4>1. m_SendBuf[d] = handled[Current.c] \div Request
        BY <2>0, <2>4, <3>1
      <4>2. m_SendBuf[d] + due = n \div Request
        BY <2>3, <4>1 DEF due
      <4> QED BY <2>3, <2>5, <2>7, <3>1, <4>2
    <3>2. CASE d # Current.c
      BY <2>0, <2>3, <2>4, <2>5, <2>7, <3>2
    <3> QED BY <3>1, <3>2
  <2>9. ~(cmd'.c = d /\ cmd'.at \in {"sem_wait", "send"})
    BY <1>0, <2>1, <2>2
  <2> QED BY <2>6, <2>8, <2>9 DEF BegunOK
<1>7. CASE SendData
  <2> SUFFICES ASSUME NEW d \in Conns PROVE OutOK(d)' /\ BegunOK(d)'
    BY DEF AnswersOK
  <2>0. /\ OutOK(d) /\ BegunOK(d) /\ Put(d) \in Nat /\ Begun(d) \in Nat
        /\ Begun(d) + Due(d) = handled[d] \div Request
    BY <1>0, BegunFits DEF AnswersOK
  <2>1. /\ cmd.c \in Conns /\ cmd.at = "SendData" /\ m_SendBuf' = [m_SendBuf EXCEPT ![cmd.c] = m_SendBuf[cmd.c] + 1]
        /\ cmd'.at = "sem_wait" /\ cmd'.c = cmd.c /\ cmd'.due = cmd.due
        /\ UNCHANGED <<readN, handled, out, left>>
    BY <1>0, <1>7 DEF SendData, clientVars, socketVars, Types, CommandTypes
  <2>2. /\ m_SendBuf[d] \in Nat /\ m_SendBuf'[d] = IF d = cmd.c THEN m_SendBuf[d] + 1 ELSE m_SendBuf[d]
    BY <1>0, <2>1 DEF Types, ConnTypes
  <2>3. Put(d)' = Put(d) /\ Begun(d)' = Begun(d) /\ Due(d)' = Due(d)
    BY <2>1, <2>2 DEF Put, Begun, Due
  <2> QED BY <2>0, <2>1, <2>2, <2>3 DEF OutOK, BegunOK
<1>8. CASE SemWait
  <2> SUFFICES ASSUME NEW d \in Conns PROVE OutOK(d)' /\ BegunOK(d)'
    BY DEF AnswersOK
  <2>0. /\ OutOK(d) /\ BegunOK(d) /\ Put(d) \in Nat /\ Begun(d) \in Nat
        /\ Begun(d) + Due(d) = handled[d] \div Request
    BY <1>0, BegunFits DEF AnswersOK
  <2>1. /\ cmd.c \in Conns /\ cmd.at = "sem_wait" /\ left' = [left EXCEPT ![cmd.c] = Answer]
        /\ cmd'.at = "send" /\ cmd'.c = cmd.c /\ cmd'.due = cmd.due
        /\ UNCHANGED <<readN, handled, out, m_SendBuf>>
    BY <1>0, <1>8 DEF SemWait, clientVars, socketVars, Types, CommandTypes
  <2>2. left'[d] = IF d = cmd.c THEN Answer ELSE left[d]
    BY <1>0, <2>1 DEF Types, ConnTypes
  <2>3. Begun(d)' = Begun(d) /\ Due(d)' = Due(d)
    BY <2>1 DEF Begun, Due
  <2>4. BegunOK(d)'
    BY <2>0, <2>1, <2>3 DEF BegunOK
  <2>5. CASE d = cmd.c
    <3>1. Put(d) < asked[d]
      BY <1>0, <2>1, <2>5, BegunFits
    <3>2. left[d] = 0 /\ Len(out[d]) = Put(d) * Answer
      BY <1>0, <2>0, <3>1, Behind
    <3>3. m_SendBuf[d] = Put(d) + 1 /\ Put(d)' = m_SendBuf[d]
      BY <1>0, <2>0, <2>1, <2>5 DEF Put, Types, ConnTypes
    <3>4. (Put(d) + 1) * Answer = Put(d) * Answer + Answer /\ Put(d) * Answer \in Nat
      BY <1>0, <2>0, TimesNext
    <3>5. Len(out'[d]) + left'[d] = Put(d)' * Answer
      BY <2>1, <2>2, <2>5, <3>2, <3>3, <3>4
    <3>6. Put(d)' * Answer \in Nat
      BY <3>3, <3>4, <1>0
    <3> QED BY <2>0, <2>1, <2>4, <3>5, <3>6 DEF OutOK
  <2>6. CASE d # cmd.c
    BY <2>0, <2>1, <2>2, <2>4, <2>6 DEF OutOK, Put
  <2> QED BY <2>5, <2>6
<1>9. CASE SendPart
  <2> SUFFICES ASSUME NEW d \in Conns PROVE OutOK(d)' /\ BegunOK(d)'
    BY DEF AnswersOK
  <2>0. /\ OutOK(d) /\ BegunOK(d) /\ Put(d) \in Nat /\ Begun(d) \in Nat
        /\ Begun(d) + Due(d) = handled[d] \div Request
    BY <1>0, BegunFits DEF AnswersOK
  <2>1. /\ cmd.c \in Conns /\ Sendable(cmd.c) \in 0 .. left[cmd.c] /\ Send(cmd.c, Sendable(cmd.c))
        /\ Len(out[cmd.c]) + Sendable(cmd.c) - readN[cmd.c] <= Room
        /\ left' = [left EXCEPT ![cmd.c] = left[cmd.c] - Sendable(cmd.c)]
        /\ UNCHANGED <<readN, cmd, m_SendBuf, handled>>
    BY <1>0, <1>9, SendableFits DEF SendPart, clientVars, commandVars
  <2>2. left'[d] = left[d] - (IF d = cmd.c THEN Sendable(cmd.c) ELSE 0)
    BY <1>0, <2>1 DEF Types, ConnTypes
  <2>3. Put(d)' = Put(d)
    BY <2>1 DEF Put
  <2>4. OutOK(d)'
    BY <1>0, <2>0, <2>1, <2>2, <2>3, PartSent
  <2>5. BegunOK(d)'
    BY <2>0, <2>1 DEF BegunOK, Begun, Due
  <2> QED BY <2>4, <2>5
<1>10. CASE SendAll
  <2> SUFFICES ASSUME NEW d \in Conns PROVE OutOK(d)' /\ BegunOK(d)'
    BY DEF AnswersOK
  <2>0. /\ OutOK(d) /\ BegunOK(d) /\ Put(d) \in Nat /\ Begun(d) \in Nat
        /\ Begun(d) + Due(d) = handled[d] \div Request
    BY <1>0, BegunFits DEF AnswersOK
  <2>1. /\ cmd.c \in Conns /\ cmd.at = "send" /\ Sending /\ NextAnswer
        /\ Sendable(cmd.c) = left[cmd.c] /\ left[cmd.c] \in 0 .. left[cmd.c] /\ Send(cmd.c, left[cmd.c])
        /\ Len(out[cmd.c]) + left[cmd.c] - readN[cmd.c] <= Room
        /\ left' = [left EXCEPT ![cmd.c] = 0]
        /\ UNCHANGED <<readN, m_SendBuf, handled>>
    BY <1>0, <1>10, SendableFits DEF SendAll, Sending, clientVars
  <2>2. (d = cmd.c /\ left'[d] = 0) \/ (d # cmd.c /\ left'[d] = left[d] - 0)
    BY <1>0, <2>1 DEF Types, ConnTypes
  <2>3. /\ cmd.due \in Nat /\ m_SendBuf[d] \in Nat
        /\ \/ cmd.due = 1 /\ cmd'.at = "batch" /\ cmd'.c = NoConn /\ cmd'.due = 0
           \/ /\ cmd'.at = "SendData" /\ cmd'.c = cmd.c
              /\ cmd'.due \in Nat /\ cmd'.due >= 1 /\ cmd.due = cmd'.due + 1
    BY <1>0, <2>1, NextDue DEF Types, CommandTypes, ConnTypes
  <2>4. Put(d)' = Put(d)
    BY <1>0, <2>1, <2>3 DEF Put
  <2>5. OutOK(d)'
    BY <1>0, <2>0, <2>1, <2>2, <2>4, PartSent
  <2>6. cmd.at = "send" /\ m_SendBuf' = m_SendBuf /\ handled' = handled /\ cmd.c \in Conns
    BY <2>1
  <2>7. BegunOK(d)'
    <3>1. CASE d = cmd.c
      BY <1>0, <2>0, <2>3, <2>6, <3>1 DEF BegunOK, Begun, Due
    <3>2. CASE d # cmd.c
      BY <1>0, <2>0, <2>3, <2>6, <3>2 DEF BegunOK, Begun, Due
    <3> QED BY <3>1, <3>2
  <2> QED BY <2>5, <2>7
<1>11. CASE SendAgain
  <2> SUFFICES ASSUME NEW d \in Conns PROVE OutOK(d)' /\ BegunOK(d)'
    BY DEF AnswersOK
  <2>0. /\ OutOK(d) /\ BegunOK(d) /\ Put(d) \in Nat /\ Begun(d) \in Nat
        /\ Begun(d) + Due(d) = handled[d] \div Request
    BY <1>0, BegunFits DEF AnswersOK
  <2>1. /\ cmd.c \in Conns /\ cmd.at = "send" /\ Sending /\ NextAnswer
        /\ UNCHANGED <<readN, m_SendBuf, handled, out, left>>
    BY <1>0, <1>11 DEF SendAgain, Sending, clientVars, socketVars, sendVars
  <2>3. /\ cmd.due \in Nat /\ m_SendBuf[d] \in Nat
        /\ \/ cmd.due = 1 /\ cmd'.at = "batch" /\ cmd'.c = NoConn /\ cmd'.due = 0
           \/ /\ cmd'.at = "SendData" /\ cmd'.c = cmd.c
              /\ cmd'.due \in Nat /\ cmd'.due >= 1 /\ cmd.due = cmd'.due + 1
    BY <1>0, <2>1, NextDue DEF Types, CommandTypes, ConnTypes
  <2>4. Put(d)' = Put(d)
    BY <1>0, <2>1, <2>3 DEF Put
  <2>5. OutOK(d)'
    BY <2>0, <2>1, <2>4 DEF OutOK
  <2>6. BegunOK(d)'
    BY <1>0, <2>0, <2>1, <2>3 DEF BegunOK, Begun, Due
  <2> QED BY <2>5, <2>6
<1>12. CASE UNCHANGED <<cmd, m_SendBuf, handled, out, left, readN>>
  BY <1>0, <1>12 DEF AnswersOK, OutOK, BegunOK, Put, Begun, Due
<1> QED BY <1>1, <1>2, <1>3, <1>4, <1>5, <1>6, <1>7, <1>8, <1>9, <1>10, <1>11, <1>12
           DEF Next, Worker, CommandHandler, Arrivals, vars, Connect, Ask, ClientClose, Arrive,
               Edge, EndArrives, ResetArrives, EpollWait, Return, Reported, NextRound,
               AcceptConnection, Ctl, OnConnection, Push, OnData, OnDisconnect, BeginRecv,
               BeginSendLeft, Recv, RecvNothing, SendLeftFails, HandleOnConnect, Handling, Done,
               Current, HandleOnDisconnect, SendReset, clientVars, socketVars, workerVars,
               sendVars, commandVars

LEMMA SendersStep == Waiting /\ Basics /\ [Next]_vars => SendersOK'
<1> SUFFICES ASSUME Waiting, Basics, [Next]_vars PROVE SendersOK'
  OBVIOUS
<1>0. /\ Types /\ HandsOK /\ EventsOK /\ NewOK /\ SendersOK /\ AnswersOK /\ FlowOK /\ AsksOK /\ EndsOK
      /\ NoConn \notin Conns /\ Listener \notin Conns /\ Answer \in Nat \ {0}
      /\ w.at \in {"OnConnection", "recv", "OnData", "OnDisconnect", "SendMessage"} => w.c \in Conns
      /\ cmd.at \in {"SendData", "sem_wait", "send"} => cmd.c \in Conns /\ cmd.due >= 1
  BY HandsConns, Names, Numbers DEF Basics, Waiting
<1>1. ASSUME NEW c \in Conns, ResetArrives(c) PROVE SendersOK'
  <2>1. rst \subseteq rst' /\ UNCHANGED <<reg, events, w, left, cmd, sem>>
    BY <1>1 DEF ResetArrives, workerVars, sendVars, commandVars
  <2> QED BY <1>0, <2>1 DEF SendersOK, SenderOK, Writing
<1>2. CASE EpollWait
  <2>1. events' = Reported /\ w'.at = "events" /\ UNCHANGED <<reg, left, cmd, sem, rst>>
    BY <1>2 DEF EpollWait, Return, socketVars, sendVars, commandVars
  <2>2. \A c \in Conns : <<c, "out">> \in events' => reg[c] = "out"
    BY <1>0, <2>1, ReportedOnce
  <2> QED BY <1>0, <2>1, <2>2 DEF SendersOK, SenderOK, Writing
<1>3. CASE NextRound
  BY <1>0, <1>3 DEF SendersOK, SenderOK, Writing, NextRound, clientVars, socketVars, workerVars,
                    sendVars, commandVars
<1>4. CASE AcceptConnection
  <2>0. PICK c \in Conns : c = Head(backlog)
    BY <1>0, <1>4, Accepted
  <2>1. c \in Conns /\ events' \subseteq events /\ w'.at = "OnConnection" /\ UNCHANGED <<left, cmd, sem, rst>>
    BY <1>0, <1>4, <2>0, Accepted DEF AcceptConnection, sendVars, commandVars
  <2>2. \A d \in Conns : reg'[d] = "out" => reg[d] = "out"
    BY <1>0, <1>4, <2>0, <2>1 DEF AcceptConnection, Ctl, Types, EpollTypes
  <2> QED BY <1>0, <2>1, <2>2 DEF SendersOK, SenderOK, Writing
<1>5. CASE OnConnection
  BY <1>0, <1>5 DEF SendersOK, SenderOK, Writing, OnConnection, Push, Return, clientVars,
                    socketVars, workerVars, sendVars, commandVars
<1>6. CASE OnData
  BY <1>0, <1>6 DEF SendersOK, SenderOK, Writing, OnData, Push, Return, clientVars, socketVars,
                    workerVars, sendVars, commandVars
<1>7. CASE OnDisconnect
  BY <1>0, <1>7 DEF SendersOK, SenderOK, Writing, OnDisconnect, Push, Return, clientVars,
                    socketVars, workerVars, sendVars, commandVars
<1>8. ASSUME NEW c \in Conns, BeginRecv(c) PROVE SendersOK'
  <2>1. events' \subseteq events /\ w'.at = "recv" /\ UNCHANGED <<reg, left, cmd, sem, rst>>
    BY <1>8 DEF BeginRecv, socketVars, sendVars, commandVars
  <2> QED BY <1>0, <2>1 DEF SendersOK, SenderOK, Writing
<1>9. ASSUME NEW c \in Conns, BeginSendLeft(c) PROVE SendersOK'
  <2>1. /\ events' \subseteq events /\ <<c, "out">> \in events
        /\ w'.at = "SendMessage" => w'.c = c
        /\ UNCHANGED <<reg, left, cmd, sem, rst>>
    BY <1>0, <1>9, LeftTaken DEF BeginSendLeft, socketVars, sendVars, commandVars
  <2> QED BY <1>0, <2>1 DEF SendersOK, SenderOK, Writing
<1>10. CASE Recv
  <2>1. /\ events' = events /\ w'.at # "SendMessage"
        /\ UNCHANGED <<reg, left, cmd, sem, rst>>
    BY <1>0, <1>10 DEF Recv, Return, Push, socketVars, sendVars, commandVars, Types, WorkerTypes
  <2> QED BY <1>0, <2>1 DEF SendersOK, SenderOK, Writing
<1>11. CASE RecvNothing
  <2>1. events' = events /\ w'.at # "SendMessage" /\ UNCHANGED <<reg, left, cmd, sem, rst>>
    BY <1>0, <1>11 DEF RecvNothing, socketVars, sendVars, commandVars, Types, WorkerTypes
  <2> QED BY <1>0, <2>1 DEF SendersOK, SenderOK, Writing
<1>12. CASE SendLeftPart
  <2>1. /\ w.c \in Conns /\ Sendable(w.c) \in 0 .. left[w.c] /\ left[w.c] \in Nat /\ Sendable(w.c) < left[w.c] /\ Sendable(w.c) > 0
        /\ left' = [left EXCEPT ![w.c] = left[w.c] - Sendable(w.c)]
        /\ UNCHANGED <<reg, events, w, cmd, sem, rst>>
    BY <1>0, <1>12, SendableFits DEF SendLeftPart, workerVars, commandVars, Types, ConnTypes
  <2>2. left'[w.c] > 0 /\ left[w.c] > 0 /\ \A d \in Conns \ {w.c} : left'[d] = left[d]
    BY <1>0, <2>1 DEF Types, ConnTypes
  <2> QED BY <1>0, <2>1, <2>2 DEF SendersOK, SenderOK, Writing
<1>13. CASE SendLeftEnd
  <2>0. PICK c \in Conns : c = w.c
    BY <1>0, <1>13 DEF SendLeftEnd
  <2>1. /\ c \in Conns /\ c \notin rst /\ w.at = "SendMessage" /\ w'.at = "events"
        /\ left' = [left EXCEPT ![c] = 0] /\ sem' = [sem EXCEPT ![c] = sem[c] + 1]
        /\ reg' = [reg EXCEPT ![c] = "in"]
        /\ UNCHANGED <<events, cmd, rst>>
    BY <1>0, <1>13, <2>0 DEF SendLeftEnd, Ctl, Return, commandVars
  <2>2. left'[c] = 0 /\ reg'[c] = "in" /\ \A d \in Conns \ {c} : left'[d] = left[d] /\ sem'[d] = sem[d] /\ reg'[d] = reg[d]
    BY <1>0, <2>1 DEF Types, ConnTypes, EpollTypes
  <2>3. left[c] > 0 /\ sem[c] = 0 /\ ~(cmd.at = "send" /\ cmd.c = c)
    <3>1. Writing(c)
      BY <2>0, <2>1 DEF Writing
    <3>2. SenderOK(c)
      BY <1>0, <2>1 DEF SendersOK
    <3>3. left[c] \in Nat
      BY <1>0, <2>1, Numbers DEF Types, ConnTypes
    <3> QED BY <2>1, <3>1, <3>2, <3>3 DEF SenderOK
  <2>4. sem'[c] = 1
    BY <1>0, <2>1, <2>3 DEF Types, ConnTypes
  <2>5. ~Writing(c)'
    BY <1>0, <2>0, <2>1, <2>2 DEF Writing, EventsOK
  <2>6. \A d \in Conns : SenderOK(d)'
    <3>1. SenderOK(c)'
      BY <2>2, <2>4, <2>5 DEF SenderOK
    <3>2. ASSUME NEW d \in Conns \ {c} PROVE SenderOK(d)'
      BY <1>0, <2>1, <2>2, <3>2 DEF SendersOK, SenderOK, Writing
    <3> QED BY <3>1, <3>2
  <2> QED BY <1>0, <2>1, <2>2, <2>3, <2>6 DEF SendersOK
<1>14. CASE SendLeftFails
  <2>1. /\ w.c \in rst /\ w.c \in Conns /\ w'.at = "events" /\ sem' = [sem EXCEPT ![w.c] = sem[w.c] + 1]
        /\ UNCHANGED <<reg, left, events, cmd, rst>>
    BY <1>0, <1>14 DEF SendLeftFails, Return, socketVars, commandVars
  <2>2. \A d \in Conns \ rst : sem'[d] = sem[d]
    BY <1>0, <2>1 DEF Types, ConnTypes
  <2> QED BY <1>0, <2>1, <2>2 DEF SendersOK, SenderOK, Writing
<1>15. CASE BeginBatch
  BY <1>0, <1>15 DEF SendersOK, SenderOK, Writing, BeginBatch, clientVars, socketVars,
                     workerVars, sendVars, commandVars
<1>16. CASE EndBatch
  BY <1>0, <1>16 DEF SendersOK, SenderOK, Writing, EndBatch, clientVars, socketVars, workerVars,
                     sendVars, commandVars
<1>17. CASE HandleOnData
  <2>1. UNCHANGED <<reg, events, w, left, sem, rst>> /\ ((cmd' = cmd) \/ (cmd'.at = "SendData"))
    BY <1>0, <1>17, DataTaken DEF HandleOnData, socketVars, workerVars, sendVars
  <2> QED BY <1>0, <2>1 DEF SendersOK, SenderOK, Writing
<1>18. CASE HandleOnDisconnect
  <2>1. /\ \A d \in Conns : reg'[d] = "out" => reg[d] = "out"
        /\ UNCHANGED <<events, w, left, cmd, sem, rst>>
    BY <1>0, <1>18, Handled DEF HandleOnDisconnect, socketVars, workerVars, sendVars, Types,
                                EpollTypes
  <2> QED BY <1>0, <2>1 DEF SendersOK, SenderOK, Writing
<1>19. CASE SendData
  <2>1. cmd'.at = "sem_wait" /\ UNCHANGED <<reg, events, w, left, sem, rst>>
    BY <1>0, <1>19 DEF SendData, socketVars, workerVars, Types, CommandTypes
  <2> QED BY <1>0, <2>1 DEF SendersOK, SenderOK, Writing
<1>20. CASE SemWait
  <2>0. PICK c \in Conns : c = cmd.c
    BY <1>0, <1>20 DEF SemWait
  <2>1. /\ c \in Conns /\ sem[c] > 0 /\ cmd'.at = "send" /\ cmd'.c = c
        /\ left' = [left EXCEPT ![c] = Answer] /\ sem' = [sem EXCEPT ![c] = sem[c] - 1]
        /\ UNCHANGED <<reg, events, w, rst>> /\ cmd.at # "send"
    BY <1>0, <1>20, <2>0 DEF SemWait, socketVars, workerVars, Types, CommandTypes
  <2>2. /\ left'[c] = Answer /\ \A d \in Conns \ {c} : left'[d] = left[d] /\ sem'[d] = sem[d]
    BY <1>0, <2>1 DEF Types, ConnTypes
  <2>3. c \notin rst => left[c] = 0 /\ sem[c] = 1 /\ ~Writing(c)
    BY <1>0, <2>0, <2>1 DEF SendersOK, SenderOK
  <2>4. c \notin rst => sem'[c] = 0 /\ ~Writing(c)'
    BY <1>0, <2>1, <2>3 DEF Types, ConnTypes, Writing
  <2>5. SenderOK(c)'
    BY <1>0, <2>1, <2>2, <2>4 DEF SenderOK
  <2>6. ASSUME NEW d \in Conns \ {c} PROVE SenderOK(d)'
    BY <1>0, <2>1, <2>2, <2>6 DEF SendersOK, SenderOK, Writing
  <2> QED BY <1>0, <2>1, <2>2, <2>5, <2>6 DEF SendersOK
<1>21. CASE SendPart
  <2>1. /\ cmd.c \in Conns /\ Sendable(cmd.c) \in 0 .. left[cmd.c] /\ left[cmd.c] \in Nat /\ Sendable(cmd.c) < left[cmd.c] /\ Sendable(cmd.c) > 0
        /\ left' = [left EXCEPT ![cmd.c] = left[cmd.c] - Sendable(cmd.c)]
        /\ UNCHANGED <<reg, events, w, cmd, sem, rst>>
    BY <1>0, <1>21, SendableFits DEF SendPart, workerVars, commandVars, Types, ConnTypes
  <2>2. left'[cmd.c] > 0 /\ left[cmd.c] > 0 /\ \A d \in Conns \ {cmd.c} : left'[d] = left[d]
    BY <1>0, <2>1 DEF Types, ConnTypes
  <2> QED BY <1>0, <2>1, <2>2 DEF SendersOK, SenderOK, Writing
<1>22. CASE SendAll
  <2>0. PICK c \in Conns : c = cmd.c
    BY <1>0, <1>22 DEF SendAll
  <2>1. /\ c \in Conns /\ c \notin rst /\ cmd.at = "send" /\ Sending /\ NextAnswer
        /\ left' = [left EXCEPT ![c] = 0] /\ sem' = [sem EXCEPT ![c] = sem[c] + 1]
        /\ UNCHANGED <<reg, events, w, rst>>
    BY <1>0, <1>22, <2>0 DEF SendAll, Sending, workerVars
  <2>2. cmd'.at # "send"
    BY <1>0, <2>1, NextDue
  <2>3. left'[c] = 0 /\ \A d \in Conns \ {c} : left'[d] = left[d] /\ sem'[d] = sem[d]
    BY <1>0, <2>1 DEF Types, ConnTypes
  <2>4. left[c] > 0 /\ sem[c] = 0 /\ ~Writing(c)
    BY <1>0, <2>0, <2>1 DEF SendersOK, SenderOK
  <2>5. sem'[c] = 1 /\ ~Writing(c)'
    BY <1>0, <2>1, <2>4 DEF Types, ConnTypes, Writing
  <2>6. SenderOK(c)'
    BY <2>3, <2>5 DEF SenderOK
  <2>7. ASSUME NEW d \in Conns \ {c} PROVE SenderOK(d)'
    BY <1>0, <2>1, <2>2, <2>3, <2>7 DEF SendersOK, SenderOK, Writing
  <2> QED BY <2>2, <2>6, <2>7 DEF SendersOK
<1>23. CASE SendAgain
  <2>0. PICK c \in Conns : c = cmd.c
    BY <1>0, <1>23 DEF SendAgain
  <2>1. /\ c \in Conns /\ c \notin rst /\ cmd.at = "send" /\ Sending /\ NextAnswer
        /\ reg' = [reg EXCEPT ![c] = "out"]
        /\ UNCHANGED <<left, sem, events, w, rst>>
    BY <1>0, <1>23, <2>0 DEF SendAgain, Ctl, Sending, workerVars, socketVars, sendVars
  <2>2. cmd'.at # "send" /\ left[c] > 0 /\ \A d \in Conns \ {c} : reg'[d] = reg[d]
    BY <1>0, <2>0, <2>1, NextDue DEF SendersOK, Types, EpollTypes
  <2> QED BY <1>0, <2>1, <2>2 DEF SendersOK, SenderOK, Writing
<1>24. CASE UNCHANGED <<reg, events, w, left, cmd, sem, rst>>
  BY <1>0, <1>24 DEF SendersOK, SenderOK, Writing
<1> QED BY <1>1, <1>2, <1>3, <1>4, <1>5, <1>6, <1>7, <1>8, <1>9, <1>10, <1>11, <1>12, <1>13,
           <1>14, <1>15, <1>16, <1>17, <1>18, <1>19, <1>20, <1>21, <1>22, <1>23, <1>24
           DEF Next, Worker, CommandHandler, Arrivals, vars, Connect, Ask, Read, Edge,
               ClientClose, Arrive, EndArrives, HandleOnConnect, Handling, Done, Current,
               SendReset, clientVars, socketVars, workerVars, sendVars, commandVars

-----------------------------------------------------------------------------
(* No byte is in two places                                                *)

LEMMA WayIsNumber == ASSUME Types, NEW c \in Conns PROVE Way(c) \in Nat /\ asked[c] * Request \in Nat
<1>1. Hand(c) \in Nat /\ rx[c] \in Nat /\ flying[c] \in Nat /\ asked[c] \in Nat
  BY DEF Types, ClientTypes, SocketTypes, WorkerTypes, Hand
<1> QED BY <1>1, Numbers DEF Way

LEMMA NextWay == ASSUME Types', NEW c \in Conns PROVE Way(c)' \in Nat
<1>1. Hand(c)' \in Nat /\ rx'[c] \in Nat /\ flying'[c] \in Nat
  BY DEF Types, ClientTypes, SocketTypes, WorkerTypes, Hand
<1> QED BY <1>1 DEF Way

\* The commands stay: what comes on its way was asked.
LEMMA FlowSame ==
  ASSUME Types, FlowOK, UNCHANGED <<m_CommandList, handled>>,
         \A c \in Conns : \A x \in Nat :
           x + Way(c) <= asked[c] * Request => x + Way(c)' <= asked'[c] * Request
  PROVE  FlowOK'
<1>1. ASSUME NEW c \in Conns PROVE (\E f \in [1 .. Len(m_CommandList) + 1 -> Nat] : Tally(f, c))'
  <2>1. PICK f \in [1 .. Len(m_CommandList) + 1 -> Nat] : Tally(f, c)
    BY <1>1 DEF FlowOK
  <2>2. Len(m_CommandList) \in Nat
    BY DEF Types, CommandTypes
  <2>3. f[Len(m_CommandList) + 1] \in Nat /\ f[Len(m_CommandList) + 1] + Way(c) <= asked[c] * Request
    BY <2>1, <2>2 DEF Tally
  <2>4. f[Len(m_CommandList) + 1] + Way(c)' <= asked'[c] * Request
    BY <2>3
  <2>5. Tally(f, c)'
    BY <2>1, <2>4 DEF Tally
  <2> QED BY <2>5
<1> QED BY <1>1 DEF FlowOK

\* A command brings what the worker had in hand.
LEMMA FlowPush ==
  ASSUME Types, Types', FlowOK, NEW m \in Commands, m_CommandList' = Append(m_CommandList, m),
         UNCHANGED <<handled, asked>>, \A c \in Conns : Bytes(m, c) + Way(c)' <= Way(c)
  PROVE  FlowOK'
<1> DEFINE n == Len(m_CommandList)
<1>0. /\ n \in Nat /\ Len(m_CommandList') = n + 1
      /\ \A i \in 1 .. n : m_CommandList'[i] = m_CommandList[i]
      /\ m_CommandList'[n + 1] = m
  BY PushedCommand DEF Types
<1>1. ASSUME NEW c \in Conns PROVE (\E f \in [1 .. Len(m_CommandList) + 1 -> Nat] : Tally(f, c))'
  <2>1. PICK f \in [1 .. n + 1 -> Nat] : Tally(f, c)
    BY <1>1 DEF FlowOK
  <2>2. PICK b \in Nat : b = Bytes(m, c)
    BY DEF Bytes, Commands
  <2>3. PICK g \in [1 .. n + 2 -> Nat] :
          (\A i \in 1 .. n + 1 : g[i] = f[i]) /\ g[n + 2] = f[n + 1] + b
    <3> DEFINE h == [i \in 1 .. n + 2 |-> IF i \in 1 .. n + 1 THEN f[i] ELSE f[n + 1] + b]
    <3>1. h \in [1 .. n + 2 -> Nat] /\ (\A i \in 1 .. n + 1 : h[i] = f[i]) /\ h[n + 2] = f[n + 1] + b
      BY <1>0, <2>1, <2>2
    <3> QED BY <3>1
  <2>4. /\ handled[c] <= f[1]
        /\ \A i \in 1 .. n : f[i] + Bytes(m_CommandList[i], c) <= f[i + 1]
        /\ \A i, j \in 1 .. n + 1 : i <= j => f[i] <= f[j]
        /\ f[n + 1] + Way(c) <= asked[c] * Request
    BY <2>1 DEF Tally
  <2>5. handled'[c] <= g[1]
    BY <1>0, <2>3, <2>4
  <2>6. ASSUME NEW i \in 1 .. n + 1 PROVE g[i] + Bytes(m_CommandList'[i], c) <= g[i + 1]
    <3>1. CASE i \in 1 .. n
      BY <1>0, <2>3, <2>4, <3>1
    <3>2. CASE i = n + 1
      BY <1>0, <2>1, <2>2, <2>3, <3>2
    <3> QED BY <1>0, <3>1, <3>2
  <2>7. ASSUME NEW i \in 1 .. n + 2, NEW j \in 1 .. n + 2, i <= j PROVE g[i] <= g[j]
    <3>1. CASE j \in 1 .. n + 1
      BY <1>0, <2>3, <2>4, <2>7, <3>1
    <3>2. CASE j = n + 2
      <4>1. CASE i \in 1 .. n + 1
        <5>1. n + 1 \in 1 .. n + 1 /\ i <= n + 1 /\ f[i] \in Nat /\ f[n + 1] \in Nat
          BY <1>0, <2>1, <4>1
        <5>2. f[i] <= f[n + 1]
          BY <2>4, <4>1, <5>1
        <5> QED BY <2>2, <2>3, <3>2, <4>1, <5>1, <5>2
      <4>2. CASE i = n + 2
        BY <1>0, <2>3, <3>2, <4>2
      <4> QED BY <1>0, <4>1, <4>2
    <3> QED BY <1>0, <3>1, <3>2
  <2>8. g[n + 2] + Way(c)' <= asked'[c] * Request
    <3>1. f[n + 1] \in Nat /\ Way(c) \in Nat /\ Way(c)' \in Nat /\ asked[c] * Request \in Nat
      <4>1. Way(c)' \in Nat
        BY NextWay
      <4> QED BY <1>0, <2>1, <4>1, WayIsNumber
    <3>2. b + Way(c)' <= Way(c) /\ f[n + 1] + Way(c) <= asked[c] * Request /\ asked'[c] = asked[c]
      BY <2>2, <2>4
    <3> DEFINE all == asked[c] * Request
               new == Way(c)'
               old == Way(c)
    <3>3. /\ all \in Nat /\ new \in Nat /\ old \in Nat /\ b + new <= old /\ f[n + 1] + old <= all
          /\ f[n + 1] \in Nat
      BY <3>1, <3>2
    <3> HIDE DEF all, new, old
    <3>4. f[n + 1] + b + new <= all
      BY <2>2, <3>3
    <3> QED BY <2>3, <3>2, <3>4 DEF all, new
  <2>9. Tally(g, c)'
    <3>1. /\ handled'[c] <= g[1]
          /\ \A i \in 1 .. Len(m_CommandList') : g[i] + Bytes(m_CommandList'[i], c) <= g[i + 1]
          /\ \A i, j \in 1 .. Len(m_CommandList') + 1 : i <= j => g[i] <= g[j]
          /\ g[Len(m_CommandList') + 1] + Way(c)' <= asked'[c] * Request
      <4>1. Len(m_CommandList') = n + 1 /\ Len(m_CommandList') + 1 = n + 2
        BY <1>0
      <4> HIDE DEF n
      <4> QED BY <4>1, <2>5, <2>6, <2>7, <2>8
    <3> QED BY <3>1 DEF Tally, Bytes
  <2>10. g \in [1 .. Len(m_CommandList') + 1 -> Nat]
    BY <1>0, <2>3
  <2> QED BY <2>9, <2>10
<1> QED BY <1>1 DEF FlowOK

\* A session is given what the first command brings, or nothing.
LEMMA FlowPop ==
  ASSUME Types, Types', FlowOK, m_CommandList # <<>>, m_CommandList' = Tail(m_CommandList),
         asked' = asked, \A c \in Conns : Way(c)' = Way(c),
         \A c \in Conns : handled'[c] <= handled[c] + Bytes(Current, c)
  PROVE  FlowOK'
<1> DEFINE n == Len(m_CommandList)
<1>0. /\ n \in Nat \ {0} /\ Len(m_CommandList') = n - 1
      /\ \A i \in 1 .. n - 1 : m_CommandList'[i] = m_CommandList[i + 1]
      /\ Current = m_CommandList[1] /\ Current \in Commands
  BY CurrentCommand DEF Types
<1>1. ASSUME NEW c \in Conns PROVE (\E f \in [1 .. Len(m_CommandList) + 1 -> Nat] : Tally(f, c))'
  <2>1. PICK f \in [1 .. n + 1 -> Nat] : Tally(f, c)
    BY <1>1 DEF FlowOK
  <2>2. PICK b \in Nat : b = Bytes(Current, c)
    BY <1>0 DEF Bytes, Commands
  <2>3. PICK g \in [1 .. n -> Nat] : \A i \in 1 .. n : g[i] = f[i + 1]
    <3> DEFINE h == [i \in 1 .. n |-> f[i + 1]]
    <3>1. h \in [1 .. n -> Nat] /\ \A i \in 1 .. n : h[i] = f[i + 1]
      BY <1>0, <2>1
    <3> QED BY <3>1
  <2>4. /\ handled[c] <= f[1]
        /\ \A i \in 1 .. n : f[i] + Bytes(m_CommandList[i], c) <= f[i + 1]
        /\ \A i, j \in 1 .. n + 1 : i <= j => f[i] <= f[j]
        /\ f[n + 1] + Way(c) <= asked[c] * Request
    BY <2>1 DEF Tally
  <2>5. handled'[c] <= g[1]
    <3>1. f[1] + b <= f[2] /\ g[1] = f[2] /\ f[1] \in Nat /\ f[2] \in Nat
      BY <1>0, <2>1, <2>2, <2>3, <2>4
    <3>2. handled'[c] <= handled[c] + b /\ handled'[c] \in Nat /\ handled[c] \in Nat
      BY <2>2 DEF Types, CommandTypes
    <3> QED BY <2>2, <2>4, <3>1, <3>2
  <2>6. ASSUME NEW i \in 1 .. n - 1 PROVE g[i] + Bytes(m_CommandList'[i], c) <= g[i + 1]
    <3>1. i \in 1 .. n /\ i + 1 \in 1 .. n
      BY <1>0, <2>6
    <3>2. f[i + 1] + Bytes(m_CommandList[i + 1], c) <= f[(i + 1) + 1]
      BY <2>4, <3>1
    <3>3. g[i] = f[i + 1] /\ g[i + 1] = f[(i + 1) + 1]
      BY <2>3, <3>1
    <3>4. m_CommandList'[i] = m_CommandList[i + 1]
      BY <1>0, <2>6
    <3> QED BY <3>2, <3>3, <3>4
  <2>7. ASSUME NEW i \in 1 .. n, NEW j \in 1 .. n, i <= j PROVE g[i] <= g[j]
    <3>1. i + 1 \in 1 .. n + 1 /\ j + 1 \in 1 .. n + 1 /\ i + 1 <= j + 1
      BY <1>0, <2>7
    <3> QED BY <2>3, <2>4, <3>1
  <2>8. g[n] + Way(c)' <= asked'[c] * Request
    BY <1>0, <2>3, <2>4
  <2>9. Tally(g, c)'
    <3>1. /\ handled'[c] <= g[1]
          /\ \A i \in 1 .. Len(m_CommandList') : g[i] + Bytes(m_CommandList'[i], c) <= g[i + 1]
          /\ \A i, j \in 1 .. Len(m_CommandList') + 1 : i <= j => g[i] <= g[j]
          /\ g[Len(m_CommandList') + 1] + Way(c)' <= asked'[c] * Request
      <4>1. Len(m_CommandList') = n - 1 /\ Len(m_CommandList') + 1 = n
        BY <1>0
      <4> HIDE DEF n
      <4> QED BY <4>1, <2>5, <2>6, <2>7, <2>8
    <3> QED BY <3>1 DEF Tally, Bytes
  <2>10. g \in [1 .. Len(m_CommandList') + 1 -> Nat]
    BY <1>0, <2>3
  <2> QED BY <2>9, <2>10
<1> QED BY <1>1 DEF FlowOK

LEMMA FlowStep == Waiting /\ Basics /\ [Next]_vars => FlowOK'
<1> SUFFICES ASSUME Waiting, Basics, [Next]_vars PROVE FlowOK'
  OBVIOUS
<1>0. /\ Types /\ HandsOK /\ EventsOK /\ NewOK /\ SendersOK /\ AnswersOK /\ FlowOK /\ AsksOK /\ EndsOK
      /\ NoConn \notin Conns /\ Listener \notin Conns /\ Answer \in Nat \ {0}
      /\ w.at \in {"OnConnection", "recv", "OnData", "OnDisconnect", "SendMessage"} => w.c \in Conns
      /\ cmd.at \in {"SendData", "sem_wait", "send"} => cmd.c \in Conns /\ cmd.due >= 1
  BY HandsConns, Names, Numbers DEF Basics, Waiting
<1>00. Types'
  BY TypesStep
<1>1. ASSUME NEW c \in Conns, Ask(c) PROVE FlowOK'
  <2>1. /\ UNCHANGED <<m_CommandList, handled, rx, w>> /\ asked[c] \in Nat /\ flying[c] \in Nat
        /\ asked' = [asked EXCEPT ![c] = asked[c] + 1] /\ flying' = [flying EXCEPT ![c] = flying[c] + Request]
    BY <1>0, <1>1 DEF Ask, socketVars, workerVars, commandVars, Types, ClientTypes
  <2>2. ASSUME NEW d \in Conns, NEW x \in Nat, x + Way(d) <= asked[d] * Request PROVE x + Way(d)' <= asked'[d] * Request
    <3>1. CASE d # c
      <4>1. asked'[d] = asked[d] /\ flying'[d] = flying[d]
        BY <1>0, <2>1, <3>1 DEF Types, ClientTypes
      <4> QED BY <2>1, <2>2, <4>1 DEF Way, Hand
    <3>2. CASE d = c
      <4>1. asked'[d] = asked[d] + 1 /\ flying'[d] = flying[d] + Request
        BY <1>0, <2>1, <3>2 DEF Types, ClientTypes
      <4>2. (asked[d] + 1) * Request = asked[d] * Request + Request /\ asked[d] * Request \in Nat
        BY <2>1, <3>2, Numbers, TimesNext
      <4>3. Hand(d) \in Nat /\ rx[d] \in Nat /\ flying[d] \in Nat /\ Request \in Nat /\ Hand(d)' = Hand(d) /\ rx'[d] = rx[d]
        BY <1>0, <2>1, Given, Numbers DEF Types, ClientTypes, SocketTypes, Hand
      <4> DEFINE all == asked[d] * Request
      <4>4. x + (Hand(d) + rx[d] + flying[d]) <= all /\ all \in Nat /\ asked'[d] * Request = all + Request
        BY <2>2, <4>1, <4>2 DEF Way
      <4> HIDE DEF all
      <4>5. x + (Hand(d) + rx[d] + (flying[d] + Request)) <= all + Request
        BY <4>3, <4>4
      <4> QED BY <4>1, <4>3, <4>4, <4>5 DEF Way
    <3> QED BY <3>1, <3>2
  <2> QED BY <1>0, <2>1, <2>2, FlowSame
<1>2. ASSUME NEW c \in Conns, NEW n \in 1 .. (Requests * Request), Arrive(c, n) PROVE FlowOK'
  <2>1. /\ UNCHANGED <<m_CommandList, handled, asked, w>> /\ n \in Nat /\ n <= flying[c]
        /\ rx' = [rx EXCEPT ![c] = rx[c] + n] /\ flying' = [flying EXCEPT ![c] = flying[c] - n]
    BY <1>0, <1>2, Numbers DEF Arrive, workerVars, commandVars
  <2>2. ASSUME NEW d \in Conns PROVE Way(d)' = Way(d)
    <3>1. Hand(d) \in Nat /\ rx[d] \in Nat /\ flying[d] \in Nat /\ Hand(d)' = Hand(d)
      BY <1>0, <2>1, Given DEF Types, ClientTypes, SocketTypes, Hand
    <3>2. rx'[d] + flying'[d] = rx[d] + flying[d] /\ rx'[d] \in Nat /\ flying'[d] \in Int
      BY <1>0, <2>1, <3>1 DEF Types, ClientTypes, SocketTypes
    <3> QED BY <3>1, <3>2 DEF Way
  <2> QED BY <1>0, <2>1, <2>2, FlowSame
<1>3. CASE EpollWait
  <2>1. UNCHANGED <<m_CommandList, handled, rx, flying, asked>> /\ \A d \in Conns : Hand(d)' = Hand(d)
    BY <1>0, <1>3 DEF EpollWait, Return, Hand, clientVars, socketVars, sendVars, commandVars,
                      workerVars, HandsOK
  <2>2. \A d \in Conns : Way(d)' = Way(d)
    BY <2>1 DEF Way
  <2> QED BY <1>0, <2>1, <2>2, FlowSame
<1>4. CASE NextRound
  <2>1. UNCHANGED <<m_CommandList, handled, rx, flying, asked>> /\ \A d \in Conns : Hand(d)' = Hand(d)
    BY <1>0, <1>4 DEF NextRound, Types, WorkerTypes, Hand, clientVars, socketVars, sendVars,
                      commandVars, workerVars, HandsOK
  <2>2. \A d \in Conns : Way(d)' = Way(d)
    BY <2>1 DEF Way
  <2> QED BY <1>0, <2>1, <2>2, FlowSame
<1>5. CASE AcceptConnection
  <2>1. UNCHANGED <<m_CommandList, handled, rx, flying, asked>> /\ \A d \in Conns : Hand(d)' = Hand(d)
    BY <1>0, <1>5, Accepted DEF AcceptConnection, Hand, clientVars, socketVars, sendVars,
                                commandVars, workerVars, HandsOK
  <2>2. \A d \in Conns : Way(d)' = Way(d)
    BY <2>1 DEF Way
  <2> QED BY <1>0, <2>1, <2>2, FlowSame
<1>6. CASE OnConnection
  <2> DEFINE m == [kind |-> "ONCONNECT", c |-> w.c, len |-> 0]
  <2>1. w.c \in Conns /\ 0 \in Nat /\ Push("ONCONNECT", w.c, 0) /\ w.at = "OnConnection"
    BY <1>0, <1>6 DEF OnConnection, Types, WorkerTypes
  <2>2. m \in Commands /\ m_CommandList' = Append(m_CommandList, m) /\ w'.at = "events" /\ m.c = w.c /\ m.len = 0
    BY <1>0, <2>1, Pushed
  <2>3. UNCHANGED <<handled, asked, rx, flying>>
    BY <2>1 DEF Push, clientVars, socketVars
  <2> HIDE DEF m
  <2>4. ASSUME NEW d \in Conns PROVE Bytes(m, d) + Way(d)' <= Way(d)
    <3>1. Hand(d)' = 0 /\ Bytes(m, d) \in Nat /\ Bytes(m, d) <= Hand(d) /\ Hand(d) \in Nat
      BY <1>0, <2>1, <2>2, Given DEF Hand, Bytes
    <3>2. rx[d] \in Nat /\ flying[d] \in Nat
      BY <1>0 DEF Types, SocketTypes, ClientTypes
    <3> QED BY <2>3, <3>1, <3>2 DEF Way
  <2> QED BY <1>0, <2>2, <2>3, <2>4, <1>00, FlowPush
<1>7. CASE OnData
  <2> DEFINE m == [kind |-> "ONDATA", c |-> w.c, len |-> w.len]
  <2>1. w.c \in Conns /\ w.len \in Nat /\ Push("ONDATA", w.c, w.len) /\ w.at = "OnData"
    BY <1>0, <1>7 DEF OnData, Types, WorkerTypes
  <2>2. m \in Commands /\ m_CommandList' = Append(m_CommandList, m) /\ w'.at = "events" /\ m.c = w.c /\ m.len = w.len
    BY <1>0, <2>1, Pushed
  <2>3. UNCHANGED <<handled, asked, rx, flying>>
    BY <2>1 DEF Push, clientVars, socketVars
  <2> HIDE DEF m
  <2>4. ASSUME NEW d \in Conns PROVE Bytes(m, d) + Way(d)' <= Way(d)
    <3>1. Hand(d)' = 0 /\ Bytes(m, d) \in Nat /\ Bytes(m, d) <= Hand(d) /\ Hand(d) \in Nat
      BY <1>0, <2>1, <2>2, Given DEF Hand, Bytes
    <3>2. rx[d] \in Nat /\ flying[d] \in Nat
      BY <1>0 DEF Types, SocketTypes, ClientTypes
    <3> QED BY <2>3, <3>1, <3>2 DEF Way
  <2> QED BY <1>0, <2>2, <2>3, <2>4, <1>00, FlowPush
<1>8. CASE OnDisconnect
  <2> DEFINE m == [kind |-> "ONDISCONNECT", c |-> w.c, len |-> 0]
  <2>1. w.c \in Conns /\ 0 \in Nat /\ Push("ONDISCONNECT", w.c, 0) /\ w.at = "OnDisconnect"
    BY <1>0, <1>8 DEF OnDisconnect, Types, WorkerTypes
  <2>2. m \in Commands /\ m_CommandList' = Append(m_CommandList, m) /\ w'.at = "events" /\ m.c = w.c /\ m.len = 0
    BY <1>0, <2>1, Pushed
  <2>3. UNCHANGED <<handled, asked, rx, flying>>
    BY <2>1 DEF Push, clientVars, socketVars
  <2> HIDE DEF m
  <2>4. ASSUME NEW d \in Conns PROVE Bytes(m, d) + Way(d)' <= Way(d)
    <3>1. Hand(d)' = 0 /\ Bytes(m, d) \in Nat /\ Bytes(m, d) <= Hand(d) /\ Hand(d) \in Nat
      BY <1>0, <2>1, <2>2, Given DEF Hand, Bytes
    <3>2. rx[d] \in Nat /\ flying[d] \in Nat
      BY <1>0 DEF Types, SocketTypes, ClientTypes
    <3> QED BY <2>3, <3>1, <3>2 DEF Way
  <2> QED BY <1>0, <2>2, <2>3, <2>4, <1>00, FlowPush
<1>9. ASSUME NEW c \in Conns, BeginRecv(c) PROVE FlowOK'
  <2>1. UNCHANGED <<m_CommandList, handled, rx, flying, asked>> /\ \A d \in Conns : Hand(d)' = Hand(d)
    BY <1>0, <1>9 DEF BeginRecv, Hand, clientVars, socketVars, sendVars, commandVars, workerVars,
                      HandsOK
  <2>2. \A d \in Conns : Way(d)' = Way(d)
    BY <2>1 DEF Way
  <2> QED BY <1>0, <2>1, <2>2, FlowSame
<1>10. ASSUME NEW c \in Conns, BeginSendLeft(c) PROVE FlowOK'
  <2>1. UNCHANGED <<m_CommandList, handled, rx, flying, asked>> /\ \A d \in Conns : Hand(d)' = Hand(d)
    BY <1>0, <1>10, LeftTaken DEF BeginSendLeft, Hand, clientVars, socketVars, sendVars,
                                  commandVars, workerVars, HandsOK
  <2>2. \A d \in Conns : Way(d)' = Way(d)
    BY <2>1 DEF Way
  <2> QED BY <1>0, <2>1, <2>2, FlowSame
<1>11. CASE Recv
  <2>0. PICK e \in Conns : e = w.c
    BY <1>0, <1>11 DEF Recv
  <2>1. PICK n \in Nat : n <= rx[e] /\ n = Min({MAXLINE, rx[e]})
    <3>1. MAXLINE \in Int /\ rx[e] \in Nat /\ MAXLINE \in Nat
      BY <1>0, Numbers DEF Types, SocketTypes
    <3> QED BY <3>1, MinOfTwo
  <2>2. /\ UNCHANGED <<m_CommandList, handled, asked, flying>>
        /\ rx' = [rx EXCEPT ![e] = rx[e] - n] /\ w.at = "recv" /\ w'.c = e /\ w'.len = w.len + n
        /\ w'.at \in {"recv", "OnData"}
    BY <1>0, <1>11, <2>0, <2>1 DEF Recv, clientVars, commandVars, Types, WorkerTypes
  <2>3. ASSUME NEW d \in Conns PROVE Way(d)' = Way(d)
    <3>1. Hand(d) \in Nat /\ rx[d] \in Nat /\ flying[d] \in Nat /\ w.len \in Nat
      BY <1>0, Given DEF Types, ClientTypes, SocketTypes, WorkerTypes
    <3>2. CASE d = e
      <4>1. Hand(d) = w.len /\ Hand(d)' = w.len + n /\ rx'[d] = rx[d] - n
        BY <1>0, <2>0, <2>2, <3>2 DEF Hand, Types, SocketTypes
      <4> QED BY <2>1, <2>2, <3>1, <3>2, <4>1 DEF Way
    <3>3. CASE d # e
      <4>1. Hand(d) = 0 /\ Hand(d)' = 0 /\ rx'[d] = rx[d]
        BY <1>0, <2>0, <2>2, <3>3 DEF Hand, Types, SocketTypes
      <4> QED BY <2>2, <4>1 DEF Way
    <3> QED BY <3>2, <3>3
  <2> QED BY <1>0, <2>2, <2>3, FlowSame
<1>12. CASE RecvNothing
  <2>1. UNCHANGED <<m_CommandList, handled, rx, flying, asked>> /\ w'.c = w.c /\ w'.len = w.len /\ w.at = "recv"
    BY <1>0, <1>12 DEF RecvNothing, clientVars, socketVars, commandVars, Types, WorkerTypes
  <2>2. ASSUME NEW d \in Conns PROVE Way(d)' <= Way(d)
    <3>1. Hand(d) \in Nat /\ rx[d] \in Nat /\ flying[d] \in Nat /\ (Hand(d)' = Hand(d) \/ Hand(d)' = 0)
      BY <1>0, <2>1, Given DEF Types, ClientTypes, SocketTypes, Hand
    <3> QED BY <2>1, <3>1 DEF Way
  <2>3. ASSUME NEW d \in Conns, NEW x \in Nat, x + Way(d) <= asked[d] * Request PROVE x + Way(d)' <= asked'[d] * Request
    <3>1. Way(d) \in Nat /\ Way(d)' \in Nat /\ asked[d] * Request \in Nat /\ Way(d)' <= Way(d)
      BY <1>0, <1>00, <2>2, WayIsNumber, NextWay
    <3> DEFINE all == asked[d] * Request
    <3> HIDE DEF all
    <3>2. x + Way(d) <= all /\ all \in Nat
      BY <2>3, <3>1 DEF all
    <3>3. x + Way(d)' <= all
      BY <3>1, <3>2
    <3> QED BY <2>1, <3>3 DEF all
  <2> QED BY <1>0, <2>1, <2>3, FlowSame
<1>13. CASE SendLeftEnd
  <2>1. UNCHANGED <<m_CommandList, handled, rx, flying, asked>> /\ \A d \in Conns : Hand(d)' = Hand(d)
    BY <1>0, <1>13 DEF SendLeftEnd, Return, Hand, clientVars, socketVars, sendVars, commandVars,
                       workerVars, HandsOK
  <2>2. \A d \in Conns : Way(d)' = Way(d)
    BY <2>1 DEF Way
  <2> QED BY <1>0, <2>1, <2>2, FlowSame
<1>14. CASE SendLeftFails
  <2>1. UNCHANGED <<m_CommandList, handled, rx, flying, asked>> /\ \A d \in Conns : Hand(d)' = Hand(d)
    BY <1>0, <1>14 DEF SendLeftFails, Return, Hand, clientVars, socketVars, sendVars,
                       commandVars, workerVars, HandsOK
  <2>2. \A d \in Conns : Way(d)' = Way(d)
    BY <2>1 DEF Way
  <2> QED BY <1>0, <2>1, <2>2, FlowSame
<1>15. CASE HandleOnConnect
  <2>1. m_CommandList # <<>> /\ m_CommandList' = Tail(m_CommandList) /\ Current \in Commands
    BY <1>0, <1>15, Handled DEF HandleOnConnect
  <2>2. UNCHANGED <<asked, rx, flying, w>>
    BY <1>15 DEF HandleOnConnect, clientVars, socketVars, workerVars
  <2>3. \A d \in Conns : Way(d)' = Way(d)
    BY <2>2 DEF Way, Hand
  <2>4. \A d \in Conns : handled'[d] <= handled[d] + Bytes(Current, d)
    <3>1. ASSUME NEW d \in Conns PROVE handled[d] \in Nat /\ Bytes(Current, d) \in Nat
      BY <1>0, <2>1 DEF Bytes, Commands, Types, CommandTypes
    <3> QED BY <1>15, <3>1 DEF HandleOnConnect
  <2> QED BY <1>0, <2>1, <2>2, <2>3, <2>4, <1>00, FlowPop
<1>16. CASE HandleOnData
  <2>1. m_CommandList # <<>> /\ m_CommandList' = Tail(m_CommandList) /\ Current \in Commands
    BY <1>0, <1>16, Handled DEF HandleOnData
  <2>2. UNCHANGED <<asked, rx, flying, w>>
    BY <1>16 DEF HandleOnData, clientVars, socketVars, workerVars
  <2>3. \A d \in Conns : Way(d)' = Way(d)
    BY <2>2 DEF Way, Hand
  <2>4. \A d \in Conns : handled'[d] <= handled[d] + Bytes(Current, d)
    <3>1. ASSUME NEW d \in Conns PROVE handled[d] \in Nat /\ Bytes(Current, d) \in Nat
      BY <1>0, <2>1 DEF Bytes, Commands, Types, CommandTypes
    <3>2. handled' = [handled EXCEPT ![Current.c] = handled[Current.c] + Current.len]
      BY <1>16 DEF HandleOnData
    <3>3. ASSUME NEW d \in Conns PROVE handled'[d] <= handled[d] + Bytes(Current, d)
      <4>1. CASE d = Current.c
        BY <1>0, <3>1, <3>2, <4>1 DEF Bytes, Types, CommandTypes
      <4>2. CASE d # Current.c
        BY <1>0, <3>1, <3>2, <4>2 DEF Types, CommandTypes
      <4> QED BY <4>1, <4>2
    <3> QED BY <3>3
  <2> QED BY <1>0, <2>1, <2>2, <2>3, <2>4, <1>00, FlowPop
<1>17. CASE HandleOnDisconnect
  <2>1. m_CommandList # <<>> /\ m_CommandList' = Tail(m_CommandList) /\ Current \in Commands
    BY <1>0, <1>17, Handled DEF HandleOnDisconnect
  <2>2. UNCHANGED <<asked, rx, flying, w>>
    BY <1>17 DEF HandleOnDisconnect, clientVars, socketVars, workerVars
  <2>3. \A d \in Conns : Way(d)' = Way(d)
    BY <2>2 DEF Way, Hand
  <2>4. \A d \in Conns : handled'[d] <= handled[d] + Bytes(Current, d)
    <3>1. ASSUME NEW d \in Conns PROVE handled[d] \in Nat /\ Bytes(Current, d) \in Nat
      BY <1>0, <2>1 DEF Bytes, Commands, Types, CommandTypes
    <3> QED BY <1>17, <3>1 DEF HandleOnDisconnect
  <2> QED BY <1>0, <2>1, <2>2, <2>3, <2>4, <1>00, FlowPop
<1>18. CASE UNCHANGED <<m_CommandList, handled, w, rx, flying, asked>>
  <2>1. \A c \in Conns : Way(c)' = Way(c)
    BY <1>18 DEF Way, Hand
  <2> QED BY <1>0, <1>18, <2>1, FlowSame
<1> QED BY <1>1, <1>2, <1>3, <1>4, <1>5, <1>6, <1>7, <1>8, <1>9, <1>10, <1>11, <1>12, <1>13,
           <1>14, <1>15, <1>16, <1>17, <1>18
           DEF Next, Worker, CommandHandler, Arrivals, vars, Connect, Read, Edge, ClientClose,
               EndArrives, ResetArrives, SendLeftPart, BeginBatch, EndBatch, SendData, SemWait,
               SendPart, SendAll, NextAnswer, SendAgain, Ctl, SendReset, clientVars, socketVars,
               workerVars, sendVars, commandVars

-----------------------------------------------------------------------------
(* The inductive invariant                                                 *)

LEMMA InitBasics == Waiting /\ Init => Basics
<1> SUFFICES ASSUME Waiting, Init PROVE Basics
  OBVIOUS
<1>1. /\ client = [c \in Conns |-> "away"]
      /\ asked = [c \in Conns |-> 0] /\ flying = [c \in Conns |-> 0]
      /\ readN = [c \in Conns |-> 0] /\ rx = [c \in Conns |-> 0]
      /\ backlog = <<>> /\ fin = {} /\ rst = {} /\ out = [c \in Conns |-> <<>>]
      /\ reg = [c \in Conns |-> "none"] /\ ready = {} /\ events = {}
      /\ w.at = "epoll_wait" /\ w.c = NoConn /\ w.len = 0 /\ w.recvNum = 0
      /\ w = [at |-> "epoll_wait", c |-> NoConn, len |-> 0, recvNum |-> 0]
      /\ object = [c \in Conns |-> "none"] /\ told = [c \in Conns |-> "idle"]
      /\ sem = [c \in Conns |-> 1] /\ left = [c \in Conns |-> 0]
      /\ m_SendBuf = [c \in Conns |-> 0] /\ handled = [c \in Conns |-> 0]
      /\ m_CommandList = <<>> /\ cmd.at = "idle" /\ cmd.c = NoConn /\ cmd.due = 0
      /\ cmd = [at |-> "idle", c |-> NoConn, due |-> 0] /\ killed = FALSE
  BY DEF Init
<1>2. NoConn \notin Conns /\ Listener \notin Conns /\ Answer \in Nat \ {0}
  BY Names, Numbers DEF Waiting
<1>3. Len(backlog) = 0 /\ Len(m_CommandList) = 0 /\ \A c \in Conns : Len(out[c]) = 0
  BY <1>1
<1>4. Types
  <2>1. ClientTypes /\ SocketTypes /\ EpollTypes
    BY <1>1, Numbers DEF ClientTypes, SocketTypes, EpollTypes
  <2>2. WorkerTypes /\ ConnTypes
    BY <1>1, Numbers DEF WorkerTypes, ConnTypes, MaybeConn
  <2>3. CommandTypes
    <3>1. handled \in [Conns -> Nat] /\ killed \in BOOLEAN
      BY <1>1
    <3>4. notified \in BOOLEAN
      BY Zenon DEF Init
    <3>3. m_CommandList \in Seq(Commands)
      <4>1. <<>> \in Seq(Commands)
        BY EmptySeq
      <4> QED BY <1>1, <4>1
    <3>2. cmd \in [at : {"idle", "batch", "SendData", "sem_wait", "send"}, c : MaybeConn, due : Nat]
      BY <1>1 DEF MaybeConn
    <3> QED BY <3>1, <3>2, <3>3, <3>4 DEF CommandTypes
  <2> QED BY <2>1, <2>2, <2>3 DEF Types
<1>5. HandsOK /\ EventsOK
  BY <1>1 DEF HandsOK, EventsOK, Sending
<1>6. NewOK
  BY <1>1, <1>2, <1>3 DEF NewOK, Fresh, Listed, Noticed
<1>7. SendersOK
  BY <1>1, <1>2 DEF SendersOK, SenderOK, Writing
<1>8. AnswersOK
  <2>1. 0 * Answer = 0 /\ 0 \div Request = 0
    <3>1. (0 * Request + 0) \div Request = 0
      BY Numbers, Quotient
    <3> QED BY <1>2, <3>1, Numbers
  <2>2. \A c \in Conns : Put(c) = 0 /\ Begun(c) = 0 /\ Due(c) = 0 /\ cmd.c # c
    BY <1>1, <1>2 DEF Put, Begun, Due
  <2>3. \A c \in Conns : OutOK(c)
    BY <1>1, <1>3, <2>1, <2>2, Numbers DEF OutOK
  <2>4. \A c \in Conns : BegunOK(c)
    BY <1>1, <2>1, <2>2 DEF BegunOK
  <2> QED BY <2>3, <2>4 DEF AnswersOK
<1>9. FlowOK
  <2>1. ASSUME NEW c \in Conns
        PROVE  \E f \in [1 .. Len(m_CommandList) + 1 -> Nat] : Tally(f, c)
    <3>1. PICK f \in [1 .. 1 -> Nat] : f[1] = 0
      <4>1. [i \in 1 .. 1 |-> 0] \in [1 .. 1 -> Nat] /\ [i \in 1 .. 1 |-> 0][1] = 0
        OBVIOUS
      <4> QED BY <4>1
    <3>2. Way(c) = 0 /\ asked[c] * Request = 0
      BY <1>1, <1>2, Numbers DEF Way, Hand
    <3>3. Tally(f, c)
      BY <1>1, <1>3, <3>1, <3>2 DEF Tally
    <3> QED BY <1>3, <3>1, <3>3
  <2> QED BY <2>1 DEF FlowOK
<1>10. AsksOK /\ EndsOK
  BY <1>1, <1>2 DEF AsksOK, EndsOK
<1> QED BY <1>4, <1>5, <1>6, <1>7, <1>8, <1>9, <1>10 DEF Basics

LEMMA BasicsStep == Waiting /\ Basics /\ [Next]_vars => Basics'
  BY TypesStep, HandsStep, EventsStep, NewStep, SendersStep, AnswersStep, FlowStep, AsksStep,
     EndsStep DEF Basics

LEMMA BasicsAlways == ASSUME Waiting PROVE Spec => []Basics
<1>1. Init => Basics
  BY InitBasics
<1>2. Basics /\ [Next]_vars => Basics'
  BY BasicsStep
<1> QED BY <1>1, <1>2, PTL DEF Spec

-----------------------------------------------------------------------------
(* The threads do not wait for each other                                  *)

LEMMA TypeHolds == Basics => TypeOK
<1> SUFFICES ASSUME Basics PROVE TypeOK
  OBVIOUS
<1>1. ClientTypes /\ SocketTypes /\ EpollTypes /\ WorkerTypes /\ ConnTypes /\ CommandTypes
  BY DEF Basics, Types
<1>2. ASSUME NEW c \in Conns
      PROVE  /\ m_SendBuf[c] \in 0 .. Requests
             /\ cmd.c = c => cmd.due \in 0 .. Requests
             /\ readN[c] \in 0 .. Len(out[c]) /\ Len(out[c]) - readN[c] <= Room
  <2>1. /\ Begun(c) + Due(c) <= asked[c] /\ Begun(c) \in Nat /\ Due(c) \in Nat /\ asked[c] <= Requests
        /\ asked[c] \in Nat /\ Requests \in Nat
        /\ cmd.c = c => Due(c) >= 1
    BY <1>1, BegunFits, Numbers DEF Basics, ClientTypes
  <2>2. m_SendBuf[c] \in Nat /\ cmd.due \in Nat
    BY <1>1 DEF ConnTypes, CommandTypes
  <2>3. m_SendBuf[c] \in 0 .. Requests
    <3>1. m_SendBuf[c] <= Begun(c) + Due(c)
      BY <2>1, <2>2 DEF Begun
    <3> QED BY <2>1, <2>2, <3>1
  <2>4. cmd.c = c => cmd.due \in 0 .. Requests
    BY <2>1, <2>2 DEF Due
  <2>5. readN[c] \in 0 .. Len(out[c]) /\ Len(out[c]) - readN[c] <= Room
    <3>1. readN[c] \in Nat /\ Len(out[c]) \in Nat
      BY <1>1 DEF ClientTypes, SocketTypes
    <3> QED BY <3>1 DEF Basics, AnswersOK, OutOK
  <2> QED BY <2>3, <2>4, <2>5
<1>3. cmd.due \in 0 .. Requests
  <2>1. CASE cmd.c \in Conns
    BY <1>2, <2>1
  <2>2. CASE cmd.c \notin Conns
    <3>1. cmd.c = NoConn
      BY <1>1, <2>2 DEF CommandTypes, MaybeConn
    <3> QED BY <3>1, Numbers DEF Basics, HandsOK
  <2> QED BY <2>1, <2>2
<1> QED BY <1>1, <1>2, <1>3 DEF TypeOK, ClientTypes, SocketTypes, EpollTypes, WorkerTypes,
    ConnTypes, CommandTypes

LEMMA NobodyStuck == Basics => NotStuck /\ OneSender
<1> SUFFICES ASSUME Basics PROVE NotStuck /\ OneSender
  OBVIOUS
<1>1. \A c \in Conns : SenderOK(c) /\ left[c] \in Nat /\ sem[c] \in Nat
  BY Numbers DEF Basics, SendersOK, Types, ConnTypes
<1>2. OneSender
  BY <1>1 DEF OneSender, SenderOK
<1>3. ASSUME cmd.at = "sem_wait" PROVE sem[cmd.c] = 1
  <2>1. PICK c \in Conns : c = cmd.c
    BY <1>3, HandsConns DEF Basics
  <2>2. Put(c) \in Nat /\ Put(c) < asked[c]
    BY <1>3, <2>1, BegunFits DEF Basics
  <2>3. left[c] = 0 /\ c \notin rst
    BY <2>2, Behind DEF Basics
  <2> QED BY <1>1, <2>1, <2>3 DEF SenderOK
<1> QED BY <1>2, <1>3 DEF NotStuck

-----------------------------------------------------------------------------
(* The answers of a connection are whole                                   *)

\* The bytes that send takes are the next ones of the answer in m_SendBuf.
LEMMA WholeSend ==
  ASSUME Waiting, Basics, AnswersWhole, NEW c \in Conns, NEW k \in 0 .. left[c], Send(c, k)
  PROVE  AnswersWhole'
<1>1. /\ Types /\ Answer \in Nat \ {0} /\ left[c] \in 0 .. Answer /\ left[c] \in Nat
      /\ Len(out[c]) \in Nat /\ m_SendBuf[c] \in Nat
  BY Numbers DEF Basics, Types, ConnTypes, SocketTypes, Waiting
<1>2. ASSUME NEW i \in 1 .. k
      PROVE  out'[c][Len(out[c]) + i] = <<((Len(out[c]) + i - 1) \div Answer) + 1,
                                          ((Len(out[c]) + i - 1) % Answer) + 1>>
  <2>1. i \in Nat /\ i >= 1 /\ i <= left[c] /\ left[c] > 0
    BY <1>1
  <2>2. Put(c) = m_SendBuf[c]
    <3>1. Put(c) \in Nat /\ (cmd.c = c /\ cmd.at # "send" => Put(c) < asked[c])
      BY BegunFits DEF Basics
    <3>2. Put(c) < asked[c] => left[c] = 0
      BY <3>1, Behind DEF Basics
    <3> QED BY <2>1, <3>1, <3>2 DEF Put
  <2>3. Len(out[c]) + left[c] = m_SendBuf[c] * Answer
    BY <2>1, <2>2 DEF Basics, AnswersOK, OutOK
  <2>4. m_SendBuf[c] # 0
    <3>1. m_SendBuf[c] = 0 => m_SendBuf[c] * Answer = 0
      BY <1>1
    <3> QED BY <1>1, <2>1, <2>3, <3>1
  <2>5. PICK m \in Nat : m_SendBuf[c] = m + 1
    <3>1. m_SendBuf[c] - 1 \in Nat /\ m_SendBuf[c] = (m_SendBuf[c] - 1) + 1
      BY <1>1, <2>4
    <3> QED BY <3>1
  <2>6. m_SendBuf[c] * Answer = m * Answer + Answer /\ m * Answer \in Nat
    BY <1>1, <2>5, TimesNext
  <2> DEFINE r == Answer - left[c] + i - 1
  <2>7. r \in Nat /\ r < Answer /\ r + 1 = Answer - left[c] + i
    BY <1>1, <2>1
  <2>8. Len(out[c]) + i - 1 = m * Answer + r
    <3> DEFINE p == m * Answer
               x == Len(out[c])
               l == left[c]
    <3>1. /\ p \in Nat /\ x \in Nat /\ l \in Nat /\ i \in Nat /\ Answer \in Nat
          /\ x + l = p + Answer
      BY <1>1, <2>1, <2>3, <2>6
    <3> HIDE DEF p, x, l
    <3>2. x + i - 1 = p + (Answer - l + i - 1)
      BY <3>1
    <3> QED BY <3>2 DEF p, x, l
  <2>9. (m * Answer + r) \div Answer = m /\ (m * Answer + r) % Answer = r
    BY <1>1, <2>7, Quotient
  <2>10. out'[c][Len(out[c]) + i] = <<m_SendBuf[c], Answer - left[c] + i>>
    BY <1>1, SendGrows
  <2> HIDE DEF r
  <2> QED BY <2>5, <2>7, <2>8, <2>9, <2>10
<1>3. ASSUME NEW d \in Conns, NEW j \in 1 .. Len(out'[d])
      PROVE  out'[d][j] = <<((j - 1) \div Answer) + 1, ((j - 1) % Answer) + 1>>
  <2>1. CASE d # c
    <3>1. out'[d] = out[d]
      BY <1>1, <2>1, SendGrows
    <3> QED BY <3>1 DEF AnswersWhole
  <2>2. CASE d = c /\ j <= Len(out[c])
    <3>1. j \in 1 .. Len(out[c])
      BY <1>1, <2>2
    <3>2. out'[c][j] = out[c][j]
      BY <1>1, <3>1, SendGrows
    <3> QED BY <2>2, <3>1, <3>2 DEF AnswersWhole
  <2>3. CASE d = c /\ j > Len(out[c])
    <3>1. Len(out'[c]) = Len(out[c]) + k /\ k \in Nat
      BY <1>1, SendGrows
    <3>2. j - Len(out[c]) \in 1 .. k /\ Len(out[c]) + (j - Len(out[c])) = j
      BY <1>1, <2>3, <3>1
    <3>3. PICK i \in 1 .. k : Len(out[c]) + i = j
      BY <3>2
    <3> QED BY <1>2, <2>3, <3>3
  <2> QED BY <1>1, <2>1, <2>2, <2>3
<1> QED BY <1>3 DEF AnswersWhole


LEMMA WholeStep == Waiting /\ Basics /\ AnswersWhole /\ [Next]_vars => AnswersWhole'
<1> SUFFICES ASSUME Waiting, Basics, AnswersWhole, [Next]_vars PROVE AnswersWhole'
  OBVIOUS
<1>0. /\ Types /\ HandsOK /\ EventsOK /\ NewOK /\ SendersOK /\ AnswersOK /\ FlowOK /\ AsksOK /\ EndsOK
      /\ NoConn \notin Conns /\ Listener \notin Conns /\ Answer \in Nat \ {0}
      /\ w.at \in {"OnConnection", "recv", "OnData", "OnDisconnect", "SendMessage"} => w.c \in Conns
      /\ cmd.at \in {"SendData", "sem_wait", "send"} => cmd.c \in Conns /\ cmd.due >= 1
  BY HandsConns, Names, Numbers DEF Basics, Waiting
<1>00. Waiting /\ Basics /\ AnswersWhole
  OBVIOUS
<1>1. CASE SendLeftPart
  <2>1. w.c \in Conns /\ Sendable(w.c) \in 0 .. left[w.c] /\ Send(w.c, Sendable(w.c))
    BY <1>0, <1>1, SendableFits DEF SendLeftPart
  <2> QED BY <1>00, <2>1, WholeSend
<1>2. CASE SendLeftEnd
  <2>1. w.c \in Conns /\ Sendable(w.c) \in 0 .. left[w.c] /\ Send(w.c, Sendable(w.c))
    BY <1>0, <1>2, SendableFits DEF SendLeftEnd
  <2> QED BY <1>00, <2>1, WholeSend
<1>3. CASE SendPart
  <2>1. cmd.c \in Conns /\ Sendable(cmd.c) \in 0 .. left[cmd.c] /\ Send(cmd.c, Sendable(cmd.c))
    BY <1>0, <1>3, SendableFits DEF SendPart
  <2> QED BY <1>00, <2>1, WholeSend
<1>4. CASE SendAll
  <2>1. cmd.c \in Conns /\ Sendable(cmd.c) \in 0 .. left[cmd.c] /\ Send(cmd.c, Sendable(cmd.c))
    BY <1>0, <1>4, SendableFits DEF SendAll
  <2> QED BY <1>00, <2>1, WholeSend
<1>5. CASE UNCHANGED <<out>>
  BY <1>00, <1>5 DEF AnswersWhole
<1> QED BY <1>1, <1>2, <1>3, <1>4, <1>5
           DEF Next, Worker, CommandHandler, Arrivals, vars, Connect, Ask, Read, Edge,
               ClientClose, Arrive, EndArrives, ResetArrives, EpollWait, Return, Reported,
               NextRound, AcceptConnection, Ctl, OnConnection, Push, OnData, OnDisconnect,
               BeginRecv, BeginSendLeft, Recv, RecvNothing, SendLeftFails, BeginBatch, EndBatch,
               HandleOnConnect, Handling, Done, Current, HandleOnData, HandleOnDisconnect,
               SendData, SemWait, SendAgain, NextAnswer, SendReset, clientVars, socketVars,
               workerVars, sendVars, commandVars

\* What goes into a socket are whole answers, one after the other, whatever the two threads
\* that send them leave to each other (easy_connection.cpp:355-473).
THEOREM WholeAnswers ==
  ASSUME Waiting
  PROVE  Spec => []AnswersWhole
<1>1. Init => AnswersWhole
  <2>1. Init => \A c \in Conns : Len(out[c]) = 0
    BY DEF Init
  <2> QED BY <2>1 DEF AnswersWhole
<1>2. Basics /\ AnswersWhole /\ [Next]_vars => AnswersWhole'
  BY WholeStep
<1> QED BY <1>1, <1>2, BasicsAlways, PTL DEF Spec

-----------------------------------------------------------------------------
(* Sessions are given the stream in order                                  *)

\* A client that waits has one request on its way at most.
LEMMA OneRequest == ASSUME Basics, NEW c \in Conns PROVE Way(c) <= Request /\ Way(c) \in Nat
<1>1. /\ handled[c] + Way(c) <= asked[c] * Request /\ Way(c) \in Nat
      /\ handled[c] \in Nat /\ asked[c] \in Nat /\ Request \in Nat
  BY Given, Numbers DEF Basics, Types, CommandTypes, ClientTypes
<1>2. CASE asked[c] = 0
  BY <1>1, <1>2
<1>3. CASE asked[c] > 0
  <2>1. PICK n \in Nat : asked[c] = n + 1
    <3>1. asked[c] - 1 \in Nat /\ asked[c] = (asked[c] - 1) + 1
      BY <1>1, <1>3
    <3> QED BY <3>1
  <2>2. handled[c] >= n * Request
    <3>1. asked[c] - 1 = n
      BY <2>1
    <3> QED BY <1>3, <3>1 DEF Basics, AsksOK
  <2>3. asked[c] * Request = n * Request + Request /\ n * Request \in Nat
    BY <1>1, <2>1, TimesNext
  <2> DEFINE p == n * Request
             v == Way(c)
  <2>4. p \in Nat /\ v \in Nat /\ handled[c] + v <= p + Request /\ handled[c] >= p
    BY <1>1, <2>2, <2>3
  <2> HIDE DEF p, v
  <2>5. v <= Request
    BY <1>1, <2>4
  <2> QED BY <1>1, <2>5 DEF v
<1> QED BY <1>1, <1>2, <1>3

\* The buffer keeps what it has while the stream goes on.
LEMMA RecvSame ==
  ASSUME RecvOK, UNCHANGED <<rbuf, w>>, w.at \in {"recv", "OnData"} => Start(w.c)' = Start(w.c)
  PROVE  RecvOK'
  BY DEF RecvOK


LEMMA RecvStep == Waiting /\ Request <= 2 * MAXLINE /\ Basics /\ RecvOK /\ [Next]_vars => RecvOK'
<1> SUFFICES ASSUME Waiting, Request <= 2 * MAXLINE, Basics, RecvOK, [Next]_vars PROVE RecvOK'
  OBVIOUS
<1>0. /\ Types /\ HandsOK /\ EventsOK /\ NewOK /\ SendersOK /\ AnswersOK /\ FlowOK /\ AsksOK /\ EndsOK
      /\ NoConn \notin Conns /\ Listener \notin Conns /\ Answer \in Nat \ {0}
      /\ w.at \in {"OnConnection", "recv", "OnData", "OnDisconnect", "SendMessage"} => w.c \in Conns
      /\ cmd.at \in {"SendData", "sem_wait", "send"} => cmd.c \in Conns /\ cmd.due >= 1
  BY HandsConns, Names, Numbers DEF Basics, Waiting
<1>00. Request <= 2 * MAXLINE /\ Basics /\ RecvOK
  OBVIOUS
<1>1. ASSUME NEW c \in Conns, Ask(c) PROVE RecvOK'
  <2>1. /\ UNCHANGED <<rx, w, rbuf>> /\ asked[c] \in Nat /\ flying[c] \in Nat
        /\ asked' = [asked EXCEPT ![c] = asked[c] + 1] /\ flying' = [flying EXCEPT ![c] = flying[c] + Request]
    BY <1>0, <1>1 DEF Ask, socketVars, workerVars, Types, ClientTypes
  <2>2. ASSUME NEW d \in Conns PROVE Start(d)' = Start(d)
    <3>1. CASE d # c
      <4>1. asked'[d] = asked[d] /\ flying'[d] = flying[d]
        BY <1>0, <2>1, <3>1 DEF Types, ClientTypes
      <4> QED BY <2>1, <4>1 DEF Start
    <3>2. CASE d = c
      <4>1. asked'[d] = asked[d] + 1 /\ flying'[d] = flying[d] + Request
        BY <1>0, <2>1, <3>2 DEF Types, ClientTypes
      <4>2. (asked[d] + 1) * Request = asked[d] * Request + Request /\ asked[d] * Request \in Nat
        BY <2>1, <3>2, Numbers, TimesNext
      <4>3. w.len \in Nat /\ rx[d] \in Nat /\ flying[d] \in Nat /\ Request \in Nat
        BY <1>0, Numbers DEF Types, ClientTypes, SocketTypes, WorkerTypes
      <4> DEFINE all == asked[d] * Request
      <4>4. all \in Nat /\ asked'[d] * Request = all + Request
        BY <4>1, <4>2
      <4> HIDE DEF all
      <4>5. all + Request - (flying[d] + Request) - rx[d] - w.len = all - flying[d] - rx[d] - w.len
        BY <4>3, <4>4
      <4>6. flying'[d] = flying[d] + Request /\ rx'[d] = rx[d] /\ w'.len = w.len
        BY <2>1, <4>1
      <4> DEFINE more == asked'[d] * Request
      <4>7. Start(d)' = more - flying'[d] - rx'[d] - w'.len
        BY DEF Start
      <4>8. more = all + Request /\ all \in Nat
        BY <4>4
      <4> HIDE DEF more
      <4>9. Start(d) = all - flying[d] - rx[d] - w.len
        BY DEF Start, all
      <4>10. Start(d)' = all + Request - (flying[d] + Request) - rx[d] - w.len
        BY <4>3, <4>6, <4>7, <4>8
      <4> QED BY <4>5, <4>9, <4>10
    <3> QED BY <3>1, <3>2
  <2> QED BY <1>0, <1>00, <2>1, <2>2, RecvSame
<1>2. ASSUME NEW c \in Conns, NEW n \in 1 .. (Requests * Request), Arrive(c, n) PROVE RecvOK'
  <2>1. /\ UNCHANGED <<asked, w, rbuf>> /\ n \in Nat /\ n <= flying[c]
        /\ rx' = [rx EXCEPT ![c] = rx[c] + n] /\ flying' = [flying EXCEPT ![c] = flying[c] - n]
    BY <1>0, <1>2, Numbers DEF Arrive, workerVars
  <2>2. ASSUME NEW d \in Conns PROVE Start(d)' = Start(d)
    <3>1. CASE d # c
      <4>1. rx'[d] = rx[d] /\ flying'[d] = flying[d]
        BY <1>0, <2>1, <3>1 DEF Types, ClientTypes, SocketTypes
      <4> QED BY <2>1, <4>1 DEF Start
    <3>2. CASE d = c
      <4>1. rx'[d] = rx[d] + n /\ flying'[d] = flying[d] - n /\ rx[d] \in Nat /\ flying[d] \in Nat /\ w.len \in Nat
        BY <1>0, <2>1, <3>2 DEF Types, ClientTypes, SocketTypes, WorkerTypes
      <4>2. asked[d] * Request \in Nat
        BY <1>0, WayIsNumber
      <4> DEFINE all == asked[d] * Request
      <4>3. all \in Nat
        BY <4>2
      <4> HIDE DEF all
      <4>4. all - (flying[d] - n) - (rx[d] + n) - w.len = all - flying[d] - rx[d] - w.len
        BY <2>1, <4>1, <4>3
      <4> QED BY <2>1, <4>1, <4>4 DEF Start, all
    <3> QED BY <3>1, <3>2
  <2> QED BY <1>0, <1>00, <2>1, <2>2, RecvSame
<1>3. CASE EpollWait
  <2>1. w'.at \notin {"recv", "OnData"}
    BY <1>0, <1>3 DEF EpollWait, Return
  <2> QED BY <2>1 DEF RecvOK
<1>4. CASE NextRound
  <2>1. w'.at \notin {"recv", "OnData"}
    BY <1>0, <1>4 DEF NextRound, Types, WorkerTypes
  <2> QED BY <2>1 DEF RecvOK
<1>5. CASE AcceptConnection
  <2>1. w'.at \notin {"recv", "OnData"}
    BY <1>0, <1>5, Accepted DEF AcceptConnection
  <2> QED BY <2>1 DEF RecvOK
<1>6. CASE OnConnection
  <2>1. w'.at \notin {"recv", "OnData"}
    BY <1>0, <1>6 DEF OnConnection, Push, Return
  <2> QED BY <2>1 DEF RecvOK
<1>7. CASE OnData
  <2>1. w'.at \notin {"recv", "OnData"}
    BY <1>0, <1>7 DEF OnData, Push, Return
  <2> QED BY <2>1 DEF RecvOK
<1>8. CASE OnDisconnect
  <2>1. w'.at \notin {"recv", "OnData"}
    BY <1>0, <1>8 DEF OnDisconnect, Push, Return
  <2> QED BY <2>1 DEF RecvOK
<1>9. ASSUME NEW c \in Conns, BeginRecv(c) PROVE RecvOK'
  <2>1. w'.len = 0 /\ w'.recvNum = 0 /\ w'.at = "recv"
    BY <1>9 DEF BeginRecv
  <2> QED BY <2>1, Numbers DEF RecvOK
<1>10. ASSUME NEW c \in Conns, BeginSendLeft(c) PROVE RecvOK'
  <2>1. w'.at \notin {"recv", "OnData"}
    BY <1>0, <1>10, LeftTaken DEF BeginSendLeft
  <2> QED BY <2>1 DEF RecvOK
<1>11. CASE Recv
  <2>0. PICK e \in Conns : e = w.c
    BY <1>0, <1>11 DEF Recv
  <2>1. PICK n \in Nat : n <= rx[e] /\ n = Min({MAXLINE, rx[e]}) /\ n <= MAXLINE
    <3>1. MAXLINE \in Int /\ rx[e] \in Nat /\ MAXLINE \in Nat
      BY <1>0, Numbers DEF Types, SocketTypes
    <3> QED BY <3>1, MinOfTwo
  <2>2. /\ UNCHANGED <<asked, flying>> /\ w.at = "recv" /\ w.c = e /\ rx[e] > 0
        /\ rx' = [rx EXCEPT ![e] = rx[e] - n]
        /\ rbuf' = [i \in 1 .. InputBuffer |->
                      IF i \in w.recvNum + 1 .. w.recvNum + n
                      THEN Start(e) + w.len + i - w.recvNum ELSE rbuf[i]]
        /\ w' = [w EXCEPT !.at = IF n = MAXLINE THEN "recv" ELSE "OnData",
                          !.len = w.len + n, !.recvNum = n]
    BY <1>0, <1>11, <2>0, <2>1 DEF Recv, clientVars
  <2>3. w'.c = e /\ w'.len = w.len + n /\ w'.recvNum = n /\ w'.at = IF n = MAXLINE THEN "recv" ELSE "OnData"
    BY <1>0, <2>2 DEF Types, WorkerTypes
  <2>4. /\ w.len \in Nat /\ rx[e] \in Nat /\ flying[e] \in Nat /\ MAXLINE \in Nat \ {0} /\ InputBuffer \in Nat
        /\ 2 * MAXLINE <= InputBuffer /\ Request \in Nat /\ rx'[e] = rx[e] - n
    BY <1>0, <2>2, Numbers, Lengths DEF Types, WorkerTypes, SocketTypes, ClientTypes
  <2>5. w.len + rx[e] <= Request
    <3>1. Way(e) <= Request /\ Way(e) \in Nat
      BY <1>00, OneRequest
    <3>2. Way(e) = w.len + rx[e] + flying[e]
      BY <2>2 DEF Way, Hand
    <3> QED BY <2>4, <3>1, <3>2
  <2>6. w.len = w.recvNum /\ w.len \in {0, MAXLINE}
    <3>1. (w.len = 0 /\ w.recvNum = 0) \/ (w.len \in {MAXLINE, 2 * MAXLINE} /\ w.recvNum = MAXLINE)
      BY <1>00, <2>2 DEF RecvOK
    <3>2. w.len # 2 * MAXLINE
      BY <1>00, <2>2, <2>4, <2>5
    <3> QED BY <3>1, <3>2
  <2>7. w.len + n <= InputBuffer
    BY <2>1, <2>4, <2>6
  <2>8. Start(e)' = Start(e) /\ Start(e) \in Int
    <3>1. asked[e] * Request \in Nat
      BY <1>0, WayIsNumber
    <3> DEFINE all == asked[e] * Request
    <3>2. all \in Nat
      BY <3>1
    <3> HIDE DEF all
    <3>3. Start(e)' = all - flying[e] - (rx[e] - n) - (w.len + n) /\ Start(e) = all - flying[e] - rx[e] - w.len
      BY <2>2, <2>3, <2>4 DEF Start, all
    <3> QED BY <2>1, <2>4, <3>2, <3>3
  <2>9. ASSUME NEW i \in 1 .. w.len + n PROVE rbuf'[i] = Start(e)' + i
    <3>1. i \in 1 .. InputBuffer
      BY <2>1, <2>4, <2>7
    <3>2. CASE i \in 1 .. w.len
      <4>1. rbuf[i] = Start(e) + i
        BY <1>00, <2>2, <3>2 DEF RecvOK
      <4>2. rbuf'[i] = rbuf[i]
        BY <2>1, <2>2, <2>4, <2>6, <3>1, <3>2
      <4> QED BY <2>8, <4>1, <4>2
    <3>3. CASE i \in w.len + 1 .. w.len + n
      <4>1. rbuf'[i] = Start(e) + w.len + i - w.len
        BY <2>2, <2>6, <3>1, <3>3
      <4> QED BY <2>4, <2>8, <3>3, <4>1
    <3> QED BY <2>1, <2>4, <3>2, <3>3
  <2>10. w'.at = "recv" => w'.len \in {MAXLINE, 2 * MAXLINE} /\ w'.recvNum = MAXLINE
    BY <2>1, <2>3, <2>4, <2>6
  <2> QED BY <2>3, <2>7, <2>9, <2>10 DEF RecvOK
<1>12. CASE RecvNothing
  <2>1. /\ UNCHANGED <<asked, flying, rx, rbuf>> /\ w.at = "recv"
        /\ w'.c = w.c /\ w'.len = w.len /\ w'.at # "recv"
    BY <1>0, <1>12 DEF RecvNothing, clientVars, socketVars, Types, WorkerTypes
  <2>2. Start(w.c)' = Start(w.c)
    BY <2>1 DEF Start
  <2>3. w.len <= InputBuffer /\ \A i \in 1 .. w.len : rbuf[i] = Start(w.c) + i
    BY <1>00, <2>1 DEF RecvOK
  <2> QED BY <2>1, <2>2, <2>3 DEF RecvOK, Start
<1>13. CASE SendLeftEnd
  <2>1. w'.at \notin {"recv", "OnData"}
    BY <1>0, <1>13 DEF SendLeftEnd, Return
  <2> QED BY <2>1 DEF RecvOK
<1>14. CASE SendLeftFails
  <2>1. w'.at \notin {"recv", "OnData"}
    BY <1>0, <1>14 DEF SendLeftFails, Return
  <2> QED BY <2>1 DEF RecvOK
<1>15. CASE UNCHANGED <<w, rbuf, asked, flying, rx>>
  BY <1>00, <1>15, RecvSame DEF Start
<1> QED BY <1>1, <1>2, <1>3, <1>4, <1>5, <1>6, <1>7, <1>8, <1>9, <1>10, <1>11, <1>12, <1>13,
           <1>14, <1>15
           DEF Next, Worker, CommandHandler, Arrivals, vars, Connect, Read, Edge, ClientClose,
               EndArrives, ResetArrives, SendLeftPart, BeginBatch, EndBatch, HandleOnConnect,
               Handling, Done, Current, HandleOnData, HandleOnDisconnect, SendData, SemWait,
               SendPart, SendAll, NextAnswer, SendAgain, Ctl, SendReset, clientVars, socketVars,
               workerVars, sendVars, commandVars

\* OnData is given the next bytes of the stream, in order and within the buffer, of any
\* client whose request two reads can take; a longer one a third read would write over
\* (easy_connection.cpp:302-346).
THEOREM StreamsInOrder ==
  ASSUME Waiting, Request <= 2 * MAXLINE
  PROVE  Spec => []StreamInOrder
<1>1. Init => RecvOK
  BY DEF Init, RecvOK
<1>2. Basics /\ RecvOK /\ [Next]_vars => RecvOK'
  BY RecvStep
<1>3. RecvOK => StreamInOrder
  BY DEF RecvOK, StreamInOrder
<1> QED BY <1>1, <1>2, <1>3, BasicsAlways, PTL DEF Spec

-----------------------------------------------------------------------------
(* The end of a connection                                                 *)

\* Who left early has left early for ever.
LEMMA PatientBefore == ASSUME Basics, [Next]_vars, Patient' PROVE Patient
<1>0. Types
  BY DEF Basics
<1>1. ASSUME NEW d \in Conns, client[d] = "gone"
      PROVE  client'[d] = "gone" /\ asked'[d] = asked[d] /\ readN'[d] = readN[d]
  <2>1. ASSUME NEW c \in Conns, Connect(c)
        PROVE  client'[d] = "gone" /\ asked'[d] = asked[d] /\ readN'[d] = readN[d]
    BY <1>0, <1>1, <2>1 DEF Connect, Types, ClientTypes
  <2>2. ASSUME NEW c \in Conns, Ask(c)
        PROVE  client'[d] = "gone" /\ asked'[d] = asked[d] /\ readN'[d] = readN[d]
    BY <1>0, <1>1, <2>2 DEF Ask, Types, ClientTypes
  <2>3. ASSUME NEW c \in Conns, Read(c)
        PROVE  client'[d] = "gone" /\ asked'[d] = asked[d] /\ readN'[d] = readN[d]
    BY <1>0, <1>1, <2>3 DEF Read, Types, ClientTypes
  <2>4. ASSUME NEW c \in Conns, ClientClose(c)
        PROVE  client'[d] = "gone" /\ asked'[d] = asked[d] /\ readN'[d] = readN[d]
    BY <1>0, <1>1, <2>4 DEF ClientClose, Types, ClientTypes
  <2>5. CASE UNCHANGED <<client, asked, readN>>
    BY <1>1, <2>5
  <2> QED BY <2>1, <2>2, <2>3, <2>4, <2>5
          DEF Next, Worker, CommandHandler, Arrivals, vars, Arrive, EndArrives, ResetArrives,
              EpollWait, NextRound, AcceptConnection, OnConnection, OnData, OnDisconnect, Push,
              BeginRecv, BeginSendLeft, Recv, RecvNothing, SendLeftPart, SendLeftEnd,
              SendLeftFails, BeginBatch, EndBatch, HandleOnConnect, HandleOnData,
              HandleOnDisconnect, SendData, SemWait, SendPart, SendAll, SendAgain, SendReset,
              clientVars
<1> QED BY <1>1 DEF Patient, Answered

\* Of a client that left answered nothing is under way but its end.
LEMMA Gone ==
  ASSUME Waiting, Basics, Patient, NEW c \in Conns, client[c] = "gone"
  PROVE  /\ left[c] = 0 /\ cmd.c # c /\ c \notin rst /\ ~Fresh(c) /\ ~Writing(c)
         /\ rx[c] = 0 /\ flying[c] = 0 /\ Len(out[c]) = readN[c]
         /\ w.c = c => w.at \in {"recv", "OnDisconnect"} /\ c \in fin
         /\ Noticed(c) => c \in fin
<1>1. /\ left[c] = 0 /\ cmd.c # c /\ c \notin rst /\ rx[c] = 0 /\ flying[c] = 0 /\ Hand(c) = 0
      /\ Len(out[c]) = readN[c] /\ handled[c] = asked[c] * Request
  BY Served DEF Patient
<1>2. asked[c] \in Nat \ {0} /\ Request \in Nat \ {0}
  BY Numbers DEF Patient, Basics, Types, ClientTypes
<1>3. ~Fresh(c)
  <2>1. asked[c] * Request # 0
    BY <1>2
  <2> QED BY <1>1, <2>1 DEF Basics, NewOK
<1>4. ~Writing(c)
  <2>1. SenderOK(c)
    BY DEF Basics, SendersOK
  <2> QED BY <1>1, <2>1 DEF SenderOK
<1>5. ~Readable(c) \/ c \in fin
  BY <1>1 DEF Readable
<1>6. w.c = c => w.at \in {"recv", "OnDisconnect"} /\ c \in fin
  <2>1. w.c = c => w.at \in {"OnConnection", "recv", "OnData", "OnDisconnect", "SendMessage"}
    BY Names DEF Basics, HandsOK, Types, WorkerTypes
  <2>2. w.c = c => w.at # "OnConnection" /\ w.at # "SendMessage"
    BY <1>3, <1>4 DEF Fresh, Writing
  <2>3. w.c = c /\ w.at \in {"recv", "OnData"} => ~(w.len > 0)
    BY <1>1 DEF Hand
  <2>4. w.c = c => w.at # "OnData"
    BY <2>3 DEF Basics, EndsOK
  <2>5. w.c = c /\ w.at = "recv" => c \in fin
    BY <1>5, <2>3 DEF Basics, EndsOK
  <2>6. w.c = c /\ w.at = "OnDisconnect" => c \in fin
    BY <1>1 DEF Basics, EndsOK
  <2> QED BY <2>1, <2>2, <2>4, <2>5, <2>6
<1>7. Noticed(c) => c \in fin
  <2>1. Noticed(c) => <<c, "in">> \in events \/ <<c, "out">> \in events
    BY DEF Noticed, Basics, Types, EpollTypes
  <2> QED BY <1>4, <1>5, <2>1 DEF Writing, Basics, EndsOK
<1> QED BY <1>1, <1>3, <1>4, <1>6, <1>7

\* Nobody is reset, and whose end has arrived is gone.
LEMMA Ended ==
  ASSUME Waiting, Basics, Patient
  PROVE  rst = {} /\ \A c \in fin : c \in Conns /\ client[c] = "gone"
<1>1. /\ \A c \in fin : c \in Conns /\ client[c] = "gone"
      /\ \A c \in rst : c \in Conns /\ client[c] = "gone"
  BY DEF Basics, EndsOK, Types, SocketTypes
<1>2. \A c \in rst : c \notin rst
  BY <1>1, Gone
<1> QED BY <1>1, <1>2

\* The list of commands, when one is pushed and when one is taken.
LEMMA EndingPush ==
  ASSUME CommandTypes, NEW m \in Commands, m_CommandList' = Append(m_CommandList, m)
  PROVE  /\ \A c \in Conns : Ending(c)' <=> Ending(c) \/ (m.c = c /\ m.kind = "ONDISCONNECT")
         /\ LastCommand /\ ~Ending(m.c) => LastCommand'
<1> DEFINE n == Len(m_CommandList)
<1>1. /\ n \in Nat /\ Len(m_CommandList') = n + 1
      /\ \A i \in 1 .. n : m_CommandList'[i] = m_CommandList[i]
      /\ m_CommandList'[n + 1] = m
  BY PushedCommand
<1>2. /\ n + 1 \in 1 .. n + 1 /\ \A i \in 1 .. n : i \in 1 .. n + 1
      /\ \A i \in 1 .. n + 1 : i \in 1 .. n \/ i = n + 1
  BY <1>1
<1>3. \A c \in Conns : Ending(c)' <=> Ending(c) \/ (m.c = c /\ m.kind = "ONDISCONNECT")
  BY <1>1, <1>2 DEF Ending
<1>4. ASSUME LastCommand, ~Ending(m.c) PROVE LastCommand'
  <2>1. ASSUME NEW i \in 1 .. n + 1, NEW j \in 1 .. n + 1,
               m_CommandList'[i].kind = "ONDISCONNECT",
               m_CommandList'[j].c = m_CommandList'[i].c
        PROVE  j <= i
    <3>1. CASE i = n + 1
      BY <1>1, <3>1
    <3>2. CASE i \in 1 .. n /\ j \in 1 .. n
      BY <1>1, <1>4, <2>1, <3>2 DEF LastCommand
    <3>3. CASE i \in 1 .. n /\ j = n + 1
      BY <1>1, <1>4, <2>1, <3>3 DEF Ending
    <3> QED BY <1>2, <3>1, <3>2, <3>3
  <2> QED BY <1>1, <2>1 DEF LastCommand
<1> QED BY <1>3, <1>4

LEMMA EndingPop ==
  ASSUME CommandTypes, LastCommand, m_CommandList # <<>>, m_CommandList' = Tail(m_CommandList)
  PROVE  /\ LastCommand'
         /\ \A c \in Conns : Ending(c)' => Ending(c)
         /\ \A c \in Conns : Ending(c) =>
              Ending(c)' \/ (Current.c = c /\ Current.kind = "ONDISCONNECT")
         /\ \A c \in Conns :
              Current.c = c /\ Current.kind = "ONDISCONNECT" => Ending(c) /\ ~Listed(c)'
<1> DEFINE n == Len(m_CommandList)
<1>1. /\ n \in Nat \ {0} /\ Len(m_CommandList') = n - 1
      /\ \A i \in 1 .. n - 1 : m_CommandList'[i] = m_CommandList[i + 1]
      /\ Current = m_CommandList[1]
  BY CurrentCommand
<1>2. /\ 1 \in 1 .. n /\ \A i \in 1 .. n - 1 : i \in Nat /\ i + 1 \in 1 .. n /\ i + 1 > 1
      /\ \A i \in 1 .. n : i = 1 \/ (i - 1 \in 1 .. n - 1 /\ (i - 1) + 1 = i)
  BY <1>1
<1>3. \A c \in Conns : Ending(c)' => Ending(c)
  BY <1>1, <1>2 DEF Ending
<1>4. ASSUME NEW c \in Conns, Ending(c), ~(Current.c = c /\ Current.kind = "ONDISCONNECT")
      PROVE  Ending(c)'
  <2>1. PICK i \in 1 .. n : m_CommandList[i].c = c /\ m_CommandList[i].kind = "ONDISCONNECT"
    BY <1>4 DEF Ending
  <2>2. i - 1 \in 1 .. n - 1 /\ m_CommandList'[i - 1] = m_CommandList[i]
    BY <1>1, <1>2, <1>4, <2>1
  <2> QED BY <1>1, <2>1, <2>2 DEF Ending
<1>5. LastCommand'
  <2>1. ASSUME NEW i \in 1 .. n - 1, NEW j \in 1 .. n - 1,
               m_CommandList'[i].kind = "ONDISCONNECT",
               m_CommandList'[j].c = m_CommandList'[i].c
        PROVE  j <= i
    <3>1. j + 1 <= i + 1
      BY <1>1, <1>2, <2>1 DEF LastCommand
    <3> QED BY <1>2, <3>1
  <2> QED BY <1>1, <2>1 DEF LastCommand
<1>6. ASSUME NEW c \in Conns, Current.c = c, Current.kind = "ONDISCONNECT"
      PROVE  Ending(c) /\ ~Listed(c)'
  <2>1. Ending(c)
    BY <1>1, <1>2, <1>6 DEF Ending
  <2>2. ASSUME NEW i \in 1 .. n - 1 PROVE m_CommandList'[i].c # c
    <3>1. i + 1 \in 1 .. n /\ ~(i + 1 <= 1)
      BY <1>2
    <3> QED BY <1>1, <1>2, <1>6, <3>1 DEF LastCommand
  <2> QED BY <1>1, <2>1, <2>2 DEF Listed
<1> QED BY <1>3, <1>4, <1>5, <1>6


LEMMA LifeStep == Waiting /\ Basics /\ LifeOK /\ Patient' /\ [Next]_vars => Life'
<1> SUFFICES ASSUME Waiting, Basics, LifeOK, Patient', [Next]_vars PROVE Life'
  OBVIOUS
<1>0. /\ Types /\ HandsOK /\ EventsOK /\ NewOK /\ SendersOK /\ AnswersOK /\ FlowOK /\ AsksOK /\ EndsOK
      /\ NoConn \notin Conns /\ Listener \notin Conns /\ Answer \in Nat \ {0}
      /\ w.at \in {"OnConnection", "recv", "OnData", "OnDisconnect", "SendMessage"} => w.c \in Conns
      /\ cmd.at \in {"SendData", "sem_wait", "send"} => cmd.c \in Conns /\ cmd.due >= 1
  BY HandsConns, Names, Numbers DEF Basics, Waiting
<1>t. Types' /\ CommandTypes
  BY TypesStep DEF Basics, Types
<1>a. Patient /\ LastCommand /\ \A c \in Conns : EndOnce(c)
  BY PatientBefore DEF LifeOK, Life
<1>b. rst = {} /\ \A c \in fin : c \in Conns /\ client[c] = "gone"
  BY <1>a, Ended
<1>c. \A c \in Conns : client[c] = "gone" =>
        /\ left[c] = 0 /\ cmd.c # c /\ ~Fresh(c) /\ ~Writing(c)
        /\ flying[c] = 0 /\ Len(out[c]) = readN[c]
        /\ w.c = c => w.at \in {"recv", "OnDisconnect"} /\ c \in fin
        /\ Noticed(c) => c \in fin
  BY <1>a, Gone
<1>1. ASSUME NEW c \in Conns, Connect(c) PROVE Life'
  <2>1. /\ UNCHANGED <<object, w, told, m_CommandList, reg, events, cmd, fin>>
        /\ ready' = ready \cup {Listener}
    BY <1>1 DEF Connect, workerVars, commandVars
  <2>2. LastCommand' /\ \A d \in Conns : (Listed(d)' <=> Listed(d)) /\ (Ending(d)' <=> Ending(d))
    BY <1>a, <2>1 DEF LastCommand, Listed, Ending
  <2>3. \A d \in Conns : (Noticed(d)' => Noticed(d)) /\ (Fresh(d)' <=> Fresh(d))
    BY <1>0, <2>1 DEF Noticed, Fresh
  <2>4. ASSUME NEW d \in Conns PROVE EndOnce(d)'
    BY <1>0, <1>a, <1>b, <1>c, <2>1, <2>2, <2>3 DEF EndOnce
  <2> QED BY <2>2, <2>4 DEF Life
<1>2. ASSUME NEW c \in Conns, Read(c) PROVE Life'
  <2>1. /\ UNCHANGED <<object, w, told, m_CommandList, reg, events, cmd, fin>>
        /\ ready' \in {ready, ready \cup {c}} /\ client[c] = "here" /\ c \notin fin
    BY <1>b, <1>2 DEF Read, Edge, socketVars, workerVars, commandVars
  <2>2. LastCommand' /\ \A d \in Conns : (Listed(d)' <=> Listed(d)) /\ (Ending(d)' <=> Ending(d))
    BY <1>a, <2>1 DEF LastCommand, Listed, Ending
  <2>3. \A d \in Conns : (Noticed(d)' => Noticed(d)) /\ (Fresh(d)' <=> Fresh(d))
    BY <1>0, <2>1 DEF Noticed, Fresh
  <2>4. ASSUME NEW d \in Conns PROVE EndOnce(d)'
    BY <1>0, <1>a, <1>b, <1>c, <2>1, <2>2, <2>3 DEF EndOnce
  <2> QED BY <2>2, <2>4 DEF Life
<1>3. ASSUME NEW c \in Conns, NEW n \in 1 .. (Requests * Request), Arrive(c, n) PROVE Life'
  <2>0. c \notin fin
    <3>1. n \in Nat /\ n >= 1 /\ n <= flying[c]
      BY <1>3, Numbers DEF Arrive
    <3>2. flying[c] # 0
      BY <3>1
    <3> QED BY <1>b, <1>c, <3>2
  <2>1. /\ UNCHANGED <<object, w, told, m_CommandList, reg, events, cmd, fin>>
        /\ ready' \in {ready, ready \cup {c}} /\ c \notin fin
    BY <1>3, <2>0 DEF Arrive, Edge, workerVars, commandVars
  <2>2. LastCommand' /\ \A d \in Conns : (Listed(d)' <=> Listed(d)) /\ (Ending(d)' <=> Ending(d))
    BY <1>a, <2>1 DEF LastCommand, Listed, Ending
  <2>3. \A d \in Conns : (Noticed(d)' => Noticed(d)) /\ (Fresh(d)' <=> Fresh(d))
    BY <1>0, <2>1 DEF Noticed, Fresh
  <2>4. ASSUME NEW d \in Conns PROVE EndOnce(d)'
    BY <1>0, <1>a, <1>b, <1>c, <2>1, <2>2, <2>3 DEF EndOnce
  <2> QED BY <2>2, <2>4 DEF Life
<1>4. ASSUME NEW c \in Conns, EndArrives(c) PROVE Life'
  <2>1. /\ UNCHANGED <<object, w, told, m_CommandList, reg, events, cmd>>
        /\ fin' = fin \cup {c} /\ ready' \in {ready, ready \cup {c}} /\ c \notin fin
        /\ client[c] = "gone"
    BY <1>4 DEF EndArrives, Edge, workerVars, commandVars
  <2>2. LastCommand' /\ \A d \in Conns : (Listed(d)' <=> Listed(d)) /\ (Ending(d)' <=> Ending(d))
    BY <1>a, <2>1 DEF LastCommand, Listed, Ending
  <2>3. \A d \in Conns : (Noticed(d)' => Noticed(d)) /\ (Fresh(d)' <=> Fresh(d))
    BY <1>0, <2>1 DEF Noticed, Fresh
  <2>4. ASSUME NEW d \in Conns PROVE EndOnce(d)'
    BY <1>0, <1>a, <1>b, <1>c, <2>1, <2>2, <2>3 DEF EndOnce
  <2> QED BY <2>2, <2>4 DEF Life
<1>5. ASSUME NEW c \in Conns, ResetArrives(c) PROVE Life'
  <2>1. client[c] = "gone" /\ Len(out[c]) > readN[c]
    BY <1>5 DEF ResetArrives
  <2>2. Len(out[c]) \in Nat /\ readN[c] \in Nat
    BY <1>0 DEF Types, ClientTypes, SocketTypes
  <2>3. Len(out[c]) # readN[c]
    BY <2>1, <2>2
  <2> QED BY <1>c, <2>1, <2>3
<1>6. CASE EpollWait
  <2>1. /\ events' = Reported /\ ready' = {} /\ w'.at = "events" /\ w'.c = NoConn /\ w.at = "epoll_wait"
        /\ UNCHANGED <<object, told, m_CommandList, reg, cmd, fin>>
    BY <1>6 DEF EpollWait, Return, socketVars, commandVars
  <2>2. LastCommand' /\ \A d \in Conns : (Listed(d)' <=> Listed(d)) /\ (Ending(d)' <=> Ending(d))
    BY <1>a, <2>1 DEF LastCommand, Listed, Ending
  <2>3. ASSUME NEW d \in Conns PROVE Noticed(d)' => d \in ready /\ reg[d] # "none"
    <3>1. ASSUME NEW e \in Reported, e[1] = d PROVE d \in ready /\ reg[d] # "none"
      <4>1. e = <<d, reg[d]>> /\ d \in ready
        BY <1>0, <3>1, ReportedOnce
      <4>2. e \in (Conns \cup {Listener}) \X {"in", "out"}
        BY <1>t, <2>1 DEF Types, EpollTypes
      <4> QED BY <4>1, <4>2
    <3> QED BY <2>1, <3>1 DEF Noticed
  <2>4. \A d \in Conns : Fresh(d)' <=> Fresh(d)
    BY <2>1 DEF Fresh
  <2>5. ASSUME NEW d \in Conns PROVE EndOnce(d)'
    BY <1>0, <1>a, <2>1, <2>2, <2>3, <2>4 DEF EndOnce
  <2> QED BY <2>2, <2>5 DEF Life
<1>7. CASE NextRound
  <2>1. /\ UNCHANGED <<object, told, m_CommandList, reg, events, cmd, fin, ready>>
        /\ w'.c = w.c /\ w.c = NoConn /\ w'.at = "epoll_wait" /\ w.at = "events"
    BY <1>0, <1>7 DEF NextRound, HandsOK, Types, WorkerTypes, socketVars, commandVars
  <2>2. LastCommand' /\ \A d \in Conns : (Listed(d)' <=> Listed(d)) /\ (Ending(d)' <=> Ending(d))
    BY <1>a, <2>1 DEF LastCommand, Listed, Ending
  <2>3. \A d \in Conns : (Noticed(d)' => Noticed(d)) /\ (Fresh(d)' <=> Fresh(d))
    BY <1>0, <2>1 DEF Noticed, Fresh
  <2>4. ASSUME NEW d \in Conns PROVE EndOnce(d)'
    BY <1>0, <1>a, <1>b, <1>c, <2>1, <2>2, <2>3 DEF EndOnce
  <2> QED BY <2>2, <2>4 DEF Life
<1>8. CASE AcceptConnection
  <2>0. PICK c \in Conns : c = Head(backlog)
    BY <1>0, <1>8, Accepted
  <2>1. /\ UNCHANGED <<told, m_CommandList, cmd, fin>> /\ events' \subseteq events
        /\ w'.at = "OnConnection" /\ w'.c = c /\ w.at = "events" /\ w.c = NoConn
        /\ ready' \in {ready, ready \cup {c}} /\ object[c] = "none"
    BY <1>0, <1>8, <2>0, Accepted DEF AcceptConnection, Ctl, commandVars, HandsOK, NewOK
  <2>2. LastCommand' /\ \A d \in Conns : (Listed(d)' <=> Listed(d)) /\ (Ending(d)' <=> Ending(d))
    BY <1>a, <2>1 DEF LastCommand, Listed, Ending
  <2>3. object'[c] = "live" /\ \A d \in Conns \ {c} : object'[d] = object[d] /\ reg'[d] = reg[d]
    BY <1>0, <1>8, <2>0 DEF AcceptConnection, Ctl, Types, ConnTypes, EpollTypes
  <2>4. \A d \in Conns : Noticed(d)' => Noticed(d)
    BY <2>1 DEF Noticed
  <2>5. Fresh(c) /\ Fresh(c)' /\ told[c] = "idle" /\ c \notin fin /\ ~Noticed(c)
    BY <1>0, <1>b, <1>c, <2>1, <2>3 DEF Fresh, NewOK
  <2>6. \A d \in Conns \ {c} : Fresh(d)' <=> Fresh(d)
    BY <1>0, <2>1, <2>3 DEF Fresh
  <2>7. EndOnce(c)'
    BY <1>a, <2>1, <2>2, <2>3, <2>5 DEF EndOnce
  <2>8. ASSUME NEW d \in Conns \ {c} PROVE EndOnce(d)'
    BY <1>0, <1>a, <2>1, <2>2, <2>3, <2>4, <2>6 DEF EndOnce
  <2> QED BY <2>2, <2>7, <2>8 DEF Life
<1>9. CASE OnConnection
  <2>0. PICK c \in Conns : c = w.c
    BY <1>0, <1>9 DEF OnConnection
  <2>1. 0 \in Nat /\ Push("ONCONNECT", c, 0) /\ w.at = "OnConnection" /\ told' = [told EXCEPT ![c] = "open"]
    BY <1>0, <1>9, <2>0 DEF OnConnection, Types, WorkerTypes
  <2>2. /\ UNCHANGED <<object, reg, events, cmd, fin, ready>> /\ w'.at = "events" /\ w'.c = NoConn
    BY <1>9, <2>1 DEF OnConnection, Push, Return, socketVars
  <2>3. told'[c] = "open" /\ \A d \in Conns \ {c} : told'[d] = told[d]
    BY <1>0, <2>1 DEF Types, ConnTypes
  <2>4. object[c] = "live"
    BY <1>0, <1>a, <2>0 DEF NewOK, EndOnce, Types, ConnTypes
  <2>5. ~Ending(c)
    BY <1>0, <1>a, <2>0, <2>1 DEF NewOK, Fresh, EndOnce
  <2>6. PICK m \in Commands : m.c = c /\ m.kind = "ONCONNECT" /\ m_CommandList' = Append(m_CommandList, m)
    BY <1>0, <2>0, <2>1, Pushed
  <2>7. /\ \A d \in Conns : Ending(d)' <=> Ending(d) \/ (m.c = d /\ m.kind = "ONDISCONNECT")
        /\ \A d \in Conns : Listed(d)' <=> Listed(d) \/ m.c = d
        /\ LastCommand'
    BY <1>0, <1>t, <1>a, <2>5, <2>6, EndingPush, ListedPush
  <2>8. \A d \in Conns : (Noticed(d)' <=> Noticed(d)) /\ (Fresh(d) => Fresh(d)' \/ d = c) /\ (Fresh(d)' => Fresh(d))
    BY <1>0, <2>0, <2>1, <2>2 DEF Noticed, Fresh
  <2>9. EndOnce(c)'
    BY <1>0, <1>a, <2>0, <2>2, <2>3, <2>4, <2>5, <2>6, <2>7, <2>8 DEF EndOnce
  <2>10. ASSUME NEW d \in Conns \ {c} PROVE EndOnce(d)'
    BY <1>0, <1>a, <2>0, <2>2, <2>3, <2>6, <2>7, <2>8 DEF EndOnce
  <2> QED BY <2>7, <2>9, <2>10 DEF Life
<1>10. CASE OnData
  <2>0. PICK c \in Conns : c = w.c
    BY <1>0, <1>10 DEF OnData
  <2>1. w.len \in Nat /\ Push("ONDATA", c, w.len) /\ w.at = "OnData" /\ told' = [told EXCEPT ![c] = "talking"]
    BY <1>0, <1>10, <2>0 DEF OnData, Types, WorkerTypes
  <2>2. /\ UNCHANGED <<object, reg, events, cmd, fin, ready>> /\ w'.at = "events" /\ w'.c = NoConn
    BY <1>10, <2>1 DEF OnData, Push, Return, socketVars
  <2>3. told'[c] = "talking" /\ \A d \in Conns \ {c} : told'[d] = told[d]
    BY <1>0, <2>1 DEF Types, ConnTypes
  <2>4. object[c] = "live"
    BY <1>0, <1>a, <2>0 DEF NewOK, EndOnce, Types, ConnTypes
  <2>5. ~Ending(c)
    BY <1>0, <1>a, <2>0 DEF EndOnce
  <2>6. PICK m \in Commands : m.c = c /\ m.kind = "ONDATA" /\ m_CommandList' = Append(m_CommandList, m)
    BY <1>0, <2>0, <2>1, Pushed
  <2>7. /\ \A d \in Conns : Ending(d)' <=> Ending(d) \/ (m.c = d /\ m.kind = "ONDISCONNECT")
        /\ \A d \in Conns : Listed(d)' <=> Listed(d) \/ m.c = d
        /\ LastCommand'
    BY <1>0, <1>t, <1>a, <2>5, <2>6, EndingPush, ListedPush
  <2>8. \A d \in Conns : (Noticed(d)' <=> Noticed(d)) /\ (Fresh(d) => Fresh(d)' \/ d = c) /\ (Fresh(d)' => Fresh(d))
    BY <1>0, <2>0, <2>1, <2>2 DEF Noticed, Fresh
  <2>9. EndOnce(c)'
    BY <1>0, <1>a, <2>0, <2>2, <2>3, <2>4, <2>5, <2>6, <2>7, <2>8 DEF EndOnce
  <2>10. ASSUME NEW d \in Conns \ {c} PROVE EndOnce(d)'
    BY <1>0, <1>a, <2>0, <2>2, <2>3, <2>6, <2>7, <2>8 DEF EndOnce
  <2> QED BY <2>7, <2>9, <2>10 DEF Life
<1>11. CASE OnDisconnect
  <2>0. PICK c \in Conns : c = w.c
    BY <1>0, <1>11 DEF OnDisconnect
  <2>1. 0 \in Nat /\ Push("ONDISCONNECT", c, 0) /\ w.at = "OnDisconnect" /\ told' = [told EXCEPT ![c] = "lost"]
    BY <1>0, <1>11, <2>0 DEF OnDisconnect, Types, WorkerTypes
  <2>2. /\ UNCHANGED <<object, reg, events, cmd, fin, ready>> /\ w'.at = "events" /\ w'.c = NoConn
    BY <1>11, <2>1 DEF OnDisconnect, Push, Return, socketVars
  <2>3. told'[c] = "lost" /\ \A d \in Conns \ {c} : told'[d] = told[d]
    BY <1>0, <2>1 DEF Types, ConnTypes
  <2>4. object[c] = "live"
    BY <1>0, <1>a, <2>0 DEF NewOK, EndOnce, Types, ConnTypes
  <2>5. ~Ending(c) /\ c \in fin /\ c \notin ready /\ ~Noticed(c)
    <3>1. ~Ending(c)
      BY <1>0, <1>a, <2>0 DEF EndOnce
    <3>2. c \in fin
      BY <1>0, <1>b, <2>0, <2>1 DEF EndsOK
    <3>3. c \notin ready
      BY <1>a, <2>0, <2>1, <3>2 DEF EndOnce
    <3>4. ~Noticed(c)
      BY <1>0, <2>0 DEF EventsOK, Noticed
    <3> QED BY <3>1, <3>2, <3>3, <3>4
  <2>6. PICK m \in Commands : m.c = c /\ m.kind = "ONDISCONNECT" /\ m_CommandList' = Append(m_CommandList, m)
    BY <1>0, <2>0, <2>1, Pushed
  <2>7. /\ \A d \in Conns : Ending(d)' <=> Ending(d) \/ (m.c = d /\ m.kind = "ONDISCONNECT")
        /\ \A d \in Conns : Listed(d)' <=> Listed(d) \/ m.c = d
        /\ LastCommand'
    BY <1>0, <1>t, <1>a, <2>5, <2>6, EndingPush, ListedPush
  <2>8. \A d \in Conns : (Noticed(d)' <=> Noticed(d)) /\ (Fresh(d) => Fresh(d)' \/ d = c) /\ (Fresh(d)' => Fresh(d))
    BY <1>0, <2>0, <2>1, <2>2 DEF Noticed, Fresh
  <2>9. EndOnce(c)'
    BY <1>0, <1>a, <2>0, <2>2, <2>3, <2>4, <2>5, <2>6, <2>7, <2>8 DEF EndOnce
  <2>10. ASSUME NEW d \in Conns \ {c} PROVE EndOnce(d)'
    BY <1>0, <1>a, <2>0, <2>2, <2>3, <2>6, <2>7, <2>8 DEF EndOnce
  <2> QED BY <2>7, <2>9, <2>10 DEF Life
<1>12. ASSUME NEW c \in Conns, BeginRecv(c) PROVE Life'
  <2>1. /\ UNCHANGED <<object, told, m_CommandList, reg, cmd, fin, ready>> /\ events' \subseteq events
        /\ w'.c = c /\ w'.at = "recv" /\ w.at = "events" /\ w.c = NoConn /\ Noticed(c)
    BY <1>0, <1>12 DEF BeginRecv, socketVars, commandVars, HandsOK, Noticed
  <2>2. LastCommand' /\ \A d \in Conns : (Listed(d)' <=> Listed(d)) /\ (Ending(d)' <=> Ending(d))
    BY <1>a, <2>1 DEF LastCommand, Listed, Ending
  <2>3. \A d \in Conns : (Noticed(d)' => Noticed(d)) /\ (Fresh(d)' <=> Fresh(d))
    BY <1>0, <2>1 DEF Noticed, Fresh
  <2>4. ASSUME NEW d \in Conns PROVE EndOnce(d)'
    BY <1>0, <1>a, <1>b, <1>c, <2>1, <2>2, <2>3 DEF EndOnce
  <2> QED BY <2>2, <2>4 DEF Life
<1>13. ASSUME NEW c \in Conns, BeginSendLeft(c) PROVE Life'
  <2>1. /\ UNCHANGED <<object, told, m_CommandList, reg, cmd, fin, ready>> /\ events' \subseteq events
        /\ w'.c \in {c, NoConn} /\ w'.at \in {"events", "SendMessage"} /\ w.at = "events" /\ w.c = NoConn /\ Noticed(c)
    BY <1>0, <1>13, LeftTaken DEF BeginSendLeft, socketVars, commandVars, HandsOK, Noticed
  <2>2. LastCommand' /\ \A d \in Conns : (Listed(d)' <=> Listed(d)) /\ (Ending(d)' <=> Ending(d))
    BY <1>a, <2>1 DEF LastCommand, Listed, Ending
  <2>3. \A d \in Conns : (Noticed(d)' => Noticed(d)) /\ (Fresh(d)' <=> Fresh(d))
    BY <1>0, <2>1 DEF Noticed, Fresh
  <2>4. ASSUME NEW d \in Conns PROVE EndOnce(d)'
    BY <1>0, <1>a, <1>b, <1>c, <2>1, <2>2, <2>3 DEF EndOnce
  <2> QED BY <2>2, <2>4 DEF Life
<1>14. CASE Recv
  <2>1. /\ UNCHANGED <<object, told, m_CommandList, reg, events, cmd, fin, ready>>
        /\ w'.c = w.c /\ w.at = "recv" /\ w'.at # "OnConnection"
    BY <1>0, <1>14 DEF Recv, Types, WorkerTypes, commandVars
  <2>2. LastCommand' /\ \A d \in Conns : (Listed(d)' <=> Listed(d)) /\ (Ending(d)' <=> Ending(d))
    BY <1>a, <2>1 DEF LastCommand, Listed, Ending
  <2>3. \A d \in Conns : (Noticed(d)' => Noticed(d)) /\ (Fresh(d)' <=> Fresh(d))
    BY <1>0, <2>1 DEF Noticed, Fresh
  <2>4. ASSUME NEW d \in Conns PROVE EndOnce(d)'
    BY <1>0, <1>a, <1>b, <1>c, <2>1, <2>2, <2>3 DEF EndOnce
  <2> QED BY <2>2, <2>4 DEF Life
<1>15. CASE RecvNothing
  <2>1. /\ UNCHANGED <<object, told, m_CommandList, reg, events, cmd, fin, ready>>
        /\ w'.c = w.c /\ w.at = "recv" /\ w'.at # "OnConnection"
    BY <1>0, <1>15 DEF RecvNothing, Types, WorkerTypes, socketVars, commandVars
  <2>2. LastCommand' /\ \A d \in Conns : (Listed(d)' <=> Listed(d)) /\ (Ending(d)' <=> Ending(d))
    BY <1>a, <2>1 DEF LastCommand, Listed, Ending
  <2>3. \A d \in Conns : (Noticed(d)' => Noticed(d)) /\ (Fresh(d)' <=> Fresh(d))
    BY <1>0, <2>1 DEF Noticed, Fresh
  <2>4. ASSUME NEW d \in Conns PROVE EndOnce(d)'
    BY <1>0, <1>a, <1>b, <1>c, <2>1, <2>2, <2>3 DEF EndOnce
  <2> QED BY <2>2, <2>4 DEF Life
<1>16. CASE SendLeftEnd
  <2>0. PICK c \in Conns : c = w.c
    BY <1>0, <1>16 DEF SendLeftEnd
  <2>1. /\ UNCHANGED <<object, told, m_CommandList, events, cmd, fin>>
        /\ ready' \in {ready, ready \cup {c}} /\ w.at = "SendMessage" /\ w'.c = NoConn /\ w'.at = "events"
        /\ reg' = [reg EXCEPT ![c] = "in"]
    BY <1>16, <2>0 DEF SendLeftEnd, Ctl, Return, commandVars
  <2>2. LastCommand' /\ \A d \in Conns : (Listed(d)' <=> Listed(d)) /\ (Ending(d)' <=> Ending(d))
    BY <1>a, <2>1 DEF LastCommand, Listed, Ending
  <2>3. \A d \in Conns : (Noticed(d)' => Noticed(d)) /\ (Fresh(d)' <=> Fresh(d))
    BY <1>0, <2>1 DEF Noticed, Fresh
  <2>4. c \notin fin
    BY <1>b, <1>c, <2>0, <2>1
  <2>5. \A d \in Conns \ {c} : reg'[d] = reg[d]
    BY <1>0, <2>1 DEF Types, EpollTypes
  <2>6. EndOnce(c)'
    BY <1>0, <1>a, <2>0, <2>1, <2>2, <2>3, <2>4 DEF EndOnce
  <2>7. ASSUME NEW d \in Conns \ {c} PROVE EndOnce(d)'
    BY <1>0, <1>a, <2>0, <2>1, <2>2, <2>3, <2>5 DEF EndOnce
  <2> QED BY <2>2, <2>6, <2>7 DEF Life
<1>17. CASE SendLeftFails
  <2>1. w.c \in rst
    BY <1>17 DEF SendLeftFails
  <2> QED BY <1>b, <2>1
<1>18. CASE BeginBatch
  <2>1. /\ UNCHANGED <<object, w, told, m_CommandList, reg, events, fin, ready>> /\ cmd'.c = cmd.c
    BY <1>0, <1>18 DEF BeginBatch, socketVars, workerVars, commandVars, Types, CommandTypes
  <2>2. LastCommand' /\ \A d \in Conns : (Listed(d)' <=> Listed(d)) /\ (Ending(d)' <=> Ending(d))
    BY <1>a, <2>1 DEF LastCommand, Listed, Ending
  <2>3. \A d \in Conns : (Noticed(d)' => Noticed(d)) /\ (Fresh(d)' <=> Fresh(d))
    BY <1>0, <2>1 DEF Noticed, Fresh
  <2>4. ASSUME NEW d \in Conns PROVE EndOnce(d)'
    BY <1>0, <1>a, <1>b, <1>c, <2>1, <2>2, <2>3 DEF EndOnce
  <2> QED BY <2>2, <2>4 DEF Life
<1>19. CASE EndBatch
  <2>1. /\ UNCHANGED <<object, w, told, m_CommandList, reg, events, fin, ready>> /\ cmd'.c = cmd.c
    BY <1>0, <1>19 DEF EndBatch, socketVars, workerVars, commandVars, Types, CommandTypes
  <2>2. LastCommand' /\ \A d \in Conns : (Listed(d)' <=> Listed(d)) /\ (Ending(d)' <=> Ending(d))
    BY <1>a, <2>1 DEF LastCommand, Listed, Ending
  <2>3. \A d \in Conns : (Noticed(d)' => Noticed(d)) /\ (Fresh(d)' <=> Fresh(d))
    BY <1>0, <2>1 DEF Noticed, Fresh
  <2>4. ASSUME NEW d \in Conns PROVE EndOnce(d)'
    BY <1>0, <1>a, <1>b, <1>c, <2>1, <2>2, <2>3 DEF EndOnce
  <2> QED BY <2>2, <2>4 DEF Life
<1>20. CASE HandleOnConnect
  <2>0. /\ Current \in Commands /\ Current.kind = "ONCONNECT" /\ m_CommandList # <<>>
        /\ m_CommandList' = Tail(m_CommandList) /\ Listed(Current.c) /\ \A d \in Conns : Listed(d)' => Listed(d)
    BY <1>0, <1>20, Handled DEF HandleOnConnect
  <2>00. PICK c \in Conns : c = Current.c
    BY <2>0 DEF Commands
  <2>1. UNCHANGED <<object, w, told, reg, events, cmd, fin, ready>>
    BY <1>20 DEF HandleOnConnect, socketVars, workerVars
  <2>2. LastCommand' /\ \A d \in Conns : (Ending(d)' <=> Ending(d))
    BY <1>a, <1>t, <2>0, EndingPop
  <2>3. \A d \in Conns : (Noticed(d)' => Noticed(d)) /\ (Fresh(d)' <=> Fresh(d))
    BY <1>0, <2>1 DEF Noticed, Fresh
  <2>4. ASSUME NEW d \in Conns PROVE EndOnce(d)'
    BY <1>a, <2>0, <2>1, <2>2, <2>3 DEF EndOnce
  <2> QED BY <2>2, <2>4 DEF Life
<1>21. CASE HandleOnData
  <2>0. /\ Current \in Commands /\ Current.kind = "ONDATA" /\ m_CommandList # <<>>
        /\ m_CommandList' = Tail(m_CommandList) /\ Listed(Current.c) /\ \A d \in Conns : Listed(d)' => Listed(d)
    BY <1>0, <1>21, Handled DEF HandleOnData
  <2>00. PICK c \in Conns : c = Current.c
    BY <2>0 DEF Commands
  <2>1. UNCHANGED <<object, w, told, reg, events, fin, ready>> /\ (cmd' = cmd \/ cmd'.c = c)
    BY <1>0, <1>21, <2>00, DataTaken DEF HandleOnData, socketVars, workerVars
  <2>2. LastCommand' /\ \A d \in Conns : (Ending(d)' <=> Ending(d))
    BY <1>a, <1>t, <2>0, EndingPop
  <2>3. \A d \in Conns : (Noticed(d)' => Noticed(d)) /\ (Fresh(d)' <=> Fresh(d))
    BY <1>0, <2>1 DEF Noticed, Fresh
  <2>4. ASSUME NEW d \in Conns PROVE EndOnce(d)'
    <3>1. object[c] # "deleted"
      BY <1>a, <2>0, <2>00 DEF EndOnce
    <3> QED BY <1>a, <2>0, <2>1, <2>2, <2>3, <3>1 DEF EndOnce
  <2> QED BY <2>2, <2>4 DEF Life
<1>22. CASE HandleOnDisconnect
  <2>0. /\ Current \in Commands /\ Current.kind = "ONDISCONNECT" /\ m_CommandList # <<>>
        /\ m_CommandList' = Tail(m_CommandList) /\ Listed(Current.c) /\ \A d \in Conns : Listed(d)' => Listed(d)
    BY <1>0, <1>22, Handled DEF HandleOnDisconnect
  <2>00. PICK c \in Conns : c = Current.c
    BY <2>0 DEF Commands
  <2>1. /\ UNCHANGED <<w, events, cmd, fin>> /\ ready' = ready \ {c}
        /\ object' = [object EXCEPT ![c] = "deleted"] /\ told' = [told EXCEPT ![c] = "idle"] /\ reg' = [reg EXCEPT ![c] = "none"]
    BY <1>22, <2>00 DEF HandleOnDisconnect, socketVars, workerVars
  <2>2. /\ LastCommand' /\ \A d \in Conns \ {c} : (Ending(d)' <=> Ending(d))
        /\ Ending(c) /\ ~Listed(c)'
    BY <1>a, <1>t, <2>0, <2>00, EndingPop
  <2>3. /\ object'[c] = "deleted" /\ told'[c] = "idle" /\ reg'[c] = "none"
        /\ \A d \in Conns \ {c} : object'[d] = object[d] /\ told'[d] = told[d] /\ reg'[d] = reg[d]
    BY <1>0, <2>1 DEF Types, ConnTypes, EpollTypes
  <2>4. \A d \in Conns : Noticed(d)' <=> Noticed(d)
    BY <2>1 DEF Noticed
  <2>5. ~Ending(c)'
    BY <2>2 DEF Ending, Listed
  <2>6. /\ c \in fin /\ ~Noticed(c) /\ w.c # c
    BY <1>a, <2>2 DEF EndOnce
  <2>7. cmd.c # c
    BY <1>b, <1>c, <2>6
  <2>8. EndOnce(c)'
    BY <2>1, <2>2, <2>3, <2>4, <2>5, <2>6, <2>7 DEF EndOnce
  <2>9. ASSUME NEW d \in Conns \ {c} PROVE EndOnce(d)'
    <3>1. Fresh(d)' <=> Fresh(d)
      BY <2>1, <2>3 DEF Fresh
    <3> QED BY <1>a, <2>0, <2>1, <2>2, <2>3, <2>4, <3>1 DEF EndOnce
  <2> QED BY <2>2, <2>8, <2>9 DEF Life
<1>23. CASE SendData
  <2>1. /\ UNCHANGED <<object, w, told, m_CommandList, reg, events, fin, ready>> /\ cmd'.c = cmd.c
    BY <1>0, <1>23 DEF SendData, socketVars, workerVars, commandVars, Types, CommandTypes
  <2>2. LastCommand' /\ \A d \in Conns : (Listed(d)' <=> Listed(d)) /\ (Ending(d)' <=> Ending(d))
    BY <1>a, <2>1 DEF LastCommand, Listed, Ending
  <2>3. \A d \in Conns : (Noticed(d)' => Noticed(d)) /\ (Fresh(d)' <=> Fresh(d))
    BY <1>0, <2>1 DEF Noticed, Fresh
  <2>4. ASSUME NEW d \in Conns PROVE EndOnce(d)'
    BY <1>0, <1>a, <1>b, <1>c, <2>1, <2>2, <2>3 DEF EndOnce
  <2> QED BY <2>2, <2>4 DEF Life
<1>24. CASE SemWait
  <2>1. /\ UNCHANGED <<object, w, told, m_CommandList, reg, events, fin, ready>> /\ cmd'.c = cmd.c
    BY <1>0, <1>24 DEF SemWait, socketVars, workerVars, commandVars, Types, CommandTypes
  <2>2. LastCommand' /\ \A d \in Conns : (Listed(d)' <=> Listed(d)) /\ (Ending(d)' <=> Ending(d))
    BY <1>a, <2>1 DEF LastCommand, Listed, Ending
  <2>3. \A d \in Conns : (Noticed(d)' => Noticed(d)) /\ (Fresh(d)' <=> Fresh(d))
    BY <1>0, <2>1 DEF Noticed, Fresh
  <2>4. ASSUME NEW d \in Conns PROVE EndOnce(d)'
    BY <1>0, <1>a, <1>b, <1>c, <2>1, <2>2, <2>3 DEF EndOnce
  <2> QED BY <2>2, <2>4 DEF Life
<1>25. CASE SendAll
  <2>0. Sending /\ NextAnswer
    BY <1>25 DEF SendAll, Sending
  <2>1. /\ UNCHANGED <<object, w, told, m_CommandList, reg, events, fin, ready>>
        /\ cmd'.c \in {cmd.c, NoConn}
    BY <1>0, <1>25, <2>0, NextDue DEF SendAll, workerVars
  <2>2. LastCommand' /\ \A d \in Conns : (Listed(d)' <=> Listed(d)) /\ (Ending(d)' <=> Ending(d))
    BY <1>a, <2>1 DEF LastCommand, Listed, Ending
  <2>3. \A d \in Conns : (Noticed(d)' => Noticed(d)) /\ (Fresh(d)' <=> Fresh(d))
    BY <1>0, <2>1 DEF Noticed, Fresh
  <2>4. ASSUME NEW d \in Conns PROVE EndOnce(d)'
    BY <1>0, <1>a, <1>b, <1>c, <2>1, <2>2, <2>3 DEF EndOnce
  <2> QED BY <2>2, <2>4 DEF Life
<1>26. CASE SendAgain
  <2>0. PICK c \in Conns : c = cmd.c
    BY <1>0, <1>26 DEF SendAgain
  <2>1. /\ UNCHANGED <<object, told, m_CommandList, events, w, fin>>
        /\ ready' \in {ready, ready \cup {c}} /\ Sending /\ NextAnswer
        /\ reg' = [reg EXCEPT ![c] = "out"]
    BY <1>26, <2>0 DEF SendAgain, Sending, Ctl, socketVars, workerVars
  <2>2. LastCommand' /\ \A d \in Conns : (Listed(d)' <=> Listed(d)) /\ (Ending(d)' <=> Ending(d))
    BY <1>a, <2>1 DEF LastCommand, Listed, Ending
  <2>3. \A d \in Conns : (Noticed(d)' => Noticed(d)) /\ (Fresh(d)' <=> Fresh(d))
    BY <1>0, <2>1 DEF Noticed, Fresh
  <2>4. c \notin fin /\ cmd'.c \in {cmd.c, NoConn}
    BY <1>0, <1>b, <1>c, <2>0, <2>1, NextDue
  <2>5. \A d \in Conns \ {c} : reg'[d] = reg[d]
    BY <1>0, <2>1 DEF Types, EpollTypes
  <2>6. EndOnce(c)'
    BY <1>0, <1>a, <2>0, <2>1, <2>2, <2>3, <2>4 DEF EndOnce
  <2>7. ASSUME NEW d \in Conns \ {c} PROVE EndOnce(d)'
    BY <1>0, <1>a, <2>0, <2>1, <2>2, <2>3, <2>4, <2>5 DEF EndOnce
  <2> QED BY <2>2, <2>6, <2>7 DEF Life
<1>27. CASE UNCHANGED <<object, w, told, m_CommandList, reg, events, cmd, fin, ready>>
  <2>1. UNCHANGED <<object, w, told, m_CommandList, reg, events, cmd, fin, ready>>
    BY <1>27
  <2>2. LastCommand' /\ \A d \in Conns : (Listed(d)' <=> Listed(d)) /\ (Ending(d)' <=> Ending(d))
    BY <1>a, <2>1 DEF LastCommand, Listed, Ending
  <2>3. \A d \in Conns : (Noticed(d)' => Noticed(d)) /\ (Fresh(d)' <=> Fresh(d))
    BY <1>0, <2>1 DEF Noticed, Fresh
  <2>4. ASSUME NEW d \in Conns PROVE EndOnce(d)'
    BY <1>0, <1>a, <1>b, <1>c, <2>1, <2>2, <2>3 DEF EndOnce
  <2> QED BY <2>2, <2>4 DEF Life
<1> QED BY <1>1, <1>2, <1>3, <1>4, <1>5, <1>6, <1>7, <1>8, <1>9, <1>10, <1>11, <1>12, <1>13,
           <1>14, <1>15, <1>16, <1>17, <1>18, <1>19, <1>20, <1>21, <1>22, <1>23, <1>24, <1>25,
           <1>26, <1>27
           DEF Next, Worker, CommandHandler, Arrivals, vars, Ask, ClientClose, SendLeftPart,
               SendPart, SendReset, clientVars, socketVars, workerVars, sendVars, commandVars


-----------------------------------------------------------------------------
(* The theorems                                                            *)

LEMMA LifeAlways == ASSUME Waiting PROVE Spec => [](Basics /\ LifeOK)
<1>1. Init => LifeOK
  BY Names DEF Init, LifeOK, Life, LastCommand, EndOnce, Ending, Listed, Noticed
<1>2. Basics /\ LifeOK /\ [Next]_vars => LifeOK'
  BY LifeStep DEF LifeOK
<1> QED BY <1>1, <1>2, BasicsAlways, PTL DEF Spec

\* Whoever still uses a connection uses one that is there.
LEMMA LiveUsed == Basics /\ LifeOK => (Patient => UsesLive)
<1> SUFFICES ASSUME Basics, LifeOK, Patient,
                    NEW c \in Conns,
                    \/ w.c = c
                    \/ cmd.c = c
                    \/ \E e \in events : e[1] = c
                    \/ \E i \in 1 .. Len(m_CommandList) : m_CommandList[i].c = c
             PROVE  object[c] = "live"
  BY DEF UsesLive
<1>1. object[c] # "deleted"
  BY DEF LifeOK, Life, EndOnce, Listed, Noticed
<1>2. object[c] # "none"
  BY DEF Basics, NewOK, Fresh, Listed, Noticed
<1> QED BY <1>1, <1>2 DEF Basics, Types, ConnTypes

\* The worker and the command thread share the connections of clients that wait without
\* waiting for each other and without sending at the same time, and none is used after its
\* deletion while nobody leaves unanswered (easy_connection.cpp:417-470,
\* easy_session.cpp:46-47).
THEOREM ConnectionsShared ==
  ASSUME Waiting
  PROVE  Spec => []ConnectionsOK
<1>1. Basics /\ LifeOK => ConnectionsOK
  BY TypeHolds, NobodyStuck, LiveUsed DEF ConnectionsOK
<1> QED BY <1>1, LifeAlways, PTL

\* What a step tells the handler is what the contract allows next.
LEMMA ProtocolStep ==
  ASSUME Waiting, Basics, LifeOK, Patient, [Next]_vars
  PROVE  Protocol!Next \/ UNCHANGED told
<1>0. /\ Types /\ NewOK /\ \A c \in Conns : EndOnce(c)
      /\ w.at \in {"OnConnection", "recv", "OnData", "OnDisconnect", "SendMessage"} => w.c \in Conns
  BY HandsConns DEF Basics, LifeOK, Life
<1>1. ASSUME NEW c \in Conns, w.c = c, w.at \in {"OnData", "OnDisconnect"}
      PROVE  told[c] \in {"open", "talking"}
  <2>1. object[c] = "live" /\ ~Fresh(c) /\ told[c] # "lost"
    BY <1>0, <1>1 DEF NewOK, EndOnce, Fresh, Types, ConnTypes
  <2> QED BY <1>0, <2>1 DEF EndOnce, Types, ConnTypes
<1>2. CASE OnConnection
  <2>1. PICK c \in Conns : c = w.c
    BY <1>0, <1>2 DEF OnConnection
  <2>2. told[c] = "idle" /\ told' = [told EXCEPT ![c] = "open"]
    BY <1>0, <1>2, <2>1 DEF OnConnection, NewOK, Fresh
  <2> QED BY <2>2 DEF Protocol!Next, Protocol!OnConnection, Protocol!Tell
<1>3. CASE OnData
  <2>1. PICK c \in Conns : c = w.c
    BY <1>0, <1>3 DEF OnData
  <2>2. told[c] \in {"open", "talking"} /\ told' = [told EXCEPT ![c] = "talking"]
    BY <1>1, <1>3, <2>1 DEF OnData
  <2> QED BY <2>2 DEF Protocol!Next, Protocol!OnData, Protocol!Tell
<1>4. CASE OnDisconnect
  <2>1. PICK c \in Conns : c = w.c
    BY <1>0, <1>4 DEF OnDisconnect
  <2>2. told[c] \in {"open", "talking"} /\ told' = [told EXCEPT ![c] = "lost"]
    BY <1>1, <1>4, <2>1 DEF OnDisconnect
  <2> QED BY <2>2 DEF Protocol!Next, Protocol!OnDisconnect, Protocol!Tell
<1>5. CASE HandleOnDisconnect
  <2>1. /\ Current \in Commands /\ Current.c \in Conns /\ Current.kind = "ONDISCONNECT"
        /\ m_CommandList # <<>> /\ CommandTypes
    BY <1>0, <1>5, Handled DEF HandleOnDisconnect, Types
  <2>2. PICK c \in Conns : c = Current.c
    BY <2>1
  <2>3. Ending(c)
    <3>1. Current = m_CommandList[1] /\ 1 \in 1 .. Len(m_CommandList)
      BY <2>1, CurrentCommand
    <3> QED BY <2>1, <2>2, <3>1 DEF Ending
  <2>4. told[c] = "lost" /\ told' = [told EXCEPT ![c] = "idle"]
    BY <1>0, <1>5, <2>2, <2>3 DEF EndOnce, HandleOnDisconnect
  <2> QED BY <2>4 DEF Protocol!Next, Protocol!Close, Protocol!Tell
<1>6. CASE UNCHANGED told
  BY <1>6
<1> QED BY <1>2, <1>3, <1>4, <1>5, <1>6
        DEF Next, Worker, CommandHandler, Arrivals, vars, Connect, Ask, Read, ClientClose, Arrive,
            EndArrives, ResetArrives, EpollWait, NextRound, AcceptConnection, BeginRecv,
            BeginSendLeft, Recv, RecvNothing, SendLeftPart, SendLeftEnd, SendLeftFails,
            BeginBatch, EndBatch, HandleOnConnect, HandleOnData, SendData, SemWait, SendPart,
            SendAll, SendAgain, SendReset

\* While nobody leaves unanswered, the handler of any number of clients that wait is told of
\* each connection in the order of the contract (easy_handler.h, easy_session.cpp:46-47).
THEOREM HandlerIsToldInOrder ==
  ASSUME Waiting
  PROVE  Spec => FollowsProtocol
<1>1. Init => Protocol!Init
  BY DEF Init, Protocol!Init
<1>2. Basics /\ LifeOK /\ [Next]_vars => [Patient => Protocol!Next]_told
  <2> SUFFICES ASSUME Basics, LifeOK, [Next]_vars PROVE [Patient => Protocol!Next]_told
    OBVIOUS
  <2>1. CASE Patient
    BY <2>1, ProtocolStep
  <2>2. CASE ~Patient
    BY <2>2
  <2> QED BY <2>1, <2>2
<1> QED BY <1>1, <1>2, LifeAlways, PTL DEF Spec, FollowsProtocol

=============================================================================
