----------------------------- MODULE BaseClient -----------------------------
(***************************************************************************)
(* EasyBaseClient (midware/src) on SimpleConnection and SimpleWorker       *)
(* (simplenetwork/src): a program that logs in, sends and logs out, the    *)
(* thread that receives for it, and the command thread that handles what   *)
(* both have put into m_CommandList.  Main and receiving thread close the  *)
(* same blocking socket, and both report it.                               *)
(***************************************************************************)
EXTENDS Naturals, Sequences, SequencesExt

CONSTANTS
  DataMax,   \* bound: pieces of data from the server
  SendMax,   \* bound: sends that fail
  ListMax,   \* bound: with more commands in the list, CopyData gets no memory
  Faults     \* "Connect": connect fails; "Reset": the server resets the connection

ASSUME Bounds == /\ DataMax \in Nat /\ SendMax \in Nat /\ ListMax \in Nat
                 /\ Faults \subseteq {"Connect", "Reset"}

VARIABLES
  socket,    \* socket_: "none", "open" or "closed"
  server,    \* the other end: "none", "up", "ended" or "reset"
  sent, recvd,   \* pieces sent by the server, and received
  main,      \* the program: "new", "login", "in", "logout", "out"
  worker,    \* SimpleThread: "off", "select", "recv", "closing", "ended"
  call,      \* the command a callback on each of them is about to push
  fails,     \* sends that have failed
  m_CommandList,
  pc, pos,   \* the command thread, and where it is in the list
  ready,     \* m_bReadyForShutdown
  got,       \* history: the last piece given to the framing
  dropped,   \* history: the pieces CopyData got no memory for
  told       \* history: what was pushed about the connection

netVars == <<socket, server, sent, recvd>>
callVars == <<call, dropped>>
commandVars == <<m_CommandList, pc, pos, got>>
vars == <<netVars, main, worker, callVars, fails, commandVars, ready, told>>

Command(kind, n) == [kind |-> kind, n |-> n]
NoCall == Command("none", 0)
IsPiece(command) == command.kind = "ONDATA" /\ command.n > 0

Init ==
  /\ socket = "none" /\ server = "none" /\ sent = 0 /\ recvd = 0
  /\ main = "new" /\ worker = "off"
  /\ call = [t \in {"main", "worker"} |-> NoCall] /\ fails = 0
  /\ m_CommandList = <<>> /\ pc = "top" /\ pos = 1
  /\ ready = FALSE
  /\ got = 0 /\ dropped = {} /\ told = "idle"

\* A callback makes its command unless the client is about to shut down.
Callback(t, kind, n) ==
  /\ call' = IF ready THEN call ELSE [call EXCEPT ![t] = Command(kind, n)]
  /\ UNCHANGED dropped

OnData(n) ==
  IF Len(m_CommandList) < ListMax
    THEN Callback("worker", "ONDATA", n)
    ELSE UNCHANGED call /\ dropped' = dropped \cup {n}

\* SimpleConnection::Close: the socket may be closed already, and is reported again.
Close(t) == socket' = "closed" /\ Callback(t, "ONDISCONNECT", 0)

Free(t) == call[t] = NoCall

-----------------------------------------------------------------------------
(* The program: Login, SendData, Logout. *)

Connect ==
  /\ main = "new" /\ main' = "login"
  /\ socket' = "open" /\ server' = "up"
  /\ Callback("main", "ONCONNECT", 0)
  /\ UNCHANGED <<sent, recvd, worker, fails, commandVars, ready, told>>

\* Login logs the error and goes on.
ConnectFails ==
  /\ "Connect" \in Faults
  /\ main = "new" /\ main' = "login"
  /\ Close("main")
  /\ UNCHANGED <<server, sent, recvd, worker, fails, commandVars, ready, told>>

\* Mutant: the thread is started before OnConnection has pushed its command.
StartWorkerEarly ==
  /\ main = "login" /\ main' = "in"
  /\ worker' = "select"
  /\ UNCHANGED <<netVars, callVars, fails, commandVars, ready, told>>

StartWorker ==
  /\ main = "login" /\ Free("main") /\ main' = "in"
  /\ worker' = "select"
  /\ UNCHANGED <<netVars, callVars, fails, commandVars, ready, told>>

\* A send that succeeds changes nothing here.
SendFails ==
  /\ main = "in" /\ Free("main")
  /\ socket = "closed" \/ server = "reset"
  /\ fails < SendMax /\ fails' = fails + 1
  /\ Close("main")
  /\ UNCHANGED <<server, sent, recvd, main, worker, commandVars, ready, told>>

Logout ==
  /\ main = "in" /\ Free("main") /\ main' = "logout"
  /\ ready' = TRUE
  /\ UNCHANGED <<netVars, worker, callVars, fails, commandVars, told>>

\* Mutant: the socket is left to the destructor.
LogoutKeeps ==
  /\ main = "logout" /\ main' = "out"
  /\ Callback("main", "ONDISCONNECT", 0)
  /\ UNCHANGED <<netVars, worker, fails, commandVars, ready, told>>

LogoutCloses ==
  /\ main = "logout" /\ main' = "out"
  /\ Close("main")
  /\ UNCHANGED <<server, sent, recvd, worker, fails, commandVars, ready, told>>

-----------------------------------------------------------------------------
(* The server, and SimpleThread. *)

ServerSends ==
  /\ server = "up" /\ sent < DataMax
  /\ sent' = sent + 1
  /\ UNCHANGED <<socket, server, recvd, main, worker, callVars, fails, commandVars, ready, told>>

ServerEnds ==
  /\ server = "up"
  /\ server' \in {"ended"} \cup (IF "Reset" \in Faults THEN {"reset"} ELSE {})
  /\ UNCHANGED <<socket, sent, recvd, main, worker, callVars, fails, commandVars, ready, told>>

SelectReadable ==
  /\ worker = "select" /\ Free("worker") /\ worker' = "recv"
  /\ socket = "open" /\ (recvd < sent \/ server # "up")
  /\ UNCHANGED <<netVars, main, callVars, fails, commandVars, ready, told>>

\* select on a socket that was closed is an error.
SelectFails ==
  /\ worker = "select" /\ Free("worker") /\ worker' = "closing"
  /\ socket = "closed"
  /\ Close("worker")
  /\ UNCHANGED <<server, sent, recvd, main, fails, commandVars, ready, told>>

WorkerEnds ==
  /\ worker = "closing" /\ Free("worker") /\ worker' = "ended"
  /\ UNCHANGED <<netVars, main, callVars, fails, commandVars, ready, told>>

\* RecvData.  The end of the stream is returned to SimpleThread, which does not look.
Recv ==
  /\ worker = "recv" /\ worker' = "select"
  /\ socket = "open" /\ server # "reset"
  /\ IF recvd < sent
       THEN recvd' = recvd + 1 /\ OnData(recvd + 1)
       ELSE UNCHANGED <<recvd, callVars>>
  /\ UNCHANGED <<socket, server, sent, main, fails, commandVars, ready, told>>

\* recv fails: SOCKET_ERROR is the length OnData is called with, 2^32 - 1, of which
\* CopyData copies 2^16 - 1 bytes.  This piece is number 0.
RecvFails ==
  /\ worker = "recv" /\ worker' = "select"
  /\ socket = "closed" \/ server = "reset"
  /\ OnData(0)
  /\ UNCHANGED <<netVars, main, fails, commandVars, ready, told>>

-----------------------------------------------------------------------------
(* The command list and its thread, which has the mutex while it handles. *)

PushCommand(t) ==
  /\ ~Free(t) /\ pc # "batch"
  /\ m_CommandList' = Append(m_CommandList, call[t])
  /\ pc' = IF pc = "waiting" THEN "signalled" ELSE pc
  /\ call' = [call EXCEPT ![t] = NoCall]
  /\ told' = CASE call[t].kind = "ONCONNECT" -> "open"
               [] call[t].kind = "ONDATA" -> "talking"
               [] OTHER -> "lost"
  /\ UNCHANGED <<netVars, main, worker, fails, pos, got, dropped, ready>>

Wait ==
  /\ pc = "top" /\ pc' = "waiting"
  /\ UNCHANGED <<netVars, main, worker, callVars, fails, m_CommandList, pos, got, ready, told>>

\* A wait that ends by its timeout handles nothing.
TimesOut ==
  /\ pc \in {"waiting", "signalled"} /\ pc' = "top"
  /\ UNCHANGED <<netVars, main, worker, callVars, fails, m_CommandList, pos, got, ready, told>>

WakesUp ==
  /\ pc \in {"waiting", "signalled"} /\ pc' = "batch"
  /\ UNCHANGED <<netVars, main, worker, callVars, fails, m_CommandList, pos, got, ready, told>>

Handle ==
  /\ pc = "batch" /\ pos <= Len(m_CommandList)
  /\ got' = IF IsPiece(m_CommandList[pos]) /\ ~ready THEN m_CommandList[pos].n ELSE got
  /\ pos' = pos + 1
  /\ UNCHANGED <<netVars, main, worker, callVars, fails, m_CommandList, pc, ready, told>>

\* Mutant: the list is not cleared.
EndBatchUncleared ==
  /\ pc = "batch" /\ pos > Len(m_CommandList) /\ pc' = "top"
  /\ pos' = 1
  /\ UNCHANGED <<netVars, main, worker, callVars, fails, m_CommandList, got, ready, told>>

EndBatch ==
  /\ pc = "batch" /\ pos > Len(m_CommandList) /\ pc' = "top"
  /\ pos' = 1 /\ m_CommandList' = <<>>
  /\ UNCHANGED <<netVars, main, worker, callVars, fails, got, ready, told>>

-----------------------------------------------------------------------------
SimpleThread == SelectReadable \/ SelectFails \/ WorkerEnds \/ Recv \/ RecvFails
                \/ PushCommand("worker")

Program == \/ Connect \/ ConnectFails \/ StartWorker \/ SendFails
           \/ Logout \/ LogoutCloses \/ PushCommand("main")

CommandHandler == Wait \/ TimesOut \/ WakesUp \/ Handle \/ EndBatch

Next == Program \/ SimpleThread \/ CommandHandler \/ ServerSends \/ ServerEnds

Spec == Init /\ [][Next]_vars

\* The threads run; the program goes on with what it has begun.  PushCommand gets the
\* mutex in the end, which the command thread gives back again and again.
Fairness ==
  /\ WF_vars(SimpleThread) /\ SF_vars(PushCommand("worker"))
  /\ WF_vars(StartWorker \/ LogoutCloses) /\ SF_vars(PushCommand("main"))
  /\ WF_vars(Handle \/ EndBatch)

FairSpec == Spec /\ Fairness

-----------------------------------------------------------------------------
TypeOK ==
  /\ socket \in {"none", "open", "closed"} /\ server \in {"none", "up", "ended", "reset"}
  /\ sent \in 0 .. DataMax /\ recvd \in 0 .. sent /\ got \in 0 .. recvd
  /\ dropped \subseteq 0 .. recvd
  /\ main \in {"new", "login", "in", "logout", "out"}
  /\ worker \in {"off", "select", "recv", "closing", "ended"}
  /\ \A t \in {"main", "worker"} : call[t].n \in 0 .. sent
  /\ fails \in 0 .. SendMax
  /\ pc \in {"top", "waiting", "signalled", "batch"} /\ pos \in 1 .. Len(m_CommandList) + 1
  /\ ready \in BOOLEAN
  /\ told \in {"idle", "open", "talking", "lost"}

\* Commands pos .. Len(m_CommandList) + 1 are still to be handled: those in the list and
\* the one the receiving thread is about to push.
Coming(i) == Append(m_CommandList, call["worker"])[i]
ToCome == pos .. Len(m_CommandList) + 1

\* Until Logout every piece that was received, and that there was memory for, is given to
\* the framing once and in order (easy_baseclient.cpp:207), whatever else fails.
NothingLost ==
  /\ TypeOK
  /\ ~ready =>
       /\ \A k \in (got + 1 .. recvd) \ dropped :
            \E i \in ToCome : Coming(i) = Command("ONDATA", k)
       /\ \A i \in ToCome : IsPiece(Coming(i)) => Coming(i).n \in got + 1 .. recvd
       /\ \A i, j \in ToCome :
            i < j /\ IsPiece(Coming(i)) /\ IsPiece(Coming(j)) => Coming(i).n < Coming(j).n

\* What is pushed about the connection follows the contract of the handler
\* (easy_handler.h), as long as connect succeeds and the server does not reset.
Protocol == INSTANCE HandlerProtocol WITH Conns <- {"server"}, phase <- [c \in {"server"} |-> told]
Connected == server \in {"up", "ended"}
FollowsProtocol == Protocol!Init /\ [][Connected => Protocol!Next]_told

\* A piece of data is no longer than a receive can be (common.h:8-9).
DataLength ==
  \A i \in 1 .. Len(m_CommandList) : m_CommandList[i].kind = "ONDATA" => m_CommandList[i].n > 0

\* The receiving thread is started for a connection (easy_baseclient.cpp:100-102).
LoggedIn == worker # "off" => server # "none"

\* After Logout the receiving thread ends, wherever it was (simple_worker.cpp:29-34).
LogoutEnds == main = "out" ~> worker = "ended"

\* The client hears of it when the server has closed (simple_connection.cpp:49-53).
LostIsReported == server = "ended" /\ worker = "select" ~> told = "lost" \/ ready
=============================================================================
