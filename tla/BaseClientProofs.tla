--------------------------- MODULE BaseClientProofs ---------------------------
(***************************************************************************)
(* Proofs about BaseClient, for every number of pieces and of failing      *)
(* sends, any bound of the memory, and any set of faults: until Logout no  *)
(* piece that was received is lost, doubled or overtaken, and what is      *)
(* pushed about a connection follows HandlerProtocol.                      *)
(***************************************************************************)
EXTENDS BaseClient, SequenceTheorems, TLAPS

Threads == {"main", "worker"}
Commands == [kind : {"none", "ONCONNECT", "ONDATA", "ONDISCONNECT"}, n : 0 .. DataMax]

Types ==
  /\ TypeOK
  /\ call \in [Threads -> Commands]
  /\ m_CommandList \in Seq(Commands)

\* Who may be in a callback: the receiving thread only once it runs, never while it is
\* about to receive; and only it has pieces.  Between batches nothing of the list is done.
CallsOK ==
  /\ worker \in {"off", "recv"} => call["worker"] = NoCall
  /\ call["worker"].kind # "ONCONNECT"
  /\ ~IsPiece(call["main"])
  /\ pc # "batch" => pos = 1

PiecesFollow ==
  ~ready =>
    /\ \A k \in (got + 1 .. recvd) \ dropped :
         \E i \in ToCome : Coming(i) = Command("ONDATA", k)
    /\ \A i \in ToCome : IsPiece(Coming(i)) => Coming(i).n \in got + 1 .. recvd
    /\ \A i, j \in ToCome :
         i < j /\ IsPiece(Coming(i)) /\ IsPiece(Coming(j)) => Coming(i).n < Coming(j).n

\* While the connection is up the socket is only closed for a Logout, so nobody reports its
\* end; and the receiving thread runs only once OnConnection has pushed its command.
ToldOK ==
  /\ ready <=> main \in {"logout", "out"}
  /\ main = "new" => server = "none" /\ told = "idle" /\ call["main"] = NoCall /\ worker = "off"
  /\ Connected =>
       /\ main # "new"
       /\ ready \/ socket = "open"
       /\ call["main"] \in {NoCall, Command("ONCONNECT", 0)}
       /\ call["worker"] = NoCall \/ call["worker"].kind = "ONDATA"
       /\ told \in {"idle", "open", "talking"}
       /\ told = "idle" <=> call["main"] = Command("ONCONNECT", 0)
       /\ told = "idle" => worker = "off"

IInv == Types /\ CallsOK /\ PiecesFollow /\ ToldOK

-----------------------------------------------------------------------------
(* What is still to come, element by element. *)

LEMMA ComingIs ==
  ASSUME Types, NEW i \in 1 .. Len(m_CommandList) + 1
  PROVE  Coming(i) = IF i <= Len(m_CommandList) THEN m_CommandList[i] ELSE call["worker"]
<1>1. call["worker"] \in Commands
  BY DEF Types, Threads
<1> QED
  BY <1>1, AppendProperties DEF Types, Coming

LEMMA ComingIsNext ==
  ASSUME Types', NEW i \in (1 .. Len(m_CommandList) + 1)'
  PROVE  Coming(i)' = IF i <= Len(m_CommandList)' THEN m_CommandList[i]' ELSE call["worker"]'
<1>1. call["worker"]' \in Commands
  BY DEF Types, Threads
<1> QED
  BY <1>1, AppendProperties DEF Types, Coming

\* A step that leaves the pieces alone.
LEMMA FollowSame ==
  ASSUME IInv, Types', ~ready' => ~ready, dropped \subseteq dropped',
         m_CommandList' = m_CommandList, pos' = pos, got' = got, recvd' = recvd,
         \/ call'["worker"] = call["worker"]
         \/ ~IsPiece(call["worker"]) /\ ~IsPiece(call'["worker"])
  PROVE  PiecesFollow'
<1>1. \A i \in ToCome : i \in 1 .. Len(m_CommandList) + 1
  BY DEF ToCome, IInv, Types, TypeOK
<1>2. ToCome' = ToCome
  BY DEF ToCome
<1>3. \A i \in ToCome : \/ Coming(i)' = Coming(i)
                        \/ ~IsPiece(Coming(i)) /\ ~IsPiece(Coming(i)')
  <2>1. \A i \in 1 .. Len(m_CommandList) + 1 :
          Coming(i)' = IF i <= Len(m_CommandList) THEN m_CommandList[i] ELSE call'["worker"]
    BY ComingIsNext
  <2> QED
    BY <1>1, <2>1, ComingIs DEF IInv
<1>4. \A k : k \in (got + 1 .. recvd) => IsPiece(Command("ONDATA", k))
  BY DEF IsPiece, Command, IInv, Types, TypeOK
<1> QED
  BY <1>2, <1>3, <1>4 DEF IInv, PiecesFollow, IsPiece

-----------------------------------------------------------------------------
(* Every step. *)

\* The types.  A piece in the list has been received: PiecesFollow says which.
LEMMA TypesStep == IInv /\ [Next]_vars => Types'
<1> SUFFICES ASSUME IInv, [Next]_vars PROVE Types'
  OBVIOUS
<1>1. CASE Connect
  BY <1>1, Bounds DEF IInv, NoCall, Command, Types, TypeOK, Threads, Commands, Connect, Callback,
                      Command, netVars, callVars, commandVars
<1>2. CASE ConnectFails
  BY <1>2, Bounds DEF IInv, NoCall, Command, Types, TypeOK, Threads, Commands, ConnectFails,
                      Callback, Command, Close, netVars, callVars, commandVars
<1>3. CASE StartWorker
  BY <1>3, Bounds DEF IInv, NoCall, Command, Types, TypeOK, Threads, Commands, StartWorker,
                      netVars, callVars, commandVars
<1>4. CASE SendFails
  BY <1>4, Bounds DEF IInv, NoCall, Command, Types, TypeOK, Threads, Commands, SendFails,
                      Callback, Command, Close, netVars, callVars, commandVars
<1>5. CASE Logout
  BY <1>5, Bounds DEF IInv, NoCall, Command, Types, TypeOK, Threads, Commands, Logout, netVars,
                      callVars, commandVars
<1>6. CASE LogoutCloses
  BY <1>6, Bounds DEF IInv, NoCall, Command, Types, TypeOK, Threads, Commands, LogoutCloses,
                      Callback, Command, Close, netVars, callVars, commandVars
<1>7. CASE ServerSends
  BY <1>7, Bounds DEF IInv, NoCall, Command, Types, TypeOK, Threads, Commands, ServerSends,
                      netVars, callVars, commandVars
<1>8. CASE ServerEnds
  BY <1>8, Bounds DEF IInv, NoCall, Command, Types, TypeOK, Threads, Commands, ServerEnds,
                      netVars, callVars, commandVars
<1>9. CASE SelectReadable
  BY <1>9, Bounds DEF IInv, NoCall, Command, Types, TypeOK, Threads, Commands, SelectReadable,
                      netVars, callVars, commandVars
<1>10. CASE SelectFails
  BY <1>10, Bounds DEF IInv, NoCall, Command, Types, TypeOK, Threads, Commands, SelectFails,
                       Callback, Command, Close, netVars, callVars, commandVars
<1>11. CASE WorkerEnds
  BY <1>11, Bounds DEF IInv, NoCall, Command, Types, TypeOK, Threads, Commands, WorkerEnds,
                       netVars, callVars, commandVars
<1>12. CASE Recv
  <2>1. CASE recvd < sent
    <3>1. \A n \in 0 .. DataMax : Command("ONDATA", n) \in Commands
      BY DEF Command, Commands
    <3>2. recvd + 1 \in 0 .. sent /\ recvd' = recvd + 1 /\ sent' = sent /\ recvd \in Nat /\ sent \in 0 .. DataMax
      BY <1>12, <2>1, Bounds DEF IInv, Types, TypeOK, Recv, netVars
    <3>3. call' = call \/ call' = [call EXCEPT !["worker"] = Command("ONDATA", recvd + 1)]
      BY <1>12, <2>1 DEF Recv, OnData, Callback
    <3>4. call' \in [Threads -> Commands] /\ \A u \in Threads : call'[u].n \in 0 .. sent
      BY <3>1, <3>2, <3>3, Bounds DEF IInv, Types, TypeOK, Command, Threads
    <3>5. dropped' = dropped \/ dropped' = dropped \cup {recvd + 1}
      BY <1>12, <2>1 DEF Recv, OnData, Callback
    <3>6. dropped \subseteq 0 .. recvd
      BY DEF IInv, Types, TypeOK
    <3>7. dropped' \subseteq 0 .. recvd'
      <4>1. recvd + 1 \in 0 .. recvd + 1 /\ \A x \in 0 .. recvd : x \in 0 .. recvd + 1
        BY <3>2
      <4>2. \A x \in dropped' : x \in 0 .. recvd + 1
        BY <3>5, <3>6, <4>1
      <4> QED
        BY <4>2, <3>2
    <3> QED
      BY <1>12, <3>2, <3>4, <3>7, Bounds DEF IInv, Types, TypeOK, Threads, Recv, commandVars,
         netVars
  <2>2. CASE ~(recvd < sent)
    BY <1>12, <2>2, Bounds DEF IInv, Types, TypeOK, Threads, Recv, callVars, commandVars, netVars
  <2> QED
    BY <2>1, <2>2
<1>13. CASE RecvFails
  <2>1. \A n \in 0 .. DataMax : Command("ONDATA", n) \in Commands
    BY DEF Command, Commands
  <2>2. 0 \in 0 .. sent /\ recvd' = recvd /\ sent' = sent /\ recvd \in Nat /\ sent \in 0 .. DataMax
    BY <1>13, Bounds DEF IInv, Types, TypeOK, RecvFails, netVars
  <2>3. call' = call \/ call' = [call EXCEPT !["worker"] = Command("ONDATA", 0)]
    BY <1>13 DEF RecvFails, OnData, Callback
  <2>4. call' \in [Threads -> Commands] /\ \A u \in Threads : call'[u].n \in 0 .. sent
    BY <2>1, <2>2, <2>3, Bounds DEF IInv, Types, TypeOK, Command, Threads
  <2>5. dropped' = dropped \/ dropped' = dropped \cup {0}
    BY <1>13 DEF RecvFails, OnData, Callback
  <2>6. dropped \subseteq 0 .. recvd
    BY DEF IInv, Types, TypeOK
  <2>7. dropped' \subseteq 0 .. recvd'
    <3>1. 0 \in 0 .. recvd
      BY <2>2
    <3>2. \A x \in dropped' : x \in 0 .. recvd
      BY <2>5, <2>6, <3>1
    <3> QED
      BY <2>2, <3>2
  <2> QED
    BY <1>13, <2>2, <2>4, <2>7, Bounds DEF IInv, Types, TypeOK, Threads, RecvFails, commandVars,
                                           netVars
<1>14. CASE Wait
  BY <1>14, Bounds DEF IInv, NoCall, Command, Types, TypeOK, Threads, Commands, Wait, netVars,
                       callVars, commandVars
<1>15. CASE TimesOut
  BY <1>15, Bounds DEF IInv, NoCall, Command, Types, TypeOK, Threads, Commands, TimesOut,
                       netVars, callVars, commandVars
<1>16. CASE WakesUp
  BY <1>16, Bounds DEF IInv, NoCall, Command, Types, TypeOK, Threads, Commands, WakesUp, netVars,
                       callVars, commandVars
<1>17. CASE Handle
  <2>1. ~ready /\ IsPiece(m_CommandList[pos]) => m_CommandList[pos].n \in got + 1 .. recvd
    BY <1>17, ComingIs DEF IInv, Types, TypeOK, PiecesFollow, ToCome, Handle
  <2> QED
    BY <1>17, <2>1 DEF IInv, Types, TypeOK, Handle, netVars, callVars, commandVars
<1>18. CASE EndBatch
  BY <1>18, Bounds DEF IInv, NoCall, Command, Types, TypeOK, Threads, Commands, EndBatch,
                       netVars, callVars, commandVars
<1>19. ASSUME NEW t \in Threads, PushCommand(t) PROVE Types'
  <2>1. call[t] \in Commands /\ call[t].n \in 0 .. sent /\ NoCall \in Commands
    BY Bounds DEF IInv, Types, TypeOK, Threads, Commands, NoCall, Command
  <2>2. m_CommandList' \in Seq(Commands) /\ Len(m_CommandList') = Len(m_CommandList) + 1
    BY <1>19, <2>1, AppendProperties DEF IInv, Types, PushCommand
  <2>3. call' \in [Threads -> Commands] /\ \A u \in Threads : call'[u].n \in 0 .. sent
    BY <1>19, <2>1, Bounds DEF IInv, Types, TypeOK, PushCommand, NoCall, Command, Threads
  <2> QED
    BY <1>19, <2>2, <2>3 DEF IInv, Types, TypeOK, Threads, CallsOK, PushCommand, netVars
<1>20. CASE UNCHANGED vars
  BY <1>20 DEF IInv, NoCall, Command, Types, TypeOK, Threads, Commands, vars, netVars, callVars,
               commandVars
<1> QED
  BY <1>1, <1>2, <1>3, <1>4, <1>5, <1>6, <1>7, <1>8, <1>9, <1>10, <1>11, <1>12, <1>13, <1>14,
     <1>15, <1>16, <1>17, <1>18, <1>19, <1>20
  DEF Next, Program, SimpleThread, CommandHandler, Threads

\* Who is in a callback.
LEMMA CallsStep == IInv /\ [Next]_vars => CallsOK'
<1> SUFFICES ASSUME IInv, [Next]_vars PROVE CallsOK'
  OBVIOUS
<1>1. CASE Connect
  BY <1>1, Bounds DEF IInv, CallsOK, IsPiece, NoCall, Command, Free, Types, TypeOK, Threads,
                      Commands, Connect, Callback, Command, netVars, callVars, commandVars
<1>2. CASE ConnectFails
  BY <1>2, Bounds DEF IInv, CallsOK, IsPiece, NoCall, Command, Free, Types, TypeOK, Threads,
                      Commands, ConnectFails, Callback, Command, Close, netVars, callVars,
     commandVars
<1>3. CASE StartWorker
  BY <1>3, Bounds DEF IInv, CallsOK, IsPiece, NoCall, Command, Free, Types, TypeOK, Threads,
                      Commands, StartWorker, netVars, callVars, commandVars
<1>4. CASE SendFails
  BY <1>4, Bounds DEF IInv, CallsOK, IsPiece, NoCall, Command, Free, Types, TypeOK, Threads,
                      Commands, SendFails, Callback, Command, Close, netVars, callVars,
     commandVars
<1>5. CASE Logout
  BY <1>5, Bounds DEF IInv, CallsOK, IsPiece, NoCall, Command, Free, Types, TypeOK, Threads,
                      Commands, Logout, netVars, callVars, commandVars
<1>6. CASE LogoutCloses
  BY <1>6, Bounds DEF IInv, CallsOK, IsPiece, NoCall, Command, Free, Types, TypeOK, Threads,
                      Commands, LogoutCloses, Callback, Command, Close, netVars, callVars,
     commandVars
<1>7. CASE ServerSends
  BY <1>7, Bounds DEF IInv, CallsOK, IsPiece, NoCall, Command, Free, Types, TypeOK, Threads,
                      Commands, ServerSends, netVars, callVars, commandVars
<1>8. CASE ServerEnds
  BY <1>8, Bounds DEF IInv, CallsOK, IsPiece, NoCall, Command, Free, Types, TypeOK, Threads,
                      Commands, ServerEnds, netVars, callVars, commandVars
<1>9. CASE SelectReadable
  BY <1>9, Bounds DEF IInv, CallsOK, IsPiece, NoCall, Command, Free, Types, TypeOK, Threads,
                      Commands, SelectReadable, netVars, callVars, commandVars
<1>10. CASE SelectFails
  BY <1>10, Bounds DEF IInv, CallsOK, IsPiece, NoCall, Command, Free, Types, TypeOK, Threads,
                       Commands, SelectFails, Callback, Command, Close, netVars, callVars,
     commandVars
<1>11. CASE WorkerEnds
  BY <1>11, Bounds DEF IInv, CallsOK, IsPiece, NoCall, Command, Free, Types, TypeOK, Threads,
                       Commands, WorkerEnds, netVars, callVars, commandVars
<1>12. CASE Recv
  BY <1>12, Bounds DEF IInv, CallsOK, IsPiece, NoCall, Command, Free, Types, TypeOK, Threads,
                       Commands, Recv, Callback, Command, OnData, netVars, callVars, commandVars
<1>13. CASE RecvFails
  BY <1>13, Bounds DEF IInv, CallsOK, IsPiece, NoCall, Command, Free, Types, TypeOK, Threads,
                       Commands, RecvFails, Callback, Command, OnData, netVars, callVars,
     commandVars
<1>14. CASE Wait
  BY <1>14, Bounds DEF IInv, CallsOK, IsPiece, NoCall, Command, Free, Types, TypeOK, Threads,
                       Commands, Wait, netVars, callVars, commandVars
<1>15. CASE TimesOut
  BY <1>15, Bounds DEF IInv, CallsOK, IsPiece, NoCall, Command, Free, Types, TypeOK, Threads,
                       Commands, TimesOut, netVars, callVars, commandVars
<1>16. CASE WakesUp
  BY <1>16, Bounds DEF IInv, CallsOK, IsPiece, NoCall, Command, Free, Types, TypeOK, Threads,
                       Commands, WakesUp, netVars, callVars, commandVars
<1>17. CASE Handle
  BY <1>17, Bounds DEF IInv, CallsOK, IsPiece, NoCall, Command, Free, Types, TypeOK, Threads,
                       Commands, Handle, netVars, callVars, commandVars
<1>18. CASE EndBatch
  BY <1>18, Bounds DEF IInv, CallsOK, IsPiece, NoCall, Command, Free, Types, TypeOK, Threads,
                       Commands, EndBatch, netVars, callVars, commandVars
<1>19. ASSUME NEW t \in Threads, PushCommand(t) PROVE CallsOK'
  BY <1>19 DEF IInv, CallsOK, IsPiece, NoCall, Command, PushCommand, netVars, callVars,
               commandVars, Free, Types, TypeOK, Threads, Commands
<1>20. CASE UNCHANGED vars
  BY <1>20 DEF IInv, CallsOK, IsPiece, NoCall, Command, Free, Types, TypeOK, Threads, Commands,
               vars, netVars, callVars, commandVars
<1> QED
  BY <1>1, <1>2, <1>3, <1>4, <1>5, <1>6, <1>7, <1>8, <1>9, <1>10, <1>11, <1>12, <1>13, <1>14,
     <1>15, <1>16, <1>17, <1>18, <1>19, <1>20
  DEF Next, Program, SimpleThread, CommandHandler, Threads

\* What has been said of the connection.
LEMMA ToldStep == IInv /\ [Next]_vars => ToldOK'
<1> SUFFICES ASSUME IInv, [Next]_vars PROVE ToldOK'
  OBVIOUS
<1>1. CASE Connect
  BY <1>1, Bounds DEF IInv, ToldOK, CallsOK, Connected, NoCall, Command, Free, Types, TypeOK,
                      Threads, Commands, Connect, Callback, Command, netVars, callVars,
     commandVars
<1>2. CASE ConnectFails
  BY <1>2, Bounds DEF IInv, ToldOK, CallsOK, Connected, NoCall, Command, Free, Types, TypeOK,
                      Threads, Commands, ConnectFails, Callback, Command, Close, netVars,
     callVars, commandVars
<1>3. CASE StartWorker
  BY <1>3, Bounds DEF IInv, ToldOK, CallsOK, Connected, NoCall, Command, Free, Types, TypeOK,
                      Threads, Commands, StartWorker, netVars, callVars, commandVars
<1>4. CASE SendFails
  BY <1>4, Bounds DEF IInv, ToldOK, CallsOK, Connected, NoCall, Command, Free, Types, TypeOK,
                      Threads, Commands, SendFails, Callback, Command, Close, netVars, callVars,
     commandVars
<1>5. CASE Logout
  BY <1>5, Bounds DEF IInv, ToldOK, CallsOK, Connected, NoCall, Command, Free, Types, TypeOK,
                      Threads, Commands, Logout, netVars, callVars, commandVars
<1>6. CASE LogoutCloses
  BY <1>6, Bounds DEF IInv, ToldOK, CallsOK, Connected, NoCall, Command, Free, Types, TypeOK,
                      Threads, Commands, LogoutCloses, Callback, Command, Close, netVars,
     callVars, commandVars
<1>7. CASE ServerSends
  BY <1>7, Bounds DEF IInv, ToldOK, CallsOK, Connected, NoCall, Command, Free, Types, TypeOK,
                      Threads, Commands, ServerSends, netVars, callVars, commandVars
<1>8. CASE ServerEnds
  BY <1>8, Bounds DEF IInv, ToldOK, CallsOK, Connected, NoCall, Command, Free, Types, TypeOK,
                      Threads, Commands, ServerEnds, netVars, callVars, commandVars
<1>9. CASE SelectReadable
  BY <1>9, Bounds DEF IInv, ToldOK, CallsOK, Connected, NoCall, Command, Free, Types, TypeOK,
                      Threads, Commands, SelectReadable, netVars, callVars, commandVars
<1>10. CASE SelectFails
  BY <1>10, Bounds DEF IInv, ToldOK, CallsOK, Connected, NoCall, Command, Free, Types, TypeOK,
                       Threads, Commands, SelectFails, Callback, Command, Close, netVars,
     callVars, commandVars
<1>11. CASE WorkerEnds
  BY <1>11, Bounds DEF IInv, ToldOK, CallsOK, Connected, NoCall, Command, Free, Types, TypeOK,
                       Threads, Commands, WorkerEnds, netVars, callVars, commandVars
<1>12. CASE Recv
  BY <1>12, Bounds DEF IInv, ToldOK, CallsOK, Connected, NoCall, Command, Free, Types, TypeOK,
                       Threads, Commands, Recv, Callback, Command, OnData, netVars, callVars,
     commandVars
<1>13. CASE RecvFails
  BY <1>13, Bounds DEF IInv, ToldOK, CallsOK, Connected, NoCall, Command, Free, Types, TypeOK,
                       Threads, Commands, RecvFails, Callback, Command, OnData, netVars,
     callVars, commandVars
<1>14. CASE Wait
  BY <1>14, Bounds DEF IInv, ToldOK, CallsOK, Connected, NoCall, Command, Free, Types, TypeOK,
                       Threads, Commands, Wait, netVars, callVars, commandVars
<1>15. CASE TimesOut
  BY <1>15, Bounds DEF IInv, ToldOK, CallsOK, Connected, NoCall, Command, Free, Types, TypeOK,
                       Threads, Commands, TimesOut, netVars, callVars, commandVars
<1>16. CASE WakesUp
  BY <1>16, Bounds DEF IInv, ToldOK, CallsOK, Connected, NoCall, Command, Free, Types, TypeOK,
                       Threads, Commands, WakesUp, netVars, callVars, commandVars
<1>17. CASE Handle
  BY <1>17, Bounds DEF IInv, ToldOK, CallsOK, Connected, NoCall, Command, Free, Types, TypeOK,
                       Threads, Commands, Handle, netVars, callVars, commandVars
<1>18. CASE EndBatch
  BY <1>18, Bounds DEF IInv, ToldOK, CallsOK, Connected, NoCall, Command, Free, Types, TypeOK,
                       Threads, Commands, EndBatch, netVars, callVars, commandVars
<1>19. ASSUME NEW t \in Threads, PushCommand(t) PROVE ToldOK'
  <2> USE <1>19 DEF IInv, ToldOK, CallsOK, Connected, IsPiece, NoCall, Command, PushCommand, netVars, Free, Types, TypeOK, Threads, Commands
  <2>1. CASE t = "main"
    BY <2>1
  <2>2. CASE t = "worker"
    BY <2>2
  <2> QED
    BY <2>1, <2>2
<1>20. CASE UNCHANGED vars
  BY <1>20 DEF IInv, ToldOK, CallsOK, Connected, NoCall, Command, Free, Types, TypeOK, Threads,
               Commands, vars, netVars, callVars, commandVars
<1> QED
  BY <1>1, <1>2, <1>3, <1>4, <1>5, <1>6, <1>7, <1>8, <1>9, <1>10, <1>11, <1>12, <1>13, <1>14,
     <1>15, <1>16, <1>17, <1>18, <1>19, <1>20
  DEF Next, Program, SimpleThread, CommandHandler, Threads

\* A receive: the next piece is the callback's, or there is no memory for it.
LEMMA RecvFollow == ASSUME IInv, Types', Recv PROVE PiecesFollow'
<1> USE DEF IInv, Types, TypeOK
<1>1. Len(m_CommandList) \in Nat
  BY LenProperties
<1>2. m_CommandList' = m_CommandList /\ pos' = pos /\ got' = got /\ ready' = ready
  BY DEF Recv, commandVars
<1>3. CASE ~(recvd < sent) \/ ready
  <2>1. ~ready => call' = call /\ dropped' = dropped /\ recvd' = recvd
    BY <1>3 DEF Recv, callVars
  <2>2. CASE ready
    BY <1>2, <2>2 DEF PiecesFollow
  <2> QED
    BY <1>2, <2>1, <2>2, FollowSame
<1>4. CASE recvd < sent /\ ~ready
  <2> USE <1>4
  <2>1. recvd' = recvd + 1
    BY DEF Recv
  <2>2. \/ call' = [call EXCEPT !["worker"] = Command("ONDATA", recvd + 1)] /\ dropped' = dropped
        \/ call' = call /\ dropped' = dropped \cup {recvd + 1}
    BY DEF Recv, OnData, Callback
  <2>3. call["worker"] = NoCall /\ ~IsPiece(NoCall)
    BY DEF Recv, CallsOK, IsPiece, NoCall, Command
  <2>4. \A i \in ToCome : i \in 1 .. Len(m_CommandList) + 1
    BY DEF ToCome
  <2>5. ToCome' = ToCome /\ Len(m_CommandList) + 1 \in ToCome
    BY <1>2 DEF ToCome
  <2>6. \A i \in ToCome : Coming(i) = IF i <= Len(m_CommandList) THEN m_CommandList[i] ELSE NoCall
    BY <2>3, <2>4, ComingIs
  <2>7. \A i \in ToCome :
          Coming(i)' = IF i <= Len(m_CommandList) THEN m_CommandList[i] ELSE call'["worker"]
    <3>1. \A i \in 1 .. Len(m_CommandList) + 1 :
          Coming(i)' = IF i <= Len(m_CommandList) THEN m_CommandList[i] ELSE call'["worker"]
      BY <1>2, ComingIsNext
    <3> QED
      BY <3>1, <2>4
  <2>8. \A k \in got + 1 .. recvd + 1 : IsPiece(Command("ONDATA", k)) /\ Command("ONDATA", k).n = k
    BY DEF IsPiece, Command
  <2>9. CASE call' = [call EXCEPT !["worker"] = Command("ONDATA", recvd + 1)] /\ dropped' = dropped
    <3>1. call'["worker"] = Command("ONDATA", recvd + 1)
      BY <2>9 DEF Threads
    <3>2. \A k \in (got + 1 .. recvd + 1) \ dropped :
            \E i \in ToCome : Coming(i)' = Command("ONDATA", k)
      <4> TAKE k \in (got + 1 .. recvd + 1) \ dropped
      <4>1. CASE k = recvd + 1
        <5>1. PICK i \in ToCome : i = Len(m_CommandList) + 1
          BY <2>5
        <5>2. ~(i <= Len(m_CommandList))
          BY <1>1, <5>1
        <5>3. Coming(i)' = call'["worker"]
          BY <5>2, <2>7, Zenon
        <5> QED
          BY <5>3, <4>1, <3>1, Zenon
      <4>2. CASE k # recvd + 1
        <5>1. PICK i \in ToCome : Coming(i) = Command("ONDATA", k)
          BY <4>2 DEF PiecesFollow
        <5>2. i <= Len(m_CommandList)
          BY <5>1, <2>3, <2>6, <2>8
        <5> QED
          BY <5>1, <5>2, <2>6, <2>7
      <4> QED
        BY <4>1, <4>2
    <3>3. \A i \in ToCome : IsPiece(Coming(i)') => Coming(i)'.n \in got + 1 .. recvd + 1
      <4> TAKE i \in ToCome
      <4>1. CASE i <= Len(m_CommandList)
        <5>1. Coming(i)' = Coming(i)
          BY <4>1, <2>6, <2>7
        <5>2. IsPiece(Coming(i)) => Coming(i).n \in got + 1 .. recvd
          BY DEF PiecesFollow
        <5>3. \A k \in got + 1 .. recvd : k \in got + 1 .. recvd + 1
          BY <1>4
        <5> QED
          BY <5>1, <5>2, <5>3, Zenon
      <4>2. CASE ~(i <= Len(m_CommandList))
        <5>1. Coming(i)' = Command("ONDATA", recvd + 1)
          BY <4>2, <2>7, <3>1
        <5> QED
          BY <5>1, <2>8 DEF Command
      <4> QED
        BY <4>1, <4>2
    <3>4. \A i, j \in ToCome : i < j /\ IsPiece(Coming(i)') /\ IsPiece(Coming(j)')
                                 => Coming(i)'.n < Coming(j)'.n
      <4> SUFFICES ASSUME NEW i \in ToCome, NEW j \in ToCome, i < j,
                          IsPiece(Coming(i)'), IsPiece(Coming(j)')
                   PROVE  Coming(i)'.n < Coming(j)'.n
        OBVIOUS
      <4>1. i <= Len(m_CommandList) /\ Coming(i)' = Coming(i)
        <5>1. i \in 1 .. Len(m_CommandList) + 1 /\ j \in 1 .. Len(m_CommandList) + 1
          BY <2>4
        <5>2. i <= Len(m_CommandList)
          BY <5>1, <1>1
        <5> QED
          BY <5>2, <2>6, <2>7
      <4>2. CASE j <= Len(m_CommandList)
        <5>1. Coming(j)' = Coming(j)
          BY <4>2, <2>6, <2>7
        <5>2. IsPiece(Coming(i)) /\ IsPiece(Coming(j))
          BY <4>1, <5>1, Zenon
        <5>3. Coming(i).n < Coming(j).n
          BY <5>2, Zenon DEF PiecesFollow
        <5> QED
          BY <4>1, <5>1, <5>3, Zenon
      <4>3. CASE ~(j <= Len(m_CommandList))
        <5>1. Coming(j)'.n = recvd + 1
          BY <4>3, <2>7, <2>8, <3>1
        <5> QED
          <6>1. Coming(i).n \in got + 1 .. recvd
            BY <4>1 DEF PiecesFollow
          <6>2. recvd \in Nat /\ got \in Nat
            BY Bounds
          <6> HIDE DEF IInv, Types, TypeOK
          <6> QED
            BY <5>1, <6>1, <6>2, <4>1
      <4> QED
        BY <4>2, <4>3
    <3> QED
      BY <1>2, <2>1, <2>5, <2>9, <3>2, <3>3, <3>4 DEF PiecesFollow
  <2>10. CASE call' = call /\ dropped' = dropped \cup {recvd + 1}
    <3>1. \A i \in ToCome : Coming(i)' = Coming(i)
      BY <2>3, <2>6, <2>7, <2>10
    <3>2. \A k \in (got + 1 .. recvd + 1) \ dropped' : k \in (got + 1 .. recvd) \ dropped
      BY <2>10
    <3>3. \A k \in got + 1 .. recvd : k \in got + 1 .. recvd + 1
      OBVIOUS
    <3> QED
      BY <1>2, <2>1, <2>5, <3>1, <3>2, <3>3 DEF PiecesFollow
  <2> QED
    BY <2>2, <2>9, <2>10
<1> QED
  BY <1>3, <1>4

\* A command is pushed: the receiving thread's goes to the end, the program's before it.
LEMMA PushFollow ==
  ASSUME IInv, Types', NEW t \in Threads, PushCommand(t) PROVE PiecesFollow'
<1>1. PICK len \in Nat : len = Len(m_CommandList)
  BY LenProperties DEF IInv, Types
<1>2. len \in Nat /\ call[t] \in Commands /\ m_CommandList \in Seq(Commands) /\ Types
  BY DEF IInv, Types
<1>3. got \in Nat /\ recvd \in Nat /\ PiecesFollow /\ CallsOK /\ t \in {"main", "worker"}
      /\ call \in [Threads -> Commands]
  BY Bounds DEF IInv, Types, TypeOK, Threads
<1>4. UNCHANGED <<pos, got, recvd, ready, dropped>> /\ pos = 1
  BY <1>3 DEF PushCommand, netVars, CallsOK
<1>5. m_CommandList' = Append(m_CommandList, call[t]) /\ Len(m_CommandList') = len + 1
  BY <1>2, <1>1, AppendProperties DEF PushCommand
<1>6. \A i \in 1 .. len + 1 : m_CommandList'[i] = IF i <= len THEN m_CommandList[i] ELSE call[t]
  <2>1. /\ \A i \in 1 .. len : Append(m_CommandList, call[t])[i] = m_CommandList[i]
        /\ Append(m_CommandList, call[t])[len + 1] = call[t]
    BY <1>2, <1>1, AppendProperties
  <2> QED
    BY <1>2, <1>1, <1>5, <2>1
<1>7. \A i \in 1 .. len + 1 : Coming(i) = IF i <= len THEN m_CommandList[i] ELSE call["worker"]
  BY <1>2, <1>1, ComingIs
<1>8. \A i \in 1 .. len + 2 :
        Coming(i)' = IF i <= len + 1 THEN m_CommandList'[i] ELSE call'["worker"]
  <2>1. \A i \in 1 .. Len(m_CommandList') + 1 :
          Coming(i)' = IF i <= Len(m_CommandList') THEN m_CommandList'[i] ELSE call'["worker"]
    BY ComingIsNext
  <2> QED
    BY <1>2, <1>1, <1>5, <2>1
<1>9. ToCome = 1 .. len + 1 /\ ToCome' = 1 .. len + 2
  BY <1>4, <1>5, <1>1 DEF ToCome
<1>10. \A k \in got + 1 .. recvd : IsPiece(Command("ONDATA", k))
  BY <1>3 DEF IsPiece, Command
<1>11. CASE t = "worker"
  <2>1. call'["worker"] = NoCall /\ ~IsPiece(NoCall)
    BY <1>11, <1>3 DEF PushCommand, Threads, NoCall, Command, IsPiece
  <2>2. \A i \in 1 .. len + 1 : Coming(i)' = Coming(i)
    BY <1>2, <1>1, <1>6, <1>7, <1>8, <1>11
  <2>3. Coming(len + 2)' = NoCall
    BY <1>2, <1>1, <1>8, <2>1
  <2>4. \A i \in ToCome' : i \in ToCome \/ i = len + 2
    BY <1>2, <1>1, <1>9
  <2>5. \A i \in ToCome : i \in ToCome'
    BY <1>2, <1>1, <1>9
  <2>6. \A i, j \in ToCome' :
          i < j /\ IsPiece(Coming(i)') /\ IsPiece(Coming(j)') => i \in ToCome /\ j \in ToCome
    BY <2>1, <2>3, <2>4
  <2> QED
    BY <1>3, <1>4, <1>10, <2>6, <1>9, <2>1, <2>2, <2>3, <2>4, <2>5 DEF PiecesFollow
<1>12. CASE t = "main"
  <2>1. call'["worker"] = call["worker"] /\ ~IsPiece(call["main"])
    BY <1>12, <1>3 DEF PushCommand, Threads, CallsOK
  <2> DEFINE old(i) == IF i = len + 2 THEN len + 1 ELSE i
  <2>2. ~IsPiece(Coming(len + 1)')
    BY <1>2, <1>1, <1>6, <1>8, <1>12, <2>1
  <2>3. \A i \in ToCome' : i # len + 1 => old(i) \in ToCome /\ Coming(i)' = Coming(old(i))
    <3> SUFFICES ASSUME NEW i \in ToCome', i # len + 1
                 PROVE  old(i) \in ToCome /\ Coming(i)' = Coming(old(i))
      OBVIOUS
    <3>1. CASE i = len + 2
      BY <3>1, <1>2, <1>1, <1>7, <1>8, <1>9, <2>1
    <3>2. CASE i # len + 2
      BY <3>2, <1>2, <1>1, <1>6, <1>7, <1>8, <1>9, <2>1
    <3> QED
      BY <3>1, <3>2
  <2>4. \A i \in ToCome : \E j \in ToCome' : Coming(j)' = Coming(i)
    <3> TAKE i \in ToCome
    <3>1. CASE i = len + 1
      <4>1. len + 2 \in ToCome' /\ Coming(len + 2)' = Coming(i)
        BY <3>1, <1>2, <1>7, <1>8, <1>9, <2>1
      <4> QED
        BY <4>1
    <3>2. CASE i # len + 1
      <4>1. i \in ToCome' /\ Coming(i)' = Coming(i)
        BY <3>2, <1>2, <1>6, <1>7, <1>8, <1>9
      <4> QED
        BY <4>1
    <3> QED
      BY <3>1, <3>2
  <2>5. \A i, j \in ToCome' : i # len + 1 /\ j # len + 1 /\ i < j => old(i) < old(j)
    BY <1>2, <1>1, <1>9
  <2>6. ~ready => \A k \in (got + 1 .. recvd) \ dropped :
                    \E i \in ToCome' : Coming(i)' = Command("ONDATA", k)
    BY <1>3, <2>4, <1>4 DEF PiecesFollow
  <2>7. \A i \in ToCome' : IsPiece(Coming(i)') => i # len + 1
    BY <2>2
  <2> HIDE DEF old
  <2> QED
    BY <1>3, <1>4, <2>7, <2>3, <2>5, <2>6 DEF PiecesFollow
<1> QED
  BY <1>3, <1>11, <1>12

\* A command is handled: a piece is the next one, or those before it found no memory.
LEMMA HandleFollow == ASSUME IInv, Types', Handle PROVE PiecesFollow'
<1> USE DEF IInv, Types, TypeOK
<1>1. /\ UNCHANGED <<m_CommandList, call, recvd, ready, dropped>>
      /\ pos' = pos + 1 /\ pos <= Len(m_CommandList)
  BY DEF Handle, netVars, callVars
<1>2. \A i : Coming(i)' = Coming(i)
  BY <1>1 DEF Coming
<1>3. /\ \A i \in ToCome' : i \in ToCome /\ pos < i
      /\ \A i \in ToCome : i = pos \/ i \in ToCome'
      /\ pos \in ToCome
  BY <1>1 DEF ToCome
<1>4. Coming(pos) = m_CommandList[pos]
  BY <1>1, ComingIs
<1>5. CASE ready
  BY <1>1, <1>5 DEF PiecesFollow
<1>6. CASE ~ready /\ ~IsPiece(m_CommandList[pos])
  <2>1. got' = got
    BY <1>6 DEF Handle
  <2>2. \A k \in got + 1 .. recvd : IsPiece(Command("ONDATA", k))
    BY DEF IsPiece, Command
  <2> QED
    BY <1>1, <1>2, <1>3, <1>4, <1>6, <2>1, <2>2 DEF PiecesFollow
<1>7. CASE ~ready /\ IsPiece(m_CommandList[pos])
  <2> DEFINE n == m_CommandList[pos].n
  <2>1. got' = n
    BY <1>7 DEF Handle
  <2>2. n \in got + 1 .. recvd
    BY <1>3, <1>4, <1>7 DEF PiecesFollow
  <2> HIDE DEF n
  <2>3. got \in Nat /\ recvd \in Nat /\ n \in Nat
    BY <2>2, Bounds
  <2>4. \A i \in ToCome' : IsPiece(Coming(i)) => Coming(i).n \in n + 1 .. recvd
    <3>1. \A i \in ToCome' : IsPiece(Coming(i)) => n < Coming(i).n /\ Coming(i).n \in got + 1 .. recvd
      BY <1>3, <1>4, <1>7 DEF PiecesFollow, n
    <3>2. \A x \in got + 1 .. recvd : n < x => x \in n + 1 .. recvd
      BY <2>3
    <3> QED
      BY <3>1, <3>2
  <2>5. \A k \in (n + 1 .. recvd) \ dropped : \E i \in ToCome' : Coming(i) = Command("ONDATA", k)
    <3> TAKE k \in (n + 1 .. recvd) \ dropped
    <3>1. k \in (got + 1 .. recvd) \ dropped /\ k # n
      <4> HIDE DEF IInv, Types, TypeOK
      <4> QED
        BY <2>2, <2>3
    <3>2. PICK i \in ToCome : Coming(i) = Command("ONDATA", k)
      BY <1>7, <3>1 DEF PiecesFollow
    <3>3. i # pos
      <4>1. Coming(i).n = k
        BY <3>2 DEF Command
      <4>2. Coming(pos).n = n
        BY <1>4, Zenon DEF n
      <4> QED
        BY <3>1, <4>1, <4>2, Zenon
    <3> QED
      BY <3>2, <3>3, <1>3
  <2> QED
    BY <1>1, <1>2, <1>3, <1>7, <2>1, <2>4, <2>5 DEF PiecesFollow
<1> QED
  BY <1>5, <1>6, <1>7

\* The list is cleared once all of it has been handled.
LEMMA EndBatchFollow == ASSUME IInv, Types', EndBatch PROVE PiecesFollow'
<1> USE DEF IInv, Types, TypeOK
<1>1. /\ UNCHANGED <<call, got, recvd, ready, dropped>>
      /\ pos' = 1 /\ m_CommandList' = <<>> /\ pos = Len(m_CommandList) + 1
  BY DEF EndBatch, netVars, callVars
<1>2. ToCome = {pos} /\ ToCome' = {1}
  BY <1>1 DEF ToCome
<1>3. Coming(1)' = call["worker"]
  <2>1. 1 \in (1 .. Len(m_CommandList) + 1)' /\ Len(m_CommandList)' = 0
    BY <1>1
  <2> QED
    BY <1>1, <2>1, ComingIsNext
<1>4. Coming(pos) = call["worker"]
  BY <1>1, ComingIs
<1> QED
  BY <1>1, <1>2, <1>3, <1>4 DEF PiecesFollow

\* The pieces.
LEMMA FollowStep == IInv /\ [Next]_vars => PiecesFollow'
<1> SUFFICES ASSUME IInv, [Next]_vars PROVE PiecesFollow'
  OBVIOUS
<1>1. CASE Connect
  BY <1>1, FollowSame, TypesStep DEF Connect, Callback, IInv, CallsOK, IsPiece, NoCall, Command,
                                     Free, netVars, callVars, commandVars, Types, Threads
<1>2. CASE ConnectFails
  BY <1>2, FollowSame, TypesStep DEF ConnectFails, Callback, Close, IInv, CallsOK, IsPiece,
                                     NoCall, Command, Free, netVars, callVars, commandVars,
     Types, Threads
<1>3. CASE StartWorker
  BY <1>3, FollowSame, TypesStep DEF StartWorker, IInv, CallsOK, IsPiece, NoCall, Command, Free,
                                     netVars, callVars, commandVars, Types, Threads
<1>4. CASE SendFails
  BY <1>4, FollowSame, TypesStep DEF SendFails, Callback, Close, IInv, CallsOK, IsPiece, NoCall,
                                     Command, Free, netVars, callVars, commandVars, Types, Threads
<1>5. CASE Logout
  BY <1>5, FollowSame, TypesStep DEF Logout, IInv, CallsOK, IsPiece, NoCall, Command, Free,
                                     netVars, callVars, commandVars, Types, Threads
<1>6. CASE LogoutCloses
  BY <1>6, FollowSame, TypesStep DEF LogoutCloses, Callback, Close, IInv, CallsOK, IsPiece,
                                     NoCall, Command, Free, netVars, callVars, commandVars,
     Types, Threads
<1>7. CASE ServerSends
  BY <1>7, FollowSame, TypesStep DEF ServerSends, IInv, CallsOK, IsPiece, NoCall, Command, Free,
                                     netVars, callVars, commandVars, Types, Threads
<1>8. CASE ServerEnds
  BY <1>8, FollowSame, TypesStep DEF ServerEnds, IInv, CallsOK, IsPiece, NoCall, Command, Free,
                                     netVars, callVars, commandVars, Types, Threads
<1>9. CASE SelectReadable
  BY <1>9, FollowSame, TypesStep DEF SelectReadable, IInv, CallsOK, IsPiece, NoCall, Command,
                                     Free, netVars, callVars, commandVars, Types, Threads
<1>10. CASE SelectFails
  BY <1>10, FollowSame, TypesStep DEF SelectFails, Callback, Close, IInv, CallsOK, IsPiece,
                                      NoCall, Command, Free, netVars, callVars, commandVars,
     Types, Threads
<1>11. CASE WorkerEnds
  BY <1>11, FollowSame, TypesStep DEF WorkerEnds, IInv, CallsOK, IsPiece, NoCall, Command, Free,
                                      netVars, callVars, commandVars, Types, Threads
<1>12. CASE Recv
  BY <1>12, RecvFollow, TypesStep
<1>13. CASE RecvFails
  BY <1>13, FollowSame, TypesStep DEF RecvFails, Callback, OnData, IInv, CallsOK, IsPiece,
                                      NoCall, Command, Free, netVars, callVars, commandVars,
     Types, Threads
<1>14. CASE Wait
  BY <1>14, FollowSame, TypesStep DEF Wait, IInv, CallsOK, IsPiece, NoCall, Command, Free,
                                      netVars, callVars, commandVars, Types, Threads
<1>15. CASE TimesOut
  BY <1>15, FollowSame, TypesStep DEF TimesOut, IInv, CallsOK, IsPiece, NoCall, Command, Free,
                                      netVars, callVars, commandVars, Types, Threads
<1>16. CASE WakesUp
  BY <1>16, FollowSame, TypesStep DEF WakesUp, IInv, CallsOK, IsPiece, NoCall, Command, Free,
                                      netVars, callVars, commandVars, Types, Threads
<1>17. CASE Handle
  BY <1>17, HandleFollow, TypesStep
<1>18. CASE EndBatch
  BY <1>18, EndBatchFollow, TypesStep
<1>19. ASSUME NEW t \in Threads, PushCommand(t) PROVE PiecesFollow'
  BY <1>19, PushFollow, TypesStep
<1>20. CASE UNCHANGED vars
  BY <1>20, FollowSame, TypesStep DEF vars, IInv, CallsOK, IsPiece, NoCall, Command, Free,
                                      netVars, callVars, commandVars, Types, Threads
<1> QED
  BY <1>1, <1>2, <1>3, <1>4, <1>5, <1>6, <1>7, <1>8, <1>9, <1>10, <1>11, <1>12, <1>13, <1>14,
     <1>15, <1>16, <1>17, <1>18, <1>19, <1>20
  DEF Next, Program, SimpleThread, CommandHandler, Threads

-----------------------------------------------------------------------------
LEMMA InitIInv == Init => IInv
<1> SUFFICES ASSUME Init PROVE IInv
  OBVIOUS
<1>1. Types
  <2>1. NoCall \in Commands /\ NoCall.n = 0
    BY Bounds DEF NoCall, Command, Commands
  <2>2. call \in [Threads -> Commands] /\ \A t \in Threads : call[t].n \in 0 .. sent
    BY <2>1 DEF Init, Threads
  <2>3. m_CommandList \in Seq(Commands) /\ Len(m_CommandList) = 0
    BY EmptySeq DEF Init
  <2>4. /\ sent \in 0 .. DataMax /\ recvd \in 0 .. sent /\ got \in 0 .. recvd
        /\ dropped \subseteq 0 .. recvd /\ fails \in 0 .. SendMax
        /\ pos \in 1 .. Len(m_CommandList) + 1
    BY <2>3, Bounds DEF Init
  <2> QED
    BY <2>2, <2>3, <2>4 DEF Init, Types, TypeOK, Threads
<1>2. CallsOK /\ ToldOK
  BY DEF Init, CallsOK, ToldOK, Connected, NoCall, Command, IsPiece
<1>3. PiecesFollow
  <2>1. ToCome = {1}
    BY DEF Init, ToCome
  <2>2. ~IsPiece(Coming(1))
    <3>1. 1 \in 1 .. Len(m_CommandList) + 1 /\ ~(1 <= Len(m_CommandList))
      BY DEF Init
    <3>2. Coming(1) = NoCall
      BY <1>1, <3>1, ComingIs DEF Init
    <3> QED
      BY <3>2 DEF IsPiece, NoCall, Command
  <2> QED
    BY <2>1, <2>2 DEF Init, PiecesFollow
<1> QED
  BY <1>1, <1>2, <1>3 DEF IInv

LEMMA InvAlways == Spec => []IInv
<1>1. IInv /\ [Next]_vars => IInv'
  BY TypesStep, CallsStep, FollowStep, ToldStep DEF IInv
<1> QED
  BY <1>1, InitIInv, PTL DEF Spec

\* Until Logout every piece received, and that there was memory for, is given to the
\* framing once and in order.
THEOREM ClientLosesNothing == Spec => []NothingLost
<1>1. IInv => NothingLost
  BY DEF IInv, Types, PiecesFollow, NothingLost
<1> QED
  BY <1>1, InvAlways, PTL

\* What is pushed about the connection follows the contract of the handler.
THEOREM ClientToldInOrder == Spec => FollowsProtocol
<1>1. Init => Protocol!Init
  BY DEF Init, Protocol!Init
<1>2. IInv /\ [Next]_vars => [Connected => Protocol!Next]_told
  <2> SUFFICES ASSUME IInv, [Next]_vars, Connected, told' # told PROVE Protocol!Next
    OBVIOUS
  <2>1. PICK t \in Threads : PushCommand(t)
    BY DEF Next, Program, SimpleThread, CommandHandler, Threads, Connect, ConnectFails,
       StartWorker, SendFails, Logout, LogoutCloses, ServerSends, ServerEnds, SelectReadable,
       SelectFails, WorkerEnds, Recv, RecvFails, Wait, TimesOut, WakesUp, Handle, EndBatch, vars
  <2> DEFINE P == [c \in {"server"} |-> told]
  <2>2. P = [c \in {"server"} |-> told] /\ P' = [c \in {"server"} |-> told']
    OBVIOUS
  <2>3. CASE t = "main"
    <3>1. told = "idle" /\ told' = "open"
      BY <2>1, <2>3 DEF PushCommand, Free, IInv, ToldOK, NoCall, Command
    <3>2. P["server"] \in {"idle"} /\ P' = [P EXCEPT !["server"] = "open"]
      BY <2>2, <3>1
    <3> QED
      BY <3>2 DEF Protocol!Next, Protocol!OnConnection, Protocol!Tell
  <2>4. CASE t = "worker"
    <3>1. told \in {"open", "talking"} /\ told' = "talking"
      BY <2>1, <2>4 DEF PushCommand, Free, IInv, ToldOK, CallsOK, NoCall, Command
    <3>2. P["server"] \in {"open", "talking"} /\ P' = [P EXCEPT !["server"] = "talking"]
      BY <2>2, <3>1
    <3> QED
      BY <3>2 DEF Protocol!Next, Protocol!OnData, Protocol!Tell
  <2> QED
    BY <2>3, <2>4 DEF Threads
<1> QED
  BY <1>1, <1>2, InvAlways, PTL DEF Spec, FollowsProtocol

===============================================================================
