-------------------------- MODULE BaseServerProofs --------------------------
(***************************************************************************)
(* Proofs about the server frame, for any number of connections, sessions  *)
(* and identifiers: what its queue hands on, which sessions serve, and     *)
(* what a shutdown reaches.                                                *)
(***************************************************************************)
EXTENDS BaseServer, FiniteSetTheorems, TLAPS

USE DEF Ids

------------------------------------------------------------------------------
(* Types                                                                   *)

(* What Initialize has prepared, and what the command thread has in hand.  *)
Frame ==
  /\ main \in {"started", "served"} => made = {}
  /\ main \notin {"started", "served"} => \A i \in Ids : SessionArray[i] \in made
  /\ \A c \in Conns : client[c] \in made \cup {NoSession}
  /\ \A s \in Sessions : conn[s] # NoConn => s \in made
  /\ \A c \in Conns : call[c] # NoCall => call[c].conn = c
  /\ pc = "closing" => /\ pos <= Len(m_CommandList) /\ Current.kind = "ONDISCONNECT"
                       /\ client[Current.conn] \in made /\ phase[Current.conn] = "lost"

(* m_SessionMap leads to connected sessions, not to one that is closing.   *)
Mapped ==
  /\ MapIsConnected
  /\ pc = "closing" => \A i \in Ids : SessionMap[i] # client[Current.conn]

Base == TypeOK /\ Frame /\ Mapped

(* The commands of one kind about a connection that are not handled yet.   *)
Coming(c, kind) ==
  {k \in pos .. Len(m_CommandList) : m_CommandList[k].kind = kind /\ m_CommandList[k].conn = c}

(* Of either end of a connection's use at most one command comes, and only *)
(* while the connection is in that use; until the session is told of the   *)
(* beginning the connection has none.                                      *)
ComesOnce(c, kind) ==
  /\ \A j, k \in Coming(c, kind) : j = k
  /\ call[c].kind = kind => Coming(c, kind) = {}

Comes(c, kind) == call[c].kind = kind \/ Coming(c, kind) # {}

Announced ==
  \A c \in Conns :
    /\ ComesOnce(c, "ONCONNECT") /\ ComesOnce(c, "ONDISCONNECT")
    /\ Comes(c, "ONCONNECT") => phase[c] # "idle" /\ client[c] = NoSession
    /\ Comes(c, "ONDISCONNECT") => phase[c] = "lost"

(* A session with a connection, and a connection in use that has a         *)
(* session, point to each other, whether the server serves or not.         *)
Held ==
  /\ \A s \in Sessions : conn[s] # NoConn => phase[conn[s]] # "idle" /\ client[conn[s]] = s
  /\ \A c \in Conns : phase[c] # "idle" /\ client[c] # NoSession => conn[client[c]] = c

(* The sessions without a connection are in the pool, each once.           *)
PoolInv ==
  /\ \A j, k \in 1 .. Len(pool) : pool[j] = pool[k] => j = k
  /\ \A k \in 1 .. Len(pool) : conn[pool[k]] = NoConn
  /\ \A s \in made : conn[s] = NoConn => \E k \in 1 .. Len(pool) : pool[k] = s

Paired == Announced /\ Held /\ PoolInv

LEMMA CommandParts ==
  ASSUME NEW m \in Commands, m # NoCall
  PROVE  /\ m.kind \in {"ONCONNECT", "ONDATA", "ONDISCONNECT"}
              => m.conn \in Conns /\ m.n \in 0 .. DataMax
         /\ m.kind \in AppKinds => m.conn = NoConn /\ m.n \in Ids
         /\ m.kind \in {"ONCONNECT", "ONDATA", "ONDISCONNECT"} \cup AppKinds
  BY DEF Commands, AppKinds

LEMMA Listed ==
  ASSUME TypeOK, NEW k \in 1 .. Len(m_CommandList)
  PROVE  m_CommandList[k] \in Commands \ {NoCall}
  BY DEF TypeOK

(* The parts of the types about the queue.                                 *)
LEMMA QueueTypes ==
  ASSUME TypeOK
  PROVE  /\ m_CommandList \in Seq(Commands) /\ Len(m_CommandList) \in Nat
         /\ pos \in 1 .. Len(m_CommandList) + 1
         /\ call \in [Conns -> Commands]
         /\ phase \in [Conns -> Phases] /\ seen \in [Conns -> Phases]
         /\ arrived \in [Conns -> 0 .. DataMax] /\ read \in [Conns -> 0 .. DataMax]
         /\ dropped \in [Conns -> SUBSET (1 .. DataMax)]
<1>1. m_CommandList \in Seq(Commands \ {NoCall})
  BY DEF TypeOK
<1>2. m_CommandList \in Seq(Commands) /\ Len(m_CommandList) \in Nat
  BY <1>1
<1> QED BY <1>2 DEF TypeOK

LEMMA InitBase == Init => Base
<1> SUFFICES ASSUME Init PROVE Base
  OBVIOUS
<1>1. TypeOK
  <2>1. NoCall \in Commands
    BY DEF Commands
  <2>2. "idle" \in Phases
    BY DEF Phases, Network!Phases
  <2>3. /\ phase \in [Conns -> Phases] /\ seen \in [Conns -> Phases] /\ call \in [Conns -> Commands]
        /\ client \in [Conns -> Sessions \cup {NoSession}]
        /\ conn \in [Sessions -> Conns \cup {NoConn}]
    BY <2>1, <2>2 DEF Init
  <2>4. /\ arrived \in [Conns -> 0 .. DataMax] /\ read \in [Conns -> 0 .. DataMax]
        /\ dropped \in [Conns -> SUBSET (1 .. DataMax)]
        /\ id \in [Sessions -> Ids]
    BY SessionCounts DEF Init
  <2>5. pos \in 1 .. Len(m_CommandList) + 1 /\ ~(pos > 1) /\ m_CommandList = <<>> /\ pool = <<>>
    BY DEF Init
  <2>6. /\ m_CommandList \in Seq(Commands \ {NoCall}) /\ pool \in Seq(made)
        /\ SessionMap \in [Ids -> made \cup {NoSession}] /\ SessionArray \in [Ids -> made \cup {NoSession}]
    BY <2>5 DEF Init
  <2>7. /\ asked \subseteq Conns /\ made \subseteq Sessions /\ ready \in BOOLEAN /\ crashed \in BOOLEAN
        /\ main = "started" /\ pc = "off"
    BY DEF Init
  <2> QED BY <2>3, <2>4, <2>5, <2>6, <2>7 DEF TypeOK
<1>2. Frame /\ Mapped
  BY DEF Init, Frame, Mapped, MapIsConnected
<1> QED BY <1>1, <1>2 DEF Base

(* Steps of Initialize.                                                    *)
LEMMA InitializeBase == Base /\ Initialize => Base'
<1> SUFFICES ASSUME Base, Initialize PROVE Base'
  OBVIOUS
<1> USE DEF Base
<1>1. CASE SetServer \/ StartCommandHandler \/ SetSessionServer
  <2>1. UNCHANGED <<netVars, sessionVars, m_CommandList, pos, ready, crashed>>
    BY <1>1 DEF SetServer, StartCommandHandler, SetSessionServer, threadVars
  <2>2. /\ pc' = pc \/ {pc, pc'} \cap {"closing", "batch"} = {}
        /\ pc' = "off" <=> main' \in {"started", "served", "pooled"}
        /\ main' \in {"started", "served", "pooled", "running", "done"}
        /\ pc' \in {"off", "top", "waiting", "signalled", "batch", "closing"}
        /\ main' \in {"started", "served"} <=> main \in {"started", "served"}
        /\ pos > 1 => pc' \in {"closing", "batch"}
    BY <1>1 DEF SetServer, StartCommandHandler, SetSessionServer, threadVars, TypeOK, Locked
  <2>3. TypeOK'
    BY <2>1, <2>2 DEF TypeOK, netVars, sessionVars, Locked
  <2>4. Frame' /\ Mapped'
    BY <2>1, <2>2 DEF Frame, Mapped, MapIsConnected, netVars, sessionVars, Current
  <2> QED BY <2>3, <2>4
<1>2. CASE InitializeSessionPool
  <2>1. PICK s \in Sessions : /\ pool' = <<s>> /\ made' = {s}
                              /\ id' = [id EXCEPT ![s] = MaxSession - 1]
                              /\ SessionArray' = [i \in Ids |-> s]
    BY <1>2 DEF InitializeSessionPool
  <2>2. /\ main = "served" /\ main' = "pooled"
        /\ UNCHANGED <<phase, call, arrived, dropped, asked, client, conn, SessionMap, seen, read>>
        /\ UNCHANGED <<m_CommandList, pc, pos, ready, crashed>>
    BY <1>2 DEF InitializeSessionPool, netVars, threadVars
  <2>3. made = {} /\ pc = "off" /\ \A i \in Ids : SessionMap[i] = NoSession
    BY <2>2 DEF Frame, TypeOK
  <2>4. TypeOK'
    BY <2>1, <2>2, <2>3, SessionCounts DEF TypeOK, Locked
  <2>5. Frame' /\ Mapped'
    BY <2>1, <2>2, <2>3 DEF Frame, Mapped, MapIsConnected, TypeOK
  <2> QED BY <2>4, <2>5
<1> QED BY <1>1, <1>2 DEF Initialize

(* Callbacks on the threads of the network.                                *)
LEMMA CallbackBase == \A c \in Conns : Base /\ Callbacks(c) => Base'
<1> SUFFICES ASSUME NEW c \in Conns, Base, Callbacks(c) PROVE Base'
  OBVIOUS
<1> USE DEF Base
<1>1. UNCHANGED <<conn, pool, made, id, SessionMap, SessionArray, seen, read, threadVars, main, ready>>
  BY DEF Callbacks, OnConnection, OnData, OnDataNoMemory, OnDisconnect, Callback, sessionVars
<1>a. client' = client \/ client' = [client EXCEPT ![c] = NoSession]
  BY DEF Callbacks, OnConnection, OnData, OnDataNoMemory, OnDisconnect, sessionVars
<1>b. phase[c] # "lost" /\ \A d \in Conns : d # c => phase'[d] = phase[d]
  BY DEF Callbacks, OnConnection, OnData, OnDataNoMemory, OnDisconnect, TypeOK,
         Network!Tell, Network!OnData, Network!OnDisconnect
<1>c. pc = "closing" => Current.conn # c /\ Current.conn \in Conns
  <2>1. pc = "closing" => Current \in Commands \ {NoCall} /\ Current.kind = "ONDISCONNECT"
    BY Listed DEF Frame, TypeOK, Current
  <2> QED BY <1>b, <2>1, CommandParts DEF Frame
<1>d. pc = "closing" => /\ client'[Current.conn] = client[Current.conn]
                        /\ phase'[Current.conn] = phase[Current.conn]
  BY <1>a, <1>b, <1>c DEF TypeOK
<1>2. Mapped'
  BY <1>1, <1>d DEF Mapped, MapIsConnected, threadVars, Current
<1>3. phase' \in [Conns -> Phases] /\ asked' \subseteq Conns
  BY DEF Callbacks, OnConnection, OnData, OnDataNoMemory, OnDisconnect, TypeOK, Phases,
         Network!Phases, Network!Tell, Network!OnData, Network!OnDisconnect
<1>4. /\ arrived' \in [Conns -> 0 .. DataMax]
      /\ dropped' \in [Conns -> SUBSET (1 .. DataMax)]
  <2>1. CASE OnConnection(c) \/ OnDisconnect(c)
    <3>1. 0 \in 0 .. DataMax /\ {} \in SUBSET (1 .. DataMax)
      BY SessionCounts
    <3>2. \/ arrived' = [arrived EXCEPT ![c] = 0] /\ dropped' = [dropped EXCEPT ![c] = {}]
          \/ UNCHANGED <<arrived, dropped>>
      BY <2>1 DEF OnConnection, OnDisconnect
    <3>3. arrived' \in [Conns -> 0 .. DataMax]
      BY <3>1, <3>2 DEF TypeOK
    <3>4. dropped' \in [Conns -> SUBSET (1 .. DataMax)]
      BY <3>1, <3>2 DEF TypeOK
    <3> QED BY <3>3, <3>4
  <2>3. CASE OnData(c)
    <3>1. arrived[c] + 1 \in 0 .. DataMax
      BY <2>3, SessionCounts DEF OnData, TypeOK
    <3> QED BY <2>3, <3>1 DEF OnData, TypeOK
  <2>2. CASE OnDataNoMemory(c)
    BY <2>2, SessionCounts DEF OnDataNoMemory, TypeOK
  <2> QED BY <2>1, <2>2, <2>3 DEF Callbacks
<1> DEFINE Pushing == /\ call' \in [Conns -> Commands] /\ crashed' \in BOOLEAN
                      /\ \A d \in Conns : call'[d] # NoCall => call'[d].conn = d
<1>5. Pushing
  <2>1. ASSUME NEW k \in {"ONCONNECT", "ONDATA", "ONDISCONNECT"}, NEW n \in 0 .. DataMax,
               Callback(c, k, n)
        PROVE  Pushing
    <3>1. Command(k, c, n) \in Commands /\ Command(k, c, n).conn = c
      BY DEF Commands, Command
    <3>2. call' = call \/ call' = [call EXCEPT ![c] = Command(k, c, n)]
      BY <2>1 DEF Callback
    <3>3. crashed' \in BOOLEAN
      BY <2>1 DEF Callback, TypeOK
    <3> HIDE DEF Base
    <3> QED BY <3>1, <3>2, <3>3 DEF TypeOK, Frame, Base
  <2>2. CASE OnDataNoMemory(c)
    BY <2>2 DEF OnDataNoMemory, TypeOK, Frame
  <2>3. CASE OnConnection(c) \/ OnDisconnect(c)
    BY <2>1, <2>3, SessionCounts DEF OnConnection, OnDisconnect
  <2>4. CASE OnData(c)
    BY <2>1, <2>4, SessionCounts DEF OnData, TypeOK
  <2> QED BY <2>2, <2>3, <2>4 DEF Callbacks
<1>6. TypeOK'
  BY <1>1, <1>a, <1>3, <1>4, <1>5 DEF TypeOK, threadVars, Locked
<1>7. Frame'
  BY <1>1, <1>a, <1>d, <1>5 DEF Frame, TypeOK, threadVars, Current
<1> QED BY <1>2, <1>6, <1>7

(* A command is pushed, by a callback or by the application.               *)
LEMMA PushBase ==
  ASSUME Base, NEW m \in Commands \ {NoCall}, PushCommand(m),
         call' \in [Conns -> Commands], \A d \in Conns : call'[d] \in {call[d], NoCall},
         UNCHANGED <<phase, arrived, dropped, asked>>
  PROVE  Base'
<1> USE DEF Base
<1>1. /\ m_CommandList' = Append(m_CommandList, m) /\ pc' \in {pc, "signalled"}
      /\ pc' = "signalled" => pc \in {"waiting", "signalled"}
      /\ pc \notin {"batch", "closing"}
      /\ UNCHANGED <<sessionVars, pos, main, ready, crashed>>
  BY DEF PushCommand, Locked
<1>2. m_CommandList' \in Seq(Commands \ {NoCall}) /\ Len(m_CommandList') = Len(m_CommandList) + 1
  BY <1>1 DEF TypeOK
<1>3. TypeOK'
  BY <1>1, <1>2 DEF TypeOK, sessionVars, Locked
<1>4. Frame' /\ Mapped'
  BY <1>1 DEF Frame, Mapped, MapIsConnected, sessionVars
<1> QED BY <1>3, <1>4

LEMMA PushesBase ==
  ASSUME Base, \/ \E c \in Conns : PushCallback(c)
               \/ \E kind \in AppCommands, i \in Ids : PushFromApp(kind, i)
  PROVE  Base'
<1> USE DEF Base
<1>1. ASSUME NEW c \in Conns, PushCallback(c) PROVE Base'
  <2>1. call[c] \in Commands \ {NoCall} /\ NoCall \in Commands
    BY <1>1 DEF PushCallback, TypeOK, Commands
  <2>2. /\ call' \in [Conns -> Commands] /\ \A d \in Conns : call'[d] \in {call[d], NoCall}
        /\ UNCHANGED <<phase, arrived, dropped, asked>> /\ PushCommand(call[c])
    BY <1>1, <2>1 DEF PushCallback, TypeOK
  <2> QED BY <2>1, <2>2, PushBase
<1>2. ASSUME NEW kind \in AppCommands, NEW i \in Ids, PushFromApp(kind, i) PROVE Base'
  <2>1. Command(kind, NoConn, i) \in Commands \ {NoCall}
    <3>1. kind \in AppKinds
      BY Switches
    <3>2. Command(kind, NoConn, i) \in [kind : AppKinds, conn : {NoConn}, n : Ids]
      BY <3>1 DEF Command
    <3>3. kind # "none"
      BY <3>1 DEF AppKinds
    <3>4. Command(kind, NoConn, i).kind = kind /\ NoCall.kind = "none"
      BY DEF Command, NoCall
    <3> QED BY <3>2, <3>3, <3>4 DEF Commands
  <2>2. UNCHANGED netVars /\ PushCommand(Command(kind, NoConn, i))
    BY <1>2 DEF PushFromApp
  <2>3. UNCHANGED <<phase, arrived, dropped, asked>> /\ call' = call
    BY <2>2 DEF netVars
  <2>4. call' \in [Conns -> Commands] /\ \A d \in Conns : call'[d] \in {call[d], NoCall}
    BY <2>3 DEF TypeOK
  <2> QED BY <2>1, <2>2, <2>3, <2>4, PushBase
<1> QED BY <1>1, <1>2

(* The command thread waits, wakes up, and clears the list.                *)
LEMMA WaitBase == Base /\ (Wait \/ TimesOut \/ WakesLate \/ WakesUp \/ EndBatch) => Base'
<1> SUFFICES ASSUME Base, Wait \/ TimesOut \/ WakesLate \/ WakesUp \/ EndBatch PROVE Base'
  OBVIOUS
<1> USE DEF Base
<1>1. /\ UNCHANGED <<netVars, sessionVars, main, ready, crashed>>
      /\ pc' \in {"top", "waiting", "batch"} /\ pc \in {"top", "waiting", "signalled", "batch"}
  BY DEF Wait, TimesOut, WakesLate, WakesUp, EndBatch, Move
<1>2. m_CommandList' \in Seq(Commands \ {NoCall}) /\ pos' \in 1 .. Len(m_CommandList') + 1
  <2>1. CASE Wait \/ TimesOut \/ WakesLate
    BY <2>1 DEF Wait, TimesOut, WakesLate, TypeOK
  <2>2. CASE WakesUp
    BY <2>2 DEF WakesUp, TypeOK
  <2>3. CASE EndBatch
    BY <2>3 DEF EndBatch
  <2> QED BY <2>1, <2>2, <2>3
<1>3. pos' > 1 => Locked'
  BY DEF Wait, TimesOut, WakesLate, WakesUp, EndBatch, Move, TypeOK, Locked
<1>4. TypeOK'
  BY <1>1, <1>2, <1>3 DEF TypeOK, netVars, sessionVars
<1>5. Frame' /\ Mapped'
  BY <1>1 DEF Frame, Mapped, MapIsConnected, netVars, sessionVars
<1> QED BY <1>4, <1>5

(* Handling a command, by what it is.                                      *)
LEMMA HandledCommand ==
  ASSUME TypeOK, NEW kinds, Handling(kinds)
  PROVE  /\ pos \in 1 .. Len(m_CommandList) /\ Current \in Commands \ {NoCall}
         /\ Current.kind \in kinds /\ pc = "batch"
  BY Listed DEF Handling, TypeOK, Current

LEMMA DoneTypes ==
  ASSUME TypeOK, NEW kinds, Handling(kinds), Done
  PROVE  /\ pos' = pos + 1 /\ pos' \in 1 .. Len(m_CommandList') + 1 /\ Locked'
         /\ UNCHANGED <<pc, m_CommandList, main>> /\ pc = "batch"
  BY HandledCommand DEF Done, TypeOK, Locked, Handling

LEMMA HandleOnConnectBase == Base /\ HandleOnConnect => Base'
<1> SUFFICES ASSUME Base, HandleOnConnect PROVE Base'
  OBVIOUS
<1> USE DEF Base
<1>a. Handling({"ONCONNECT"}) /\ Done
  BY DEF HandleOnConnect, Served
<1>1. Current.conn \in Conns
  BY <1>a, HandledCommand, CommandParts
<1>2. PICK c \in Conns : c = Current.conn
  BY <1>1
<1>3. PICK s \in Sessions :
        /\ Allocate(s)
        /\ SessionMap' = IF SessionMap[id[s]] = NoSession THEN [SessionMap EXCEPT ![id[s]] = s]
                         ELSE SessionMap
        /\ conn' = [conn EXCEPT ![s] = c] /\ client' = [client EXCEPT ![c] = s]
        /\ seen' = [seen EXCEPT ![c] = "open"] /\ read' = [read EXCEPT ![c] = 0]
  BY <1>2 DEF HandleOnConnect
<1>4. UNCHANGED <<phase, call, arrived, dropped, asked, id, SessionArray, ready, crashed>>
  BY DEF HandleOnConnect, netVars
<1>5. /\ pool' \in Seq(made') /\ made' \subseteq Sessions /\ s \in made' /\ made \subseteq made'
  <2>1. CASE pool # <<>>
    <3>1. s = Head(pool) /\ pool' = Tail(pool) /\ made' = made
      BY <1>3, <2>1 DEF Allocate
    <3>2. Head(pool) \in made /\ Tail(pool) \in Seq(made)
      BY <2>1 DEF TypeOK
    <3> QED BY <3>1, <3>2 DEF TypeOK
  <2>2. CASE pool = <<>>
    <3>1. made' = made \cup {s} /\ pool' = <<>>
      BY <1>3, <2>2 DEF Allocate
    <3> QED BY <3>1 DEF TypeOK
  <2> QED BY <2>1, <2>2
<1>6. /\ SessionMap' \in [Ids -> made' \cup {NoSession}]
      /\ SessionArray' \in [Ids -> made' \cup {NoSession}]
      /\ client' \in [Conns -> Sessions \cup {NoSession}]
      /\ conn' \in [Sessions -> Conns \cup {NoConn}]
      /\ read' \in [Conns -> 0 .. DataMax]
      /\ seen' \in [Conns -> Phases]
  <2>1. 0 \in 0 .. DataMax /\ "open" \in Phases
    BY SessionCounts DEF Phases, Network!Phases
  <2>2. SessionMap' \in [Ids -> made' \cup {NoSession}]
    BY <1>3, <1>5 DEF TypeOK
  <2>3. SessionArray' \in [Ids -> made' \cup {NoSession}]
    BY <1>4, <1>5 DEF TypeOK
  <2> QED BY <1>3, <2>1, <2>2, <2>3 DEF TypeOK
<1>7. TypeOK'
  BY <1>a, <1>4, <1>5, <1>6, DoneTypes DEF TypeOK
<1>8. Frame'
  BY <1>a, <1>3, <1>4, <1>5, DoneTypes DEF Frame, TypeOK
<1>9. Mapped'
  <2>1. \A i \in Ids : SessionMap'[i] # NoSession
                       => SessionMap'[i] = SessionMap[i] \/ (SessionMap'[i] = s /\ i = id[s])
    BY <1>3 DEF TypeOK
  <2>2. conn'[s] # NoConn /\ \A t \in Sessions : conn[t] # NoConn => conn'[t] # NoConn
    BY <1>3, Nulls DEF TypeOK
  <2>3. \A i \in Ids : SessionMap[i] # NoSession => SessionMap[i] \in Sessions
    BY DEF TypeOK
  <2> QED BY <1>a, <1>4, <2>1, <2>2, <2>3, DoneTypes DEF Mapped, MapIsConnected
<1> QED BY <1>7, <1>8, <1>9

(* The sessions that a step leaves as they are.                            *)
LEMMA KeepBase ==
  ASSUME Base, NEW kinds, Handling(kinds), Done,
         UNCHANGED <<call, arrived, dropped, client, conn, pool, made, id, SessionMap, SessionArray>>,
         phase' = phase, asked' \subseteq Conns, ready' \in BOOLEAN, crashed' \in BOOLEAN,
         seen' \in [Conns -> Phases], read' \in [Conns -> 0 .. DataMax]
  PROVE  Base'
<1> USE DEF Base
<1>1. TypeOK'
  BY DoneTypes DEF TypeOK
<1>2. Frame' /\ Mapped'
  BY DoneTypes DEF Frame, Mapped, MapIsConnected
<1> QED BY <1>1, <1>2

LEMMA HandleSendBase ==
  Base /\ (HandleNoSession \/ HandleIgnored \/ HandleOnData \/ HandleSendData) => Base'
<1> SUFFICES ASSUME Base, HandleNoSession \/ HandleIgnored \/ HandleOnData \/ HandleSendData PROVE Base'
  OBVIOUS
<1> USE DEF Base
<1>0. /\ asked \subseteq Conns /\ ready \in BOOLEAN
      /\ seen \in [Conns -> Phases] /\ read \in [Conns -> 0 .. DataMax]
  BY DEF TypeOK
<1>1. CASE HandleNoSession
  <2>1. Handling({"ONDATA", "ONDISCONNECT"}) /\ Done /\ crashed' \in BOOLEAN
        /\ UNCHANGED <<netVars, sessionVars, ready>>
    BY <1>1 DEF HandleNoSession, TypeOK
  <2> QED BY <1>0, <2>1, KeepBase DEF netVars, sessionVars
<1>2. CASE HandleIgnored
  <2>1. Handling({"ONCONNECT", "ONDATA", "SENDDATA"}) /\ Done
        /\ UNCHANGED <<netVars, sessionVars, ready, crashed>>
    BY <1>2 DEF HandleIgnored
  <2>2. crashed' \in BOOLEAN
    BY <2>1 DEF TypeOK
  <2> QED BY <1>0, <2>1, <2>2, KeepBase DEF netVars, sessionVars
<1>3. CASE HandleOnData
  <2>1. /\ Handling({"ONDATA"}) /\ Done /\ seen' = [seen EXCEPT ![Current.conn] = "talking"]
        /\ read' = [read EXCEPT ![Current.conn] = Current.n] /\ crashed' \in BOOLEAN
        /\ UNCHANGED <<netVars, client, conn, pool, made, id, SessionMap, SessionArray, ready>>
    BY <1>3 DEF HandleOnData, Served, SendData
  <2>2. Current.conn \in Conns /\ Current.n \in 0 .. DataMax
    BY <2>1, HandledCommand, CommandParts
  <2>3. "talking" \in Phases
    BY DEF Phases, Network!Phases
  <2>4. seen' \in [Conns -> Phases] /\ read' \in [Conns -> 0 .. DataMax]
    BY <1>0, <2>1, <2>2, <2>3
  <2> QED BY <1>0, <2>1, <2>4, KeepBase DEF netVars
<1>4. CASE HandleSendData
  <2>1. Handling({"SENDDATA"}) /\ Done /\ crashed' \in BOOLEAN /\ UNCHANGED <<netVars, sessionVars, ready>>
    BY <1>4 DEF HandleSendData, Served, SendData
  <2> QED BY <1>0, <2>1, KeepBase DEF netVars, sessionVars
<1> QED BY <1>1, <1>2, <1>3, <1>4

(* Disconnecting asks connections, so that only they are ever asked.       *)
LEMMA DisconnectAsks ==
  ASSUME TypeOK, NEW targets, targets \subseteq Sessions, Disconnect(targets)
  PROVE  asked' \subseteq Conns
  BY DEF TypeOK, Disconnect

LEMMA HandleDisconnectsBase == Base /\ (HandleDisconnect \/ HandleShutdown) => Base'
<1> SUFFICES ASSUME Base, HandleDisconnect \/ HandleShutdown PROVE Base'
  OBVIOUS
<1> USE DEF Base
<1>1. /\ seen \in [Conns -> Phases] /\ read \in [Conns -> 0 .. DataMax]
      /\ crashed \in BOOLEAN /\ ready \in BOOLEAN
  BY DEF TypeOK
<1>2. CASE HandleDisconnect
  <2>1. /\ Handling({"DISCONNECT"}) /\ Done /\ Disconnect({SessionArray[Current.n]})
        /\ UNCHANGED <<phase, call, arrived, dropped, sessionVars, ready, crashed>>
    BY <1>2 DEF HandleDisconnect
  <2>2. Current.n \in Ids /\ main \notin {"started", "served"}
    <3>1. Current \in Commands \ {NoCall} /\ Current.kind = "DISCONNECT" /\ pc = "batch"
      BY <2>1, HandledCommand
    <3>2. pc = "off" <=> main \in {"started", "served", "pooled"}
      BY DEF TypeOK
    <3> QED BY <3>1, <3>2, CommandParts DEF AppKinds
  <2>3. SessionArray[Current.n] \in Sessions
    BY <2>2 DEF Frame, TypeOK
  <2>4. asked' \subseteq Conns
    BY <2>1, <2>3, DisconnectAsks
  <2> QED BY <1>1, <2>1, <2>4, KeepBase DEF sessionVars
<1>3. CASE HandleShutdown
  <2>1. /\ Handling({"SHUTDOWN"}) /\ Done /\ Disconnect({SessionMap[i] : i \in Ids} \ {NoSession})
        /\ UNCHANGED <<phase, call, arrived, dropped, sessionVars, crashed>> /\ ready' = TRUE
    BY <1>3 DEF HandleShutdown
  <2>2. asked' \subseteq Conns
    <3>1. {SessionMap[i] : i \in Ids} \ {NoSession} \subseteq Sessions
      BY DEF TypeOK
    <3> QED BY <2>1, <3>1, DisconnectAsks
  <2> QED BY <1>1, <2>1, <2>2, KeepBase DEF sessionVars
<1> QED BY <1>2, <1>3

(* The session of a connection that was lost leaves the map and closes it. *)
LEMMA HandleOnDisconnectBase == Base /\ Announced /\ HandleOnDisconnect => Base'
<1> SUFFICES ASSUME Base, Announced, HandleOnDisconnect PROVE Base'
  OBVIOUS
<1> USE DEF Base
<1> DEFINE c == Current.conn
<1>1. /\ Handling({"ONDISCONNECT"}) /\ client[c] \in Sessions
      /\ SessionMap' = [SessionMap EXCEPT ![id[client[c]]] = NoSession]
      /\ seen' = [seen EXCEPT ![c] = "lost"] /\ pc' = "closing"
      /\ UNCHANGED <<netVars, client, conn, pool, made, id, SessionArray, read, m_CommandList,
                     pos, main, ready, crashed>>
  BY DEF HandleOnDisconnect
<1>2. c \in Conns /\ pos <= Len(m_CommandList) /\ Current.kind = "ONDISCONNECT" /\ pc = "batch"
  BY <1>1, HandledCommand, CommandParts DEF TypeOK
<1>3. client[c] \in made
  BY <1>1, <1>2, Nulls DEF Frame
<1>4. Current' = Current
  BY <1>1 DEF Current
<1>a. phase[c] = "lost"
  <2>1. pos \in Coming(c, "ONDISCONNECT")
    BY <1>2 DEF Coming, Current, TypeOK
  <2> QED BY <1>2, <2>1 DEF Announced, Comes
<1>5. TypeOK'
  <2>1. "lost" \in Phases
    BY DEF Phases, Network!Phases
  <2>2. SessionMap' \in [Ids -> made \cup {NoSession}] /\ seen' \in [Conns -> Phases]
    BY <1>1, <2>1 DEF TypeOK
  <2> QED BY <1>1, <1>2, <2>2 DEF TypeOK, netVars, Locked
<1>6. Frame'
  BY <1>1, <1>2, <1>3, <1>4, <1>a DEF Frame, netVars
<1>7. Mapped'
  <2>1. MapIsConnected'
    BY <1>1 DEF Mapped, MapIsConnected, TypeOK
  <2>2. \A i \in Ids : SessionMap'[i] # client[c]
    BY <1>1, <1>3, Nulls DEF Mapped, MapIsConnected, TypeOK
  <2> QED BY <1>1, <1>4, <2>1, <2>2 DEF Mapped
<1> QED BY <1>5, <1>6, <1>7

LEMMA CloseSessionBase == Base /\ CloseSession => Base'
<1> SUFFICES ASSUME Base, CloseSession PROVE Base'
  OBVIOUS
<1> USE DEF Base
<1>1. PICK c, s : /\ c = Current.conn /\ s = client[c] /\ pc = "closing"
                  /\ phase' = IF conn[s] # NoConn /\ phase[conn[s]] = "lost"
                              THEN [phase EXCEPT ![conn[s]] = "idle"] ELSE phase
                  /\ seen' = [seen EXCEPT ![c] = "idle"]
                  /\ conn' = [conn EXCEPT ![s] = NoConn]
                  /\ pool' = Append(pool, s) /\ pc' = "batch" /\ pos' = pos + 1
                  /\ UNCHANGED <<call, arrived, dropped, asked, client, made, id, SessionMap,
                                 SessionArray, read, m_CommandList, main, ready, crashed>>
  BY DEF CloseSession
<1>2. pos <= Len(m_CommandList) /\ pos \in 1 .. Len(m_CommandList) + 1
  BY <1>1 DEF Frame, TypeOK
<1>3. s \in made /\ s \in Sessions
  BY <1>1 DEF Frame, TypeOK
<1>4. TypeOK'
  <2>1. "idle" \in Phases
    BY DEF Phases, Network!Phases
  <2>2. phase' \in [Conns -> Phases] /\ seen' \in [Conns -> Phases]
    BY <1>1, <2>1 DEF TypeOK
  <2>3. conn' \in [Sessions -> Conns \cup {NoConn}] /\ pool' \in Seq(made)
    BY <1>1, <1>3 DEF TypeOK
  <2>4. pos' \in 1 .. Len(m_CommandList') + 1
    BY <1>1, <1>2 DEF TypeOK
  <2> QED BY <1>1, <2>2, <2>3, <2>4 DEF TypeOK, Locked
<1>5. Frame'
  BY <1>1, <1>3 DEF Frame, TypeOK
<1>6. Mapped'
  BY <1>1, <1>3 DEF Mapped, MapIsConnected, TypeOK
<1> QED BY <1>4, <1>5, <1>6

LEMMA NextBase == Base /\ Announced /\ [Next]_vars => Base'
<1>1. Base /\ Announced /\ Handle => Base'
  BY HandleOnConnectBase, HandleSendBase, HandleDisconnectsBase, HandleOnDisconnectBase,
     CloseSessionBase DEF Handle
<1>2. Base /\ UNCHANGED vars => Base'
  BY DEF Base, vars, netVars, sessionVars, threadVars, TypeOK, Locked, Frame, Mapped,
         MapIsConnected, Current
<1> QED
  BY <1>1, <1>2, InitializeBase, CallbackBase, PushesBase, WaitBase DEF Next, CommandHandler

------------------------------------------------------------------------------
(* Sessions and the connections they serve                                 *)

(* No step but the push of a callback's own command makes more of a        *)
(* connection's commands come.                                             *)
LEMMA ComesLess ==
  ASSUME NEW c, NEW kind, ComesOnce(c, kind), Coming(c, kind)' \subseteq Coming(c, kind),
         call'[c] \in {call[c], NoCall}, kind # "none"
  PROVE  ComesOnce(c, kind)' /\ (Comes(c, kind)' => Comes(c, kind))
<1>1. call'[c].kind = kind => call[c].kind = kind
  BY DEF NoCall, Command
<1> QED BY <1>1 DEF ComesOnce, Comes

(* A part of the list that only grows shorter.                             *)
LEMMA ComingLess ==
  ASSUME Base,
         \/ m_CommandList' = m_CommandList /\ pos' \in {pos, pos + 1}
         \/ m_CommandList' = <<>> /\ pos' = 1
  PROVE  \A c, kind : Coming(c, kind)' \subseteq Coming(c, kind)
<1>1. pos \in Nat /\ Len(m_CommandList) \in Nat
  BY QueueTypes DEF Base
<1>2. CASE m_CommandList' = m_CommandList /\ pos' \in {pos, pos + 1}
  BY <1>1, <1>2 DEF Coming
<1>3. CASE m_CommandList' = <<>> /\ pos' = 1
  BY <1>1, <1>3 DEF Coming
<1> QED BY <1>2, <1>3

(* Steps that take commands from the list or leave it, and change neither  *)
(* connections nor sessions.                                               *)
LEMMA KeepPaired ==
  ASSUME Base, Paired, UNCHANGED <<phase, call, client, conn, made, pool>>,
         \/ m_CommandList' = m_CommandList /\ pos' \in {pos, pos + 1}
         \/ m_CommandList' = <<>> /\ pos' = 1
  PROVE  Paired'
<1>1. ASSUME NEW c \in Conns, NEW kind \in {"ONCONNECT", "ONDISCONNECT"}, ComesOnce(c, kind)
      PROVE  ComesOnce(c, kind)' /\ (Comes(c, kind)' => Comes(c, kind))
  BY <1>1, ComingLess, ComesLess
<1>2. Announced'
  BY <1>1 DEF Paired, Announced
<1> QED BY <1>2 DEF Paired, Held, PoolInv

LEMMA InitPaired == Init => Paired
<1> SUFFICES ASSUME Init PROVE Paired
  OBVIOUS
<1>1. \A c, kind : Coming(c, kind) = {}
  BY DEF Init, Coming
<1>2. \A c \in Conns : call[c].kind = "none"
  BY DEF Init, NoCall, Command
<1>3. Announced
  BY <1>1, <1>2 DEF Announced, ComesOnce, Comes
<1> QED BY <1>3 DEF Paired, Held, PoolInv, Init

LEMMA InitializePaired == Base /\ Paired /\ Initialize => Paired'
<1> SUFFICES ASSUME Base, Paired, Initialize PROVE Paired'
  OBVIOUS
<1>1. CASE SetServer \/ StartCommandHandler \/ SetSessionServer
  BY <1>1, KeepPaired DEF SetServer, StartCommandHandler, SetSessionServer, netVars, sessionVars,
                          threadVars
<1>2. CASE InitializeSessionPool
  <2>1. PICK s \in Sessions : pool' = <<s>> /\ made' = {s}
    BY <1>2 DEF InitializeSessionPool
  <2>2. UNCHANGED <<phase, call, client, conn, m_CommandList, pos>> /\ made = {}
    BY <1>2 DEF InitializeSessionPool, netVars, threadVars, Base, Frame
  <2>3. conn[s] = NoConn
    BY <2>2 DEF Base, Frame
  <2>4. PoolInv'
    BY <2>1, <2>2, <2>3 DEF PoolInv
  <2>5. Announced' /\ Held'
    BY <2>2 DEF Paired, Announced, ComesOnce, Comes, Coming, Held
  <2> QED BY <2>4, <2>5 DEF Paired
<1> QED BY <1>1, <1>2 DEF Initialize

(* A callback takes one command in hand, of which none was coming.         *)
LEMMA CallbackPaired ==
  ASSUME Base, Paired, NEW c \in Conns, Callbacks(c)
  PROVE  Paired'
<1>1. UNCHANGED <<conn, pool, made, m_CommandList, pos>> /\ call[c] = NoCall
  BY DEF Callbacks, OnConnection, OnData, OnDataNoMemory, OnDisconnect, Callback, sessionVars,
         threadVars
<1>2. /\ phase \in [Conns -> Phases] /\ call \in [Conns -> Commands]
      /\ client \in [Conns -> Sessions \cup {NoSession}]
      /\ conn \in [Sessions -> Conns \cup {NoConn}]
  BY DEF Base, TypeOK
<1>3. \A d \in Conns \ {c} : call'[d] = call[d] /\ phase'[d] = phase[d] /\ client'[d] = client[d]
  BY <1>2 DEF Callbacks, OnConnection, OnData, OnDataNoMemory, OnDisconnect, Callback,
              sessionVars,
              Network!Tell, Network!OnData, Network!OnDisconnect
<1>4. /\ \A d, kind : Coming(d, kind)' = Coming(d, kind)
      /\ \A d \in Conns \ {c} : \A kind : /\ ComesOnce(d, kind)' <=> ComesOnce(d, kind)
                                          /\ Comes(d, kind)' <=> Comes(d, kind)
  BY <1>1, <1>3 DEF Coming, ComesOnce, Comes
<1>5. call[c].kind = "none" /\ \A k, n : Command(k, c, n).kind = k
  BY <1>1 DEF NoCall, Command
<1>6. phase[c] # "lost" /\ Coming(c, "ONDISCONNECT") = {} /\ ComesOnce(c, "ONCONNECT")
      /\ (Comes(c, "ONCONNECT") => phase[c] # "idle" /\ client[c] = NoSession)
  <2>1. phase[c] # "lost"
    BY DEF Callbacks, OnConnection, OnData, OnDataNoMemory, OnDisconnect,
           Network!Tell, Network!OnData, Network!OnDisconnect
  <2> QED BY <2>1 DEF Paired, Announced, Comes
<1>7. CASE OnConnection(c)
  <2>1. /\ phase[c] = "idle" /\ phase'[c] \in {"open", "rejected"} /\ client'[c] = NoSession
        /\ call'[c] = call[c] \/ call'[c] = Command("ONCONNECT", c, 0)
    BY <1>2, <1>7 DEF OnConnection, Network!Tell, Callback
  <2>2. Coming(c, "ONCONNECT") = {}
    BY <1>6, <2>1 DEF Comes
  <2>3. /\ ComesOnce(c, "ONCONNECT")' /\ ComesOnce(c, "ONDISCONNECT")' /\ ~Comes(c, "ONDISCONNECT")'
    BY <1>4, <1>5, <1>6, <2>1, <2>2 DEF ComesOnce, Comes
  <2>4. Announced'
    BY <1>3, <1>4, <2>1, <2>3 DEF Paired, Announced
  <2>5. Held'
    <3>1. \A s \in Sessions : conn[s] # NoConn => conn[s] \in Conns \ {c}
      BY <1>2, <2>1 DEF Paired, Held
    <3> QED BY <1>1, <1>3, <2>1, <3>1 DEF Paired, Held
  <2> QED BY <1>1, <2>4, <2>5 DEF Paired, PoolInv
<1>8. CASE OnData(c) \/ OnDataNoMemory(c) \/ OnDisconnect(c)
  <2>1. /\ phase[c] # "idle" /\ phase'[c] # "idle" /\ client' = client
        /\ \/ call'[c] = call[c] \/ \E n : call'[c] = Command("ONDATA", c, n)
           \/ call'[c] = Command("ONDISCONNECT", c, 0) /\ phase'[c] = "lost"
    BY <1>2, <1>8 DEF OnData, OnDataNoMemory, OnDisconnect, Network!OnData, Network!OnDisconnect,
                      Network!Tell, Callback, sessionVars
  <2>2. /\ ComesOnce(c, "ONCONNECT")' /\ (Comes(c, "ONCONNECT")' => Comes(c, "ONCONNECT"))
    BY <1>4, <1>5, <1>6, <2>1 DEF ComesOnce, Comes
  <2>3. /\ ComesOnce(c, "ONDISCONNECT")' /\ (Comes(c, "ONDISCONNECT")' => phase'[c] = "lost")
    BY <1>4, <1>5, <1>6, <2>1 DEF ComesOnce, Comes
  <2>4. Announced'
    BY <1>3, <1>4, <1>6, <2>1, <2>2, <2>3 DEF Paired, Announced
  <2>5. Held'
    <3>1. \A d \in Conns : phase'[d] # "idle" <=> phase[d] # "idle"
      BY <1>3, <2>1
    <3>2. \A s \in Sessions : conn[s] # NoConn => conn[s] \in Conns
      BY <1>2
    <3> QED BY <1>1, <2>1, <3>1, <3>2 DEF Paired, Held
  <2> QED BY <1>1, <2>4, <2>5 DEF Paired, PoolInv
<1> QED BY <1>7, <1>8 DEF Callbacks

(* A command goes from a callback's hand into the list.                    *)
LEMMA PushedComing ==
  ASSUME Base, NEW m \in Commands, PushCommand(m), NEW c, NEW kind
  PROVE  Coming(c, kind)' = IF m.kind = kind /\ m.conn = c
                              THEN Coming(c, kind) \cup {Len(m_CommandList) + 1} ELSE Coming(c, kind)
<1>1. /\ m_CommandList \in Seq(Commands) /\ Len(m_CommandList) \in Nat
      /\ pos \in 1 .. Len(m_CommandList) + 1
  BY QueueTypes DEF Base
<1>2. PICK l : l = m_CommandList'
  OBVIOUS
<1>3. /\ Len(l) = Len(m_CommandList) + 1 /\ l[Len(m_CommandList) + 1] = m /\ pos' = pos
      /\ \A k \in 1 .. Len(m_CommandList) : l[k] = m_CommandList[k]
  BY <1>1, <1>2 DEF PushCommand
<1>4. Coming(c, kind)' = {k \in pos .. Len(l) : l[k].kind = kind /\ l[k].conn = c}
  BY <1>2, <1>3 DEF Coming
<1>5. \A k : k \in pos .. Len(l) <=> k \in pos .. Len(m_CommandList) \/ k = Len(m_CommandList) + 1
  BY <1>1, <1>3
<1>6. \A k \in pos .. Len(m_CommandList) : l[k] = m_CommandList[k] /\ k # Len(m_CommandList) + 1
  BY <1>1, <1>3
<1> QED BY <1>3, <1>4, <1>5, <1>6 DEF Coming

LEMMA PushPaired ==
  ASSUME Base, Paired,
         \/ \E c \in Conns : PushCallback(c)
         \/ \E kind \in AppCommands, i \in Ids : PushFromApp(kind, i)
  PROVE  Paired'
<1>1. UNCHANGED <<phase, client, conn, made, pool>>
  BY DEF PushCallback, PushFromApp, PushCommand, sessionVars, netVars
<1>2. Held' /\ PoolInv'
  BY <1>1 DEF Paired, Held, PoolInv
<1>3. ASSUME NEW c \in Conns, PushCallback(c) PROVE Announced'
  <2>1. /\ call[c] \in Commands /\ call[c].conn = c /\ PushCommand(call[c])
        /\ call'[c] = NoCall /\ \A d \in Conns \ {c} : call'[d] = call[d]
    BY <1>3, QueueTypes DEF PushCallback, Base, Frame
  <2>2. ASSUME NEW d \in Conns, NEW kind \in {"ONCONNECT", "ONDISCONNECT"}, ComesOnce(d, kind)
        PROVE  ComesOnce(d, kind)' /\ (Comes(d, kind)' => Comes(d, kind))
    <3>1. CASE d = c /\ call[c].kind = kind
      <4>1. Coming(c, kind) = {} /\ call'[c].kind # kind
        BY <2>1, <2>2, <3>1 DEF ComesOnce, NoCall, Command
      <4>2. Coming(c, kind)' = {Len(m_CommandList) + 1}
        BY <2>1, <3>1, <4>1, PushedComing
      <4> QED BY <3>1, <4>1, <4>2 DEF ComesOnce, Comes
    <3>2. CASE d # c \/ call[c].kind # kind
      <4>1. Coming(d, kind)' = Coming(d, kind)
        BY <2>1, <3>2, PushedComing
      <4> QED BY <2>1, <2>2, <4>1, ComesLess
    <3> QED BY <3>1, <3>2
  <2> QED BY <1>1, <2>2 DEF Paired, Announced
<1>4. ASSUME NEW kind \in AppCommands, NEW i \in Ids, PushFromApp(kind, i) PROVE Announced'
  <2>1. kind \in AppKinds
    BY Switches
  <2>2. /\ Command(kind, NoConn, i) \in Commands /\ Command(kind, NoConn, i).conn = NoConn
        /\ PushCommand(Command(kind, NoConn, i)) /\ call' = call
    BY <1>4, <2>1 DEF Commands, Command, PushFromApp, netVars
  <2>3. \A d \in Conns : d # NoConn
    BY Nulls
  <2>4. ASSUME NEW d \in Conns, NEW x PROVE Coming(d, x)' = Coming(d, x)
    BY <2>2, <2>3, PushedComing
  <2>5. ASSUME NEW d \in Conns, NEW x \in {"ONCONNECT", "ONDISCONNECT"}, ComesOnce(d, x)
        PROVE  ComesOnce(d, x)' /\ (Comes(d, x)' => Comes(d, x))
    BY <2>2, <2>4, <2>5, ComesLess
  <2> QED BY <1>1, <2>5 DEF Paired, Announced
<1> QED BY <1>2, <1>3, <1>4 DEF Paired

(* A session that comes out of EasyPool has no connection, and leaves it.  *)
LEMMA AllocatesFree ==
  ASSUME Base, PoolInv, NEW s \in Sessions, NEW c \in Conns, Allocate(s), conn' = [conn EXCEPT ![s] = c]
  PROVE  conn[s] = NoConn /\ s \in made' /\ made \subseteq made' /\ PoolInv'
<1>0. /\ pool \in Seq(made) /\ conn \in [Sessions -> Conns \cup {NoConn}] /\ made \subseteq Sessions
      /\ \A t \in Sessions : conn[t] # NoConn => t \in made
  BY DEF Base, TypeOK, Frame
<1>1. CASE pool # <<>>
  <2>1. s = Head(pool) /\ pool' = Tail(pool) /\ made' = made
    BY <1>1 DEF Allocate
  <2>2. /\ Len(pool) \in Nat /\ 1 \in 1 .. Len(pool) /\ s = pool[1] /\ Len(pool') = Len(pool) - 1
        /\ \A k \in 1 .. Len(pool') : pool'[k] = pool[k + 1] /\ k + 1 \in 1 .. Len(pool) /\ k + 1 # 1
        /\ \A k \in 1 .. Len(pool) : pool[k] \in made
    BY <1>0, <1>1, <2>1
  <2>3. conn[s] = NoConn /\ s \in made
    BY <2>2 DEF PoolInv
  <2>4. \A j, k \in 1 .. Len(pool') : pool'[j] = pool'[k] => j = k
    <3> SUFFICES ASSUME NEW j \in 1 .. Len(pool'), NEW k \in 1 .. Len(pool'), pool'[j] = pool'[k]
                 PROVE  j = k
      OBVIOUS
    <3>1. j + 1 = k + 1
      BY <2>2 DEF PoolInv
    <3> QED BY <3>1
  <2>5. \A k \in 1 .. Len(pool') : conn'[pool'[k]] = NoConn
    <3> SUFFICES ASSUME NEW k \in 1 .. Len(pool') PROVE conn'[pool'[k]] = NoConn
      OBVIOUS
    <3>1. pool[k + 1] # s /\ conn[pool[k + 1]] = NoConn /\ pool[k + 1] \in made
      BY <2>2 DEF PoolInv
    <3> QED BY <1>0, <2>2, <3>1
  <2>6. \A t \in made' : conn'[t] = NoConn => \E k \in 1 .. Len(pool') : pool'[k] = t
    <3> SUFFICES ASSUME NEW t \in made', conn'[t] = NoConn
                 PROVE  \E k \in 1 .. Len(pool') : pool'[k] = t
      OBVIOUS
    <3>1. t \in made /\ t # s /\ conn[t] = NoConn
      BY <1>0, <2>1, Nulls
    <3>2. PICK k \in 1 .. Len(pool) : pool[k] = t
      BY <3>1 DEF PoolInv
    <3>3. k # 1
      BY <2>2, <3>1, <3>2
    <3>4. k - 1 \in 1 .. Len(pool') /\ (k - 1) + 1 = k
      BY <2>2, <3>3
    <3> QED BY <2>2, <3>2, <3>4
  <2> QED BY <2>1, <2>3, <2>4, <2>5, <2>6 DEF PoolInv
<1>2. CASE pool = <<>>
  <2>1. s \notin made /\ made' = made \cup {s} /\ pool' = <<>> /\ Len(<<>>) = 0
    BY <1>2 DEF Allocate
  <2>2. conn[s] = NoConn
    BY <1>0, <2>1
  <2>3. \A t \in made' : conn'[t] # NoConn
    <3>1. \A t \in made : conn[t] # NoConn
      BY <1>2 DEF PoolInv
    <3> QED BY <1>0, <2>1, <3>1, Nulls
  <2> QED BY <2>1, <2>2, <2>3 DEF PoolInv
<1> QED BY <1>1, <1>2

(* The command that is handled comes no more.                              *)
LEMMA TakenComing ==
  ASSUME Base, Paired, pos \in 1 .. Len(m_CommandList), pos' = pos + 1,
         UNCHANGED <<call, m_CommandList>>,
         NEW c \in Conns, NEW kind \in {"ONCONNECT", "ONDISCONNECT"},
         c = Current.conn, kind = Current.kind
  PROVE  ~Comes(c, kind)' /\ Comes(c, kind)
<1>2. pos \in Coming(c, kind)
  BY DEF Coming, Current
<1>3. ComesOnce(c, kind)
  BY DEF Paired, Announced
<1>4. Coming(c, kind)' = {}
  <2>1. \A k \in Coming(c, kind) : k = pos
    BY <1>2, <1>3 DEF ComesOnce
  <2>2. Coming(c, kind)' \subseteq Coming(c, kind)
    BY ComingLess
  <2>3. pos \notin Coming(c, kind)'
    BY QueueTypes DEF Coming, Base
  <2> QED BY <2>1, <2>2, <2>3
<1>5. call[c].kind # kind
  BY <1>2, <1>3 DEF ComesOnce
<1> QED BY <1>2, <1>4, <1>5 DEF Comes

LEMMA HandleOnConnectPaired == Base /\ Paired /\ HandleOnConnect => Paired'
<1> SUFFICES ASSUME Base, Paired, HandleOnConnect PROVE Paired'
  OBVIOUS
<1>1. /\ Handling({"ONCONNECT"}) /\ Done /\ UNCHANGED <<phase, call, m_CommandList>>
      /\ pos \in 1 .. Len(m_CommandList) /\ pos' = pos + 1
  BY HandledCommand DEF HandleOnConnect, Served, netVars, Done, Base
<1>2. PICK c \in Conns : c = Current.conn
  BY <1>1, HandledCommand, CommandParts DEF Base
<1>3. PICK s \in Sessions :
        /\ Allocate(s)
        /\ conn' = [conn EXCEPT ![s] = c] /\ client' = [client EXCEPT ![c] = s]
  BY <1>2 DEF HandleOnConnect
<1>4. ~Comes(c, "ONCONNECT")' /\ phase[c] # "idle" /\ client[c] = NoSession
  <2>1. Current.kind = "ONCONNECT"
    BY <1>1, HandledCommand DEF Base
  <2>2. ~Comes(c, "ONCONNECT")' /\ Comes(c, "ONCONNECT")
    BY <1>1, <1>2, <2>1, TakenComing
  <2> QED BY <2>2 DEF Paired, Announced
<1>5. conn[s] = NoConn /\ PoolInv'
  BY <1>3, AllocatesFree DEF Paired
<1>6. /\ client \in [Conns -> Sessions \cup {NoSession}] /\ conn \in [Sessions -> Conns \cup {NoConn}]
  BY DEF Base, TypeOK
<1>7. Announced'
  <2>1. ASSUME NEW d \in Conns, NEW kind \in {"ONCONNECT", "ONDISCONNECT"}, ComesOnce(d, kind)
        PROVE  ComesOnce(d, kind)' /\ (Comes(d, kind)' => Comes(d, kind))
    BY <1>1, <2>1, ComingLess, ComesLess
  <2>2. \A d \in Conns \ {c} : client'[d] = client[d]
    BY <1>3, <1>6
  <2> QED BY <1>1, <1>4, <2>1, <2>2 DEF Paired, Announced
<1>8. Held'
  <2>1. ASSUME NEW t \in Sessions, conn'[t] # NoConn
        PROVE  phase'[conn'[t]] # "idle" /\ client'[conn'[t]] = t
    <3>1. CASE t = s
      BY <1>1, <1>3, <1>4, <1>6, <3>1
    <3>2. CASE t # s
      <4>1. conn'[t] = conn[t] /\ conn[t] \in Conns /\ phase[conn[t]] # "idle" /\ client[conn[t]] = t
        BY <1>3, <1>6, <2>1, <3>2 DEF Paired, Held
      <4>2. conn[t] # c
        BY <1>4, <4>1, Nulls
      <4> QED BY <1>1, <1>3, <1>6, <4>1, <4>2
    <3> QED BY <3>1, <3>2
  <2>2. ASSUME NEW d \in Conns, phase'[d] # "idle", client'[d] # NoSession
        PROVE  conn'[client'[d]] = d
    <3>1. CASE d = c
      BY <1>3, <1>6, <3>1
    <3>2. CASE d # c
      <4>1. client'[d] = client[d] /\ client[d] \in Sessions /\ conn[client[d]] = d
        BY <1>1, <1>3, <1>6, <2>2, <3>2 DEF Paired, Held
      <4>2. client[d] # s
        BY <1>5, <4>1, Nulls
      <4> QED BY <1>3, <1>6, <4>1, <4>2
    <3> QED BY <3>1, <3>2
  <2> QED BY <2>1, <2>2 DEF Held
<1> QED BY <1>5, <1>7, <1>8 DEF Paired

(* Close gives back the connection whose OnDisconnect is being handled.    *)
LEMMA CloseSessionPaired ==
  ASSUME Base, Paired, CloseSession
  PROVE  /\ Paired'
         /\ conn[client[Current.conn]] = Current.conn /\ phase[Current.conn] = "lost"
         /\ Current.conn \in Conns
<1>1. PICK c, s :
        /\ c = Current.conn /\ s = client[c] /\ pc = "closing"
        /\ phase' = IF conn[s] # NoConn /\ phase[conn[s]] = "lost"
                      THEN [phase EXCEPT ![conn[s]] = "idle"] ELSE phase
        /\ conn' = [conn EXCEPT ![s] = NoConn]
        /\ pool' = Append(pool, s) /\ pc' = "batch" /\ pos' = pos + 1
        /\ UNCHANGED <<call, client, made, m_CommandList>>
  BY DEF CloseSession
<1>2. /\ pos \in 1 .. Len(m_CommandList) /\ Current.kind = "ONDISCONNECT" /\ s \in made
      /\ phase[c] = "lost"
  BY <1>1, QueueTypes DEF Base, Frame
<1>3. c \in Conns
  BY <1>1, <1>2, Listed, CommandParts DEF Base, Current
<1>4. /\ phase \in [Conns -> Phases] /\ made \subseteq Sessions /\ pool \in Seq(made)
      /\ conn \in [Sessions -> Conns \cup {NoConn}] /\ client \in [Conns -> Sessions \cup {NoSession}]
  BY DEF Base, TypeOK
<1>5. s \in Sessions /\ s # NoSession /\ conn[s] = c /\ c # NoConn
  BY <1>1, <1>2, <1>3, <1>4, Nulls DEF Paired, Held
<1>6. phase' = [phase EXCEPT ![c] = "idle"] /\ phase'[c] = "idle"
  BY <1>1, <1>2, <1>3, <1>4, <1>5
<1>7. Announced'
  <2>1. ASSUME NEW d \in Conns, NEW kind \in {"ONCONNECT", "ONDISCONNECT"}, ComesOnce(d, kind)
        PROVE  ComesOnce(d, kind)' /\ (Comes(d, kind)' => Comes(d, kind))
    BY <1>1, <2>1, ComingLess, ComesLess
  <2>2. ~Comes(c, "ONDISCONNECT")'
    BY <1>1, <1>2, <1>3, TakenComing
  <2>3. ~Comes(c, "ONCONNECT")
    BY <1>1, <1>3, <1>5 DEF Paired, Announced
  <2>4. \A d \in Conns \ {c} : phase'[d] = phase[d]
    BY <1>4, <1>6
  <2> QED BY <1>1, <2>1, <2>2, <2>3, <2>4 DEF Paired, Announced
<1>8. Held'
  <2>1. ASSUME NEW t \in Sessions, conn'[t] # NoConn
        PROVE  phase'[conn'[t]] # "idle" /\ client'[conn'[t]] = t
    <3>1. t # s /\ conn'[t] = conn[t] /\ conn[t] \in Conns
      BY <1>1, <1>4, <2>1
    <3>2. phase[conn[t]] # "idle" /\ client[conn[t]] = t
      BY <2>1, <3>1 DEF Paired, Held
    <3>3. conn[t] # c
      BY <1>1, <3>1, <3>2
    <3> QED BY <1>1, <1>4, <1>6, <3>1, <3>2, <3>3
  <2>2. ASSUME NEW d \in Conns, phase'[d] # "idle", client'[d] # NoSession
        PROVE  conn'[client'[d]] = d
    <3>1. d # c /\ phase[d] # "idle"
      BY <1>4, <1>6, <2>2
    <3>2. client[d] \in Sessions /\ conn[client[d]] = d
      BY <1>1, <1>4, <2>2, <3>1 DEF Paired, Held
    <3> QED BY <1>1, <1>4, <1>5, <3>1, <3>2
  <2> QED BY <2>1, <2>2 DEF Held
<1>9. PoolInv'
  <2>1. /\ Len(pool) \in Nat /\ Len(pool') = Len(pool) + 1 /\ pool'[Len(pool) + 1] = s
        /\ \A k \in 1 .. Len(pool) : pool'[k] = pool[k] /\ pool[k] \in made
    BY <1>1, <1>2, <1>4, <1>5
  <2>2. \A k \in 1 .. Len(pool') : k \in 1 .. Len(pool) \/ k = Len(pool) + 1
    BY <2>1
  <2>3. \A k \in 1 .. Len(pool) : pool[k] # s /\ k \in 1 .. Len(pool')
    <3>1. \A k \in 1 .. Len(pool) : pool[k] # s
      BY <1>5 DEF Paired, PoolInv
    <3> QED BY <2>1, <3>1
  <2>4. \A j, k \in 1 .. Len(pool') : pool'[j] = pool'[k] => j = k
    BY <2>1, <2>2, <2>3 DEF Paired, PoolInv
  <2>5. \A k \in 1 .. Len(pool') : conn'[pool'[k]] = NoConn
    <3> SUFFICES ASSUME NEW k \in 1 .. Len(pool') PROVE conn'[pool'[k]] = NoConn
      OBVIOUS
    <3>1. CASE k = Len(pool) + 1
      BY <1>1, <1>4, <1>5, <2>1, <3>1
    <3>2. CASE k \in 1 .. Len(pool)
      <4>1. pool'[k] = pool[k] /\ pool[k] # s /\ pool[k] \in Sessions /\ conn[pool[k]] = NoConn
        BY <1>4, <2>1, <2>3, <3>2 DEF Paired, PoolInv
      <4> QED BY <1>1, <1>4, <4>1
    <3> QED BY <2>2, <3>1, <3>2
  <2>6. \A t \in made' : conn'[t] = NoConn => \E k \in 1 .. Len(pool') : pool'[k] = t
    <3> SUFFICES ASSUME NEW t \in made, conn'[t] = NoConn, t # s
                 PROVE  \E k \in 1 .. Len(pool') : pool'[k] = t
      <4>1. Len(pool) + 1 \in 1 .. Len(pool')
        BY <2>1
      <4> QED BY <1>1, <2>1, <4>1
    <3>1. conn[t] = NoConn
      BY <1>1, <1>4
    <3>2. PICK k \in 1 .. Len(pool) : pool[k] = t
      BY <3>1 DEF Paired, PoolInv
    <3> QED BY <2>1, <2>3, <3>2
  <2> QED BY <2>4, <2>5, <2>6 DEF Paired, PoolInv
<1> QED BY <1>1, <1>2, <1>3, <1>5, <1>7, <1>8, <1>9 DEF Paired

LEMMA NextPaired == Base /\ Paired /\ [Next]_vars => Paired'
<1> SUFFICES ASSUME Base, Paired, [Next]_vars PROVE Paired'
  OBVIOUS
<1>1. CASE HandleNoSession \/ HandleIgnored \/ HandleOnData \/ HandleDisconnect \/ HandleSendData
           \/ HandleShutdown
  BY <1>1, KeepPaired DEF HandleNoSession, HandleIgnored, HandleOnData, HandleDisconnect,
                          HandleSendData, HandleShutdown, Done, netVars, sessionVars
<1>2. CASE Wait \/ TimesOut \/ WakesLate \/ EndBatch \/ HandleOnDisconnect \/ UNCHANGED vars
  BY <1>2, KeepPaired DEF Wait, TimesOut, WakesLate, EndBatch, HandleOnDisconnect, netVars,
                          sessionVars, threadVars, vars
<1>3. CASE WakesUp
  <2>1. pos = 1
    BY <1>3 DEF WakesUp, Base, TypeOK, Locked
  <2> QED BY <1>3, <2>1, KeepPaired DEF WakesUp, netVars, sessionVars
<1> QED
  BY <1>1, <1>2, <1>3, InitializePaired, CallbackPaired, PushPaired, HandleOnConnectPaired,
     CloseSessionPaired DEF Next, CommandHandler, Handle

LEMMA BaseOfSpec == Spec => [](Base /\ Paired)
<1>1. Base /\ Paired /\ [Next]_vars => Base' /\ Paired'
  BY NextBase, NextPaired DEF Paired
<1> QED BY <1>1, InitBase, InitPaired, PTL DEF Spec

LEMMA BaseFinds == Base => TypeOK /\ MapIsConnected
  BY DEF Base, Mapped

------------------------------------------------------------------------------
(* Shutting down                                                           *)

(* A connection is asked until it is lost, and nothing asks less of it.    *)
Asked(c) == c \in asked \/ phase[c] \notin {"open", "talking"}

LEMMA AskedStays ==
  ASSUME Base, ready, [Next]_vars
  PROVE  \A c \in Conns : Asked(c) => Asked(c)'
<1> USE DEF Base
<1>1. ASSUME NEW c \in Conns, Callbacks(c) PROVE \A d \in Conns : Asked(d) => Asked(d)'
  <2>1. CASE OnConnection(c)
    BY <2>1 DEF OnConnection, Network!Tell, Asked, TypeOK
  <2>2. CASE OnData(c) \/ OnDataNoMemory(c)
    BY <2>2 DEF OnData, OnDataNoMemory, Network!OnData, Network!Tell, Asked, TypeOK
  <2>3. CASE OnDisconnect(c)
    BY <2>3 DEF OnDisconnect, Network!OnDisconnect, Network!Tell, Asked, TypeOK
  <2> QED BY <1>1, <2>1, <2>2, <2>3 DEF Callbacks
<1>2. CASE CloseSession
  BY <1>2 DEF CloseSession, Asked, TypeOK
<1>3. CASE HandleDisconnect \/ HandleShutdown
  BY <1>3 DEF HandleDisconnect, HandleShutdown, Disconnect, Asked
<1>4. CASE \/ HandleOnConnect \/ HandleNoSession \/ HandleIgnored \/ HandleOnData
           \/ HandleOnDisconnect \/ HandleSendData
  BY <1>4 DEF HandleOnConnect, HandleNoSession, HandleIgnored, HandleOnData, HandleOnDisconnect,
              HandleSendData, netVars, Asked
<1>5. CASE Initialize \/ UNCHANGED vars
  BY <1>5 DEF Initialize, SetServer, InitializeSessionPool, StartCommandHandler, SetSessionServer,
              vars, netVars, Asked
<1>6. CASE Wait \/ TimesOut \/ WakesLate \/ WakesUp \/ EndBatch
  BY <1>6 DEF Wait, TimesOut, WakesLate, WakesUp, EndBatch, netVars, Asked
<1>7. CASE \/ \E c \in Conns : PushCallback(c)
           \/ \E kind \in AppCommands, i \in Ids : PushFromApp(kind, i)
  BY <1>7 DEF PushCallback, PushFromApp, netVars, Asked
<1> QED
  BY <1>1, <1>2, <1>3, <1>4, <1>5, <1>6, <1>7 DEF Next, CommandHandler, Handle

(* After that the map only shrinks, and its sessions keep their connections. *)
LEMMA MapShrinks ==
  ASSUME Base, ready, [Next]_vars, NEW i \in Ids, SessionMap'[i] # NoSession
  PROVE  SessionMap'[i] = SessionMap[i] /\ conn'[SessionMap[i]] = conn[SessionMap[i]]
<1> USE DEF Base
<1>1. CASE HandleOnConnect
  BY <1>1 DEF HandleOnConnect, Served
<1>2. CASE HandleOnDisconnect
  BY <1>2 DEF HandleOnDisconnect, TypeOK
<1>3. CASE CloseSession
  <2>1. SessionMap[i] # client[Current.conn] /\ SessionMap' = SessionMap
    BY <1>3 DEF CloseSession, Mapped
  <2> QED BY <1>3, <2>1 DEF CloseSession, TypeOK
<1>4. CASE \/ HandleNoSession \/ HandleIgnored \/ HandleOnData \/ HandleSendData
           \/ HandleDisconnect \/ HandleShutdown
  BY <1>4 DEF HandleNoSession, HandleIgnored, HandleOnData, HandleSendData, HandleDisconnect,
              HandleShutdown, sessionVars
<1>5. CASE Initialize \/ UNCHANGED vars
  BY <1>5 DEF Initialize, SetServer, InitializeSessionPool, StartCommandHandler, SetSessionServer,
              vars, sessionVars
<1>6. CASE Wait \/ TimesOut \/ WakesLate \/ WakesUp \/ EndBatch
  BY <1>6 DEF Wait, TimesOut, WakesLate, WakesUp, EndBatch, sessionVars
<1>7. CASE \E c \in Conns : Callbacks(c) \/ PushCallback(c)
  BY <1>7 DEF Callbacks, OnConnection, OnData, OnDataNoMemory, OnDisconnect, Callback,
              PushCallback, PushCommand, sessionVars
<1>8. CASE \E kind \in AppCommands, j \in Ids : PushFromApp(kind, j)
  BY <1>8 DEF PushFromApp, PushCommand, sessionVars
<1> QED
  BY <1>1, <1>2, <1>3, <1>4, <1>5, <1>6, <1>7, <1>8 DEF Next, CommandHandler, Handle

LEMMA ReadyStep == Base /\ [Next]_vars => (ready' <=> ready) \/ HandleShutdown
  BY DEF Next, CommandHandler, Handle, Initialize, SetServer, InitializeSessionPool,
         StartCommandHandler, SetSessionServer, Callbacks, OnConnection, OnData, OnDataNoMemory,
         OnDisconnect, Callback, PushCallback, PushFromApp, PushCommand, Wait, TimesOut, WakesLate,
         WakesUp, EndBatch, HandleOnConnect, HandleNoSession, HandleIgnored, HandleOnData,
         HandleOnDisconnect, CloseSession, HandleDisconnect, HandleSendData, vars, Base

(***************************************************************************)
(* Shutting down leaves out no session that m_SessionMap leads to: each is *)
(* lost or asked to disconnect, and from then on none is added to the map  *)
(* (EasyBaseServer::_OnCommandShutdown and _OnCommand).  For any number of *)
(* clients, commands of the application and failures, at any moment, also  *)
(* while Initialize is running.                                            *)
(***************************************************************************)
THEOREM ShutdownAsksAll == Spec => []ShutdownDisconnects
<1>1. Init => ShutdownDisconnects
  BY DEF Init, ShutdownDisconnects
<1>2. Base /\ Base' /\ ShutdownDisconnects /\ [Next]_vars => ShutdownDisconnects'
  <2> SUFFICES ASSUME Base, Base', ShutdownDisconnects, [Next]_vars, ready',
                      NEW i \in Ids, SessionMap'[i] # NoSession
               PROVE  Asked(conn[SessionMap[i]])'
    BY DEF ShutdownDisconnects, Asked
  <2>1. conn'[SessionMap'[i]] \in Conns
    <3>1. TypeOK' /\ MapIsConnected'
      BY DEF Base, Mapped
    <3>2. SessionMap'[i] \in Sessions /\ conn'[SessionMap'[i]] # NoConn
      BY <3>1 DEF MapIsConnected, TypeOK
    <3> QED BY <3>1, <3>2 DEF TypeOK
  <2>2. CASE ready
    <3>1. SessionMap'[i] = SessionMap[i] /\ conn'[SessionMap[i]] = conn[SessionMap[i]]
      BY <2>2, MapShrinks
    <3>2. Asked(conn[SessionMap[i]])
      BY <2>2, <3>1 DEF ShutdownDisconnects, Asked
    <3> QED BY <2>1, <2>2, <3>1, <3>2, AskedStays
  <2>3. CASE ~ready
    <3>1. HandleShutdown
      BY <2>3, ReadyStep
    <3>2. /\ Disconnect({SessionMap[j] : j \in Ids} \ {NoSession}) /\ UNCHANGED <<SessionMap, conn, phase>>
      BY <3>1 DEF HandleShutdown, sessionVars
    <3> QED BY <2>1, <3>2, Nulls DEF Disconnect, Asked
  <2> QED BY <2>2, <2>3
<1> QED BY <1>1, <1>2, BaseOfSpec, PTL DEF Spec

------------------------------------------------------------------------------
(* Sequences of commands                                                   *)

Waits(l, f, c) == {k \in f .. Len(l) : l[k].conn = c}
Holds(l, f, c, m) == \E k \in Waits(l, f, c) : l[k] = m
InOrder(l, f, c) == \A j, k \in Waits(l, f, c) : j < k => Rank(l[j]) < Rank(l[k])

LEMMA AppendedOther ==
  ASSUME NEW S, NEW l \in Seq(S), NEW f \in Nat \ {0}, NEW c, NEW m \in S, m.conn # c
  PROVE  /\ Waits(Append(l, m), f, c) = Waits(l, f, c)
         /\ \A x : Holds(Append(l, m), f, c, x) <=> Holds(l, f, c, x)
         /\ InOrder(Append(l, m), f, c) <=> InOrder(l, f, c)
<1> DEFINE a == Append(l, m)
<1>1. /\ Len(l) \in Nat /\ Len(a) = Len(l) + 1 /\ a[Len(l) + 1] = m
      /\ \A k \in 1 .. Len(l) : a[k] = l[k]
  OBVIOUS
<1> HIDE DEF a
<1>2. Waits(a, f, c) = Waits(l, f, c)
  <2>1. ASSUME NEW k \in f .. Len(a) PROVE (k \in f .. Len(l) /\ a[k] = l[k]) \/ a[k] = m
    BY <1>1
  <2>2. ASSUME NEW k \in f .. Len(l) PROVE k \in f .. Len(a) /\ a[k] = l[k]
    BY <1>1
  <2> QED BY <2>1, <2>2 DEF Waits
<1>3. \A k \in Waits(l, f, c) : a[k] = l[k]
  BY <1>1 DEF Waits
<1>4. \A x : Holds(a, f, c, x) <=> Holds(l, f, c, x)
  BY <1>2, <1>3 DEF Holds
<1>5. InOrder(a, f, c) <=> InOrder(l, f, c)
  BY <1>2, <1>3 DEF InOrder
<1> QED BY <1>2, <1>4, <1>5 DEF a

LEMMA AppendedOwn ==
  ASSUME NEW S, NEW l \in Seq(S), NEW f \in 1 .. Len(l) + 1, NEW c, NEW m \in S, m.conn = c
  PROVE  /\ Waits(Append(l, m), f, c) = Waits(l, f, c) \cup {Len(l) + 1}
         /\ \A x : Holds(Append(l, m), f, c, x) <=> Holds(l, f, c, x) \/ x = m
         /\ InOrder(Append(l, m), f, c)
              <=> InOrder(l, f, c) /\ \A x : Holds(l, f, c, x) => Rank(x) < Rank(m)
<1> DEFINE a == Append(l, m)  n == Len(l) + 1
<1>1. /\ Len(l) \in Nat /\ Len(a) = Len(l) + 1 /\ a[Len(l) + 1] = m
      /\ \A k \in 1 .. Len(l) : a[k] = l[k]
  OBVIOUS
<1>n. n \in Nat /\ n \in f .. Len(a) /\ a[n] = m
  BY <1>1
<1> HIDE DEF a
<1>2. Waits(a, f, c) = Waits(l, f, c) \cup {n}
  <2>1. ASSUME NEW k \in f .. Len(a) PROVE (k \in f .. Len(l) /\ a[k] = l[k]) \/ k = n
    BY <1>1
  <2>2. ASSUME NEW k \in f .. Len(l) PROVE k \in f .. Len(a) /\ a[k] = l[k]
    BY <1>1
  <2> HIDE DEF n
  <2> QED BY <1>n, <2>1, <2>2 DEF Waits
<1>3. \A k \in Waits(l, f, c) : a[k] = l[k] /\ k < n /\ k \in Nat
  BY <1>1 DEF Waits
<1>4. \A x : Holds(a, f, c, x) <=> Holds(l, f, c, x) \/ x = m
  <2> HIDE DEF n
  <2> QED BY <1>n, <1>2, <1>3 DEF Holds
<1>5. InOrder(a, f, c) => InOrder(l, f, c) /\ \A x : Holds(l, f, c, x) => Rank(x) < Rank(m)
  <2> HIDE DEF n
  <2> QED BY <1>n, <1>2, <1>3 DEF InOrder, Holds
<1>6. InOrder(l, f, c) /\ (\A x : Holds(l, f, c, x) => Rank(x) < Rank(m)) => InOrder(a, f, c)
  <2> SUFFICES ASSUME InOrder(l, f, c), \A x : Holds(l, f, c, x) => Rank(x) < Rank(m),
                      NEW j \in Waits(a, f, c), NEW k \in Waits(a, f, c), j < k
               PROVE  Rank(a[j]) < Rank(a[k])
    BY DEF InOrder
  <2> HIDE DEF n
  <2>1. CASE k = n
    <3>1. j \in Waits(l, f, c)
      BY <1>n, <1>2, <2>1
    <3>2. Holds(l, f, c, a[j])
      BY <1>3, <3>1 DEF Holds
    <3> QED BY <1>n, <2>1, <3>2
  <2>2. CASE k \in Waits(l, f, c)
    <3>1. j # n
      BY <1>n, <1>3, <2>2
    <3>2. j \in Waits(l, f, c)
      BY <1>2, <3>1
    <3> QED BY <1>3, <2>2, <3>2 DEF InOrder
  <2> QED BY <1>2, <2>1, <2>2
<1> QED BY <1>2, <1>4, <1>5, <1>6 DEF a, n

(* The first command leaves.                                               *)
LEMMA TakenOther ==
  ASSUME NEW S, NEW l \in Seq(S), NEW f \in 1 .. Len(l), NEW c, l[f].conn # c
  PROVE  Waits(l, f + 1, c) = Waits(l, f, c)
<1>1. \A k : k \in f .. Len(l) <=> k = f \/ k \in f + 1 .. Len(l)
  OBVIOUS
<1> QED BY <1>1 DEF Waits

LEMMA TakenOwn ==
  ASSUME NEW S, NEW l \in Seq(S), NEW f \in 1 .. Len(l), NEW c, l[f].conn = c, InOrder(l, f, c)
  PROVE  /\ InOrder(l, f + 1, c) /\ Holds(l, f, c, l[f])
         /\ \A x : Holds(l, f, c, x) => x = l[f] \/ Holds(l, f + 1, c, x)
         /\ \A x : Holds(l, f + 1, c, x) => Holds(l, f, c, x) /\ Rank(l[f]) < Rank(x)
<1>1. /\ \A k \in f + 1 .. Len(l) : f < k /\ k \in f .. Len(l)
      /\ \A k \in f .. Len(l) : k = f \/ k \in f + 1 .. Len(l)
      /\ f \in f .. Len(l)
  OBVIOUS
<1>2. f \in Waits(l, f, c) /\ \A k \in Waits(l, f + 1, c) : k \in Waits(l, f, c) /\ f < k
  BY <1>1 DEF Waits
<1>3. \A k \in Waits(l, f, c) : k = f \/ k \in Waits(l, f + 1, c)
  BY <1>1 DEF Waits
<1> QED BY <1>2, <1>3 DEF InOrder, Holds

LEMMA NoneWaits ==
  ASSUME NEW l, NEW f \in Nat, Len(l) \in Nat, f > Len(l), NEW c
  PROVE  Waits(l, f, c) = {}
BY DEF Waits

------------------------------------------------------------------------------
(* What the queue holds of a connection                                    *)

(* The first command in the list that is not handled.                      *)
First == IF pc = "closing" THEN pos + 1 ELSE pos

InHand(c, m) == call[c] # NoCall /\ m = call[c]

(* Together the list and the callback hold what the sessions miss, in the  *)
(* order in which they miss it.                                            *)
Kept(c) ==
  /\ InOrder(m_CommandList, First, c)
  /\ \A m : Holds(m_CommandList, First, c, m) /\ call[c] # NoCall => Rank(m) < Rank(call[c])
  /\ \A m : Holds(m_CommandList, First, c, m) \/ InHand(c, m) <=> Missing(c, m)

(* What the network told of a connection fits what the sessions were told. *)
SeenOK(c) ==
  /\ phase[c] \in {"idle", "open", "talking", "lost"}
  /\ seen[c] \in {"idle", "open", "talking", "lost"}
  /\ phase[c] = "idle" => seen[c] = "idle"
  /\ seen[c] = "lost" <=> (pc = "closing" /\ Current.conn = c)
  /\ seen[c] = "lost" => phase[c] = "lost" /\ \A n \in read[c] + 1 .. arrived[c] : n \in dropped[c]
  /\ seen[c] # "idle" => read[c] <= arrived[c]
  /\ \A n \in dropped[c] : n <= arrived[c]

(* A connection a session was told of and this session point to each other. *)
LinkInv ==
  /\ \A c \in Conns : seen[c] # "idle" => client[c] \in made /\ conn[client[c]] = c
  /\ \A s \in Sessions : conn[s] # NoConn => seen[conn[s]] # "idle" /\ client[conn[s]] = s

QueueInv == \A c \in Conns : Kept(c) /\ SeenOK(c)

ServeInv == Serving => QueueInv /\ LinkInv

------------------------------------------------------------------------------

LEMMA Ranks ==
  /\ DataMax \in Nat
  /\ \A c : Rank(Command("ONCONNECT", c, 0)) = 0
  /\ \A c, n : Rank(Command("ONDATA", c, n)) = n
  /\ \A c : Rank(Command("ONDISCONNECT", c, 0)) = DataMax + 1
  /\ \A k, c, n : Command(k, c, n).kind = k /\ Command(k, c, n).conn = c /\ Command(k, c, n).n = n
  BY SessionCounts DEF Rank, Command

LEMMA FirstIn ==
  ASSUME Base
  PROVE  First \in 1 .. Len(m_CommandList) + 1
<1>1. Len(m_CommandList) \in Nat /\ pos \in 1 .. Len(m_CommandList) + 1
      /\ (pc = "closing" => pos <= Len(m_CommandList))
  BY QueueTypes DEF Base, Frame
<1> QED BY <1>1 DEF First

(* What is missing is a command.                                           *)
LEMMA MissingCommands ==
  ASSUME TypeOK, NEW c \in Conns, NEW m, Missing(c, m)
  PROVE  m \in Commands /\ m # NoCall /\ m.conn = c /\ Rank(m) \in 0 .. DataMax + 1
<1>1. CASE m = Command("ONCONNECT", c, 0)
  BY <1>1, Ranks DEF Commands, Command, NoCall
<1>2. CASE m = Command("ONDISCONNECT", c, 0)
  BY <1>2, Ranks DEF Commands, Command, NoCall
<1>3. ASSUME NEW n \in (Given(c) + 1 .. arrived[c]) \ dropped[c], m = Command("ONDATA", c, n)
      PROVE  m \in Commands /\ m # NoCall /\ m.conn = c /\ Rank(m) \in 0 .. DataMax + 1
  <2>1. arrived[c] \in 0 .. DataMax /\ Given(c) \in 0 .. DataMax /\ DataMax \in Nat
    BY QueueTypes, Ranks DEF Given
  <2>2. n \in 0 .. DataMax /\ n \in 0 .. DataMax + 1
    BY <2>1
  <2>3. m \in Commands
    BY <1>3, <2>2 DEF Commands, Command
  <2>4. m.kind = "ONDATA" /\ m.conn = c /\ Rank(m) = n
    BY <1>3, Ranks
  <2> QED BY <2>2, <2>3, <2>4, Ranks DEF NoCall
<1> QED BY <1>1, <1>2, <1>3 DEF Missing

(* NothingLost in other words: the callback's command is the last.         *)
LEMMA KeptLosesNothing ==
  ASSUME Base, NEW c \in Conns, Kept(c)
  PROVE  /\ \A m \in Commands : (\E k \in Unhandled(c) : Made(c)[k] = m) <=> Missing(c, m)
         /\ \A j, k \in Unhandled(c) : j < k => Rank(Made(c)[j]) < Rank(Made(c)[k])
<1>1. Unhandled(c) = Waits(Made(c), First, c)
  BY DEF Unhandled, Waits, First
<1>2. (\A m : Holds(Made(c), First, c, m) <=> Missing(c, m)) /\ InOrder(Made(c), First, c)
  <2>1. CASE call[c] = NoCall
    BY <2>1 DEF Kept, Made, InHand
  <2>2. CASE call[c] # NoCall
    <3>1. Made(c) = Append(m_CommandList, call[c])
      BY <2>2 DEF Made
    <3>2. call[c] \in Commands /\ call[c].conn = c
      BY <2>2, QueueTypes DEF Base, Frame
    <3>3. First \in 1 .. Len(m_CommandList) + 1 /\ m_CommandList \in Seq(Commands)
      BY FirstIn, QueueTypes DEF Base
    <3>4. /\ \A m : Holds(Append(m_CommandList, call[c]), First, c, m)
                      <=> Holds(m_CommandList, First, c, m) \/ m = call[c]
          /\ InOrder(Append(m_CommandList, call[c]), First, c)
               <=> InOrder(m_CommandList, First, c)
                   /\ \A m : Holds(m_CommandList, First, c, m) => Rank(m) < Rank(call[c])
      BY <3>2, <3>3, AppendedOwn
    <3> QED BY <2>2, <3>1, <3>4 DEF Kept, InHand
  <2> QED BY <2>1, <2>2
<1> QED BY <1>1, <1>2 DEF Holds, InOrder

(* Nothing of connection c has changed.                                    *)
SameTold(c) ==
  /\ phase'[c] = phase[c] /\ seen'[c] = seen[c] /\ read'[c] = read[c]
  /\ arrived'[c] = arrived[c] /\ dropped'[c] = dropped[c]

SameQueue(c) ==
  /\ call'[c] = call[c]
  /\ \A m : Holds(m_CommandList', First', c, m) <=> Holds(m_CommandList, First, c, m)
  /\ InOrder(m_CommandList', First', c) <=> InOrder(m_CommandList, First, c)

LEMMA SameMissing ==
  ASSUME NEW c, SameTold(c)
  PROVE  \A m : Missing(c, m)' <=> Missing(c, m)
  BY DEF SameTold, Missing, Given

LEMMA SameKept ==
  ASSUME NEW c, Kept(c), SameTold(c), SameQueue(c)
  PROVE  Kept(c)'
  BY SameMissing DEF Kept, SameQueue, InHand

LEMMA SameSeen ==
  ASSUME NEW c, SeenOK(c), SameTold(c),
         (pc' = "closing" /\ Current'.conn = c) <=> (pc = "closing" /\ Current.conn = c)
  PROVE  SeenOK(c)'
  BY DEF SeenOK, SameTold

------------------------------------------------------------------------------
(* Steps of the queue                                                      *)

(* What leaves the list, the callbacks and the command thread's place.     *)
LEMMA SamePlace ==
  ASSUME UNCHANGED <<call, m_CommandList>>, First' = First
  PROVE  \A c \in Conns : SameQueue(c)
  BY DEF SameQueue

(* A list whose commands are all handled is cleared.                       *)
LEMMA ClearedQueue ==
  ASSUME Base, EndBatch
  PROVE  \A c \in Conns : SameQueue(c)
<1>1. /\ pc = "batch" /\ pc' = "top" /\ pos > Len(m_CommandList) /\ m_CommandList' = <<>>
      /\ pos' = 1 /\ call' = call
  BY DEF EndBatch, Move, netVars
<1>2. First = pos /\ First' = 1 /\ Len(m_CommandList') = 0 /\ Len(m_CommandList) \in Nat /\ pos \in Nat
  BY <1>1, QueueTypes DEF Base, First
<1>3. \A c : Waits(m_CommandList, First, c) = {} /\ Waits(m_CommandList', First', c) = {}
  BY <1>1, <1>2, NoneWaits
<1> QED BY <1>1, <1>3 DEF SameQueue, Holds, InOrder

(* A command is pushed that connection d has nothing to do with.           *)
LEMMA PushedOther ==
  ASSUME Base, NEW m \in Commands, PushCommand(m), NEW d \in Conns, m.conn # d, call'[d] = call[d]
  PROVE  SameQueue(d)
<1>1. m_CommandList' = Append(m_CommandList, m) /\ First' = First
  BY DEF PushCommand, First, Locked
<1>2. m_CommandList \in Seq(Commands) /\ First \in Nat \ {0}
  BY QueueTypes, FirstIn DEF Base
<1> QED BY <1>1, <1>2, AppendedOther DEF SameQueue

(* The command in a callback's hand goes to the end of the list.           *)
LEMMA PushedOwn ==
  ASSUME Base, NEW c \in Conns, PushCallback(c), Kept(c), SameTold(c)
  PROVE  Kept(c)'
<1>1. /\ call[c] # NoCall /\ call'[c] = NoCall
      /\ m_CommandList' = Append(m_CommandList, call[c]) /\ First' = First
  BY QueueTypes DEF PushCallback, PushCommand, First, Locked, Base
<1>2. /\ m_CommandList \in Seq(Commands) /\ First \in 1 .. Len(m_CommandList) + 1
      /\ call[c] \in Commands /\ call[c].conn = c
  BY <1>1, QueueTypes, FirstIn DEF Base, Frame
<1>3. /\ \A m : Holds(m_CommandList', First', c, m)
                  <=> Holds(m_CommandList, First, c, m) \/ m = call[c]
      /\ InOrder(m_CommandList', First', c)
           <=> InOrder(m_CommandList, First, c)
               /\ \A m : Holds(m_CommandList, First, c, m) => Rank(m) < Rank(call[c])
  <2>1. /\ \A m : Holds(Append(m_CommandList, call[c]), First, c, m)
                    <=> Holds(m_CommandList, First, c, m) \/ m = call[c]
        /\ InOrder(Append(m_CommandList, call[c]), First, c)
             <=> InOrder(m_CommandList, First, c)
                 /\ \A m : Holds(m_CommandList, First, c, m) => Rank(m) < Rank(call[c])
    BY <1>2, AppendedOwn
  <2> QED BY <1>1, <2>1
<1>4. InOrder(m_CommandList', First', c)
  BY <1>1, <1>3 DEF Kept
<1>5. \A m : Holds(m_CommandList', First', c, m) <=> Missing(c, m)'
  BY <1>1, <1>3, SameMissing DEF Kept, InHand
<1> QED BY <1>1, <1>4, <1>5 DEF Kept, InHand

(* A callback takes in hand what its connection will miss last.            *)
LEMMA CalledOwn ==
  ASSUME NEW c, Kept(c), call[c] = NoCall, call'[c] # NoCall,
         UNCHANGED m_CommandList, First' = First,
         \A m : Missing(c, m)' <=> Missing(c, m) \/ m = call'[c],
         \A m : Missing(c, m) => Rank(m) < Rank(call'[c])
  PROVE  Kept(c)'
<1>1. \A m : Holds(m_CommandList, First, c, m) <=> Missing(c, m)
  BY DEF Kept, InHand
<1> QED BY <1>1 DEF Kept, InHand

(* The first command of the list is handled.                               *)
HandledFirst ==
  /\ pc = "batch" /\ pos \in 1 .. Len(m_CommandList) /\ First = pos /\ First' = pos + 1
  /\ UNCHANGED <<call, m_CommandList>>

LEMMA HandlingFirst ==
  ASSUME Base, NEW kinds, Handling(kinds), UNCHANGED <<call, m_CommandList>>,
         Done \/ (pc' = "closing" /\ pos' = pos)
  PROVE  HandledFirst
  BY HandledCommand, DoneTypes DEF Base, HandledFirst, First, Handling

LEMMA HandledOther ==
  ASSUME Base, HandledFirst, NEW d \in Conns, Current.conn # d
  PROVE  SameQueue(d)
<1>1. m_CommandList \in Seq(Commands)
  BY QueueTypes DEF Base
<1>2. Waits(m_CommandList, pos + 1, d) = Waits(m_CommandList, pos, d)
  BY <1>1, TakenOther DEF HandledFirst, Current
<1> QED BY <1>2 DEF SameQueue, HandledFirst, Holds, InOrder

(* It is what its connection misses first.                                 *)
LEMMA HandledOwn ==
  ASSUME Base, HandledFirst, NEW c \in Conns, Current.conn = c, Kept(c)
  PROVE  /\ Missing(c, Current)
         /\ \A m : Missing(c, m) => m = Current \/ Rank(Current) < Rank(m)
         /\ (\A m : Missing(c, m)' <=> Missing(c, m) /\ m # Current) => Kept(c)'
<1> DEFINE l == m_CommandList
<1>1. l \in Seq(Commands) /\ pos \in 1 .. Len(l) /\ l[pos] = Current /\ InOrder(l, pos, c)
  BY QueueTypes DEF Base, HandledFirst, Current, Kept
<1>2. /\ InOrder(l, pos + 1, c) /\ Holds(l, pos, c, Current)
      /\ \A m : Holds(l, pos, c, m) => m = Current \/ Holds(l, pos + 1, c, m)
      /\ \A m : Holds(l, pos + 1, c, m) => Holds(l, pos, c, m) /\ Rank(Current) < Rank(m)
  BY <1>1, TakenOwn
<1>3. /\ \A m : Holds(l, pos, c, m) /\ call[c] # NoCall => Rank(m) < Rank(call[c])
      /\ \A m : Holds(l, pos, c, m) \/ InHand(c, m) <=> Missing(c, m)
  BY DEF Kept, HandledFirst
<1>4. Missing(c, Current)
  BY <1>2, <1>3
<1>5. \A m : InHand(c, m) => Rank(Current) < Rank(m)
  BY <1>2, <1>3 DEF InHand
<1>6. \A m : Missing(c, m) => m = Current \/ Rank(Current) < Rank(m)
  BY <1>2, <1>3, <1>5
<1>7. ~(Rank(Current) < Rank(Current))
  BY <1>4, MissingCommands DEF Base
<1>8. \A m : Holds(l, pos + 1, c, m) \/ InHand(c, m) <=> Missing(c, m) /\ m # Current
  BY <1>2, <1>3, <1>5, <1>7
<1>9. \A m : Holds(l, pos + 1, c, m) /\ call[c] # NoCall => Rank(m) < Rank(call[c])
  BY <1>2, <1>3
<1>10. m_CommandList' = l /\ First' = pos + 1 /\ call' = call
  BY DEF HandledFirst
<1> HIDE DEF l
<1> QED BY <1>2, <1>4, <1>6, <1>8, <1>9, <1>10 DEF Kept, InHand

------------------------------------------------------------------------------
(* Steps that tell the sessions nothing                                    *)

Closes(d) == pc = "closing" /\ Current.conn = d

LEMMA OneOf ==
  ASSUME QueueInv, NEW c, Kept(c)' /\ SeenOK(c)',
         \A d \in Conns \ {c} : SameTold(d) /\ SameQueue(d) /\ (Closes(d)' <=> Closes(d))
  PROVE  QueueInv'
<1> SUFFICES ASSUME NEW d \in Conns, d # c PROVE Kept(d)' /\ SeenOK(d)'
  BY DEF QueueInv
<1>1. Kept(d) /\ SeenOK(d) /\ SameTold(d) /\ SameQueue(d) /\ (Closes(d)' <=> Closes(d))
  BY DEF QueueInv
<1>2. Kept(d)'
  BY <1>1, SameKept
<1>3. SeenOK(d)'
  BY <1>1, SameSeen DEF Closes
<1> QED BY <1>2, <1>3

LEMMA NoneOf ==
  ASSUME QueueInv, \A d \in Conns : SameTold(d) /\ SameQueue(d) /\ (Closes(d)' <=> Closes(d))
  PROVE  QueueInv'
<1> SUFFICES ASSUME NEW d \in Conns PROVE Kept(d)' /\ SeenOK(d)'
  BY DEF QueueInv
<1>1. Kept(d) /\ SeenOK(d) /\ SameTold(d) /\ SameQueue(d) /\ (Closes(d)' <=> Closes(d))
  BY DEF QueueInv
<1>2. Kept(d)'
  BY <1>1, SameKept
<1>3. SeenOK(d)'
  BY <1>1, SameSeen DEF Closes
<1> QED BY <1>2, <1>3

LEMMA SameSessions ==
  ASSUME Base, LinkInv, UNCHANGED <<client, conn, made>>,
         \A c \in Conns : seen'[c] = "idle" <=> seen[c] = "idle"
  PROVE  LinkInv'
<1>1. \A s \in Sessions : conn[s] # NoConn => conn[s] \in Conns
  BY DEF Base, TypeOK
<1> QED BY <1>1 DEF LinkInv

LEMMA UntoldKept ==
  ASSUME NEW c, Kept(c), SameQueue(c), \A m : Missing(c, m)' <=> Missing(c, m)
  PROVE  Kept(c)'
  BY DEF Kept, SameQueue, InHand

LEMMA InitServes == Init => QueueInv /\ LinkInv
<1> SUFFICES ASSUME Init PROVE QueueInv /\ LinkInv
  OBVIOUS
<1>1. ASSUME NEW c \in Conns PROVE Kept(c) /\ SeenOK(c)
  <2>1. Waits(m_CommandList, First, c) = {}
    <3>1. m_CommandList = <<>> /\ First = 1
      BY DEF Init, First
    <3>2. Len(<<>>) = 0 /\ 1 > 0
      OBVIOUS
    <3> QED BY <3>1, <3>2, NoneWaits
  <2>2. \A m : ~Holds(m_CommandList, First, c, m) /\ ~InHand(c, m) /\ ~Missing(c, m)
    BY <2>1 DEF Holds, InHand, Missing, Init
  <2> QED BY <2>1, <2>2 DEF Kept, SeenOK, InOrder, Init
<1>2. LinkInv
  BY DEF Init, LinkInv
<1> QED BY <1>1, <1>2 DEF QueueInv

LEMMA InitializeServes ==
  ASSUME Base, QueueInv, LinkInv, Initialize
  PROVE  QueueInv' /\ LinkInv'
<1>1. /\ UNCHANGED <<netVars, client, conn, SessionMap, seen, read, m_CommandList, pos>>
      /\ pc' = pc \/ (pc = "off" /\ pc' = "top")
  <2>1. CASE StartCommandHandler
    BY <2>1 DEF StartCommandHandler, sessionVars, Base, TypeOK
  <2>2. CASE SetServer \/ InitializeSessionPool \/ SetSessionServer
    BY <2>2 DEF SetServer, InitializeSessionPool, SetSessionServer, sessionVars, threadVars
  <2> QED BY <2>1, <2>2 DEF Initialize
<1>2. QueueInv'
  <2>1. First' = First /\ UNCHANGED <<call, m_CommandList>>
    BY <1>1 DEF First, netVars
  <2>2. \A d \in Conns : SameTold(d) /\ (Closes(d)' <=> Closes(d))
    BY <1>1 DEF netVars, SameTold, Closes, Current
  <2> QED BY <2>1, <2>2, SamePlace, NoneOf
<1>3. LinkInv'
  <2>1. CASE InitializeSessionPool
    <3>1. made = {}
      BY <2>1 DEF InitializeSessionPool, Base, Frame
    <3>2. \A c \in Conns : seen[c] = "idle"
      BY <3>1 DEF LinkInv
    <3>3. \A s \in Sessions : conn[s] = NoConn
      BY <3>1 DEF Base, Frame
    <3> QED BY <1>1, <3>2, <3>3 DEF LinkInv
  <2>2. CASE SetServer \/ StartCommandHandler \/ SetSessionServer
    BY <2>2, SameSessions DEF SetServer, StartCommandHandler, SetSessionServer, sessionVars
  <2> QED BY <2>1, <2>2 DEF Initialize
<1> QED BY <1>2, <1>3

LEMMA WaitServes ==
  ASSUME Base, QueueInv, LinkInv, Wait \/ TimesOut \/ WakesLate \/ WakesUp \/ EndBatch
  PROVE  QueueInv' /\ LinkInv'
<1>1. /\ UNCHANGED <<netVars, sessionVars>> /\ pc # "closing" /\ pc' # "closing"
  BY DEF Wait, TimesOut, WakesLate, WakesUp, EndBatch, Move
<1>2. \A d \in Conns : SameTold(d) /\ ~Closes(d) /\ ~Closes(d)'
  BY <1>1 DEF netVars, sessionVars, SameTold, Closes
<1>3. \A d \in Conns : SameQueue(d)
  <2>1. CASE EndBatch
    BY <2>1, ClearedQueue
  <2>2. CASE Wait \/ TimesOut \/ WakesLate \/ WakesUp
    <3>1. pos' = pos /\ UNCHANGED <<call, m_CommandList>>
      BY <2>2 DEF Wait, TimesOut, WakesLate, WakesUp, Base, TypeOK, Locked, netVars
    <3> QED BY <1>1, <3>1, SamePlace DEF First
  <2> QED BY <2>1, <2>2
<1>4. LinkInv'
  BY <1>1, SameSessions DEF sessionVars
<1> QED BY <1>2, <1>3, <1>4, NoneOf

LEMMA PushServes ==
  ASSUME Base, QueueInv, LinkInv,
         \/ \E c \in Conns : PushCallback(c)
         \/ \E kind \in AppCommands, i \in Ids : PushFromApp(kind, i)
  PROVE  QueueInv' /\ LinkInv'
<1>1. /\ UNCHANGED <<phase, arrived, dropped, sessionVars>> /\ pc # "closing" /\ pc' # "closing"
  BY DEF PushCallback, PushFromApp, PushCommand, Locked, netVars
<1>2. \A d \in Conns : SameTold(d) /\ ~Closes(d) /\ ~Closes(d)'
  BY <1>1 DEF sessionVars, SameTold, Closes
<1>3. LinkInv'
  BY <1>1, SameSessions DEF sessionVars
<1>4. ASSUME NEW c \in Conns, PushCallback(c) PROVE QueueInv'
  <2>1. /\ call[c] \in Commands /\ call[c].conn = c /\ PushCommand(call[c])
        /\ \A d \in Conns \ {c} : call'[d] = call[d]
    BY <1>4, QueueTypes DEF PushCallback, Base, Frame
  <2>2. \A d \in Conns \ {c} : SameQueue(d)
    BY <2>1, PushedOther
  <2>3. Kept(c) /\ SeenOK(c)
    BY DEF QueueInv
  <2>4. Kept(c)' /\ SeenOK(c)'
    BY <1>2, <1>4, <2>3, PushedOwn, SameSeen DEF Closes
  <2> QED BY <1>2, <2>2, <2>4, OneOf
<1>5. ASSUME NEW kind \in AppCommands, NEW i \in Ids, PushFromApp(kind, i) PROVE QueueInv'
  <2>1. kind \in AppKinds
    BY Switches
  <2>2. Command(kind, NoConn, i) \in Commands /\ Command(kind, NoConn, i).conn = NoConn
    BY <2>1 DEF Commands, Command
  <2>3. PushCommand(Command(kind, NoConn, i)) /\ call' = call
    BY <1>5 DEF PushFromApp, netVars
  <2>4. \A d \in Conns : SameQueue(d)
    BY <2>2, <2>3, Nulls, PushedOther
  <2> QED BY <1>2, <2>4, NoneOf
<1> QED BY <1>3, <1>4, <1>5

(* A callback tells nothing of other connections.                          *)
LEMMA CallbackOthers ==
  ASSUME Base, NEW c \in Conns, Callbacks(c)
  PROVE  /\ \A d \in Conns \ {c} : SameTold(d) /\ SameQueue(d) /\ (Closes(d)' <=> Closes(d))
         /\ UNCHANGED <<conn, made, seen, read, threadVars>> /\ First' = First
         /\ client' = client \/ (client' = [client EXCEPT ![c] = NoSession] /\ phase[c] = "idle")
         /\ Closes(c)' <=> Closes(c)
<1>1. UNCHANGED <<conn, made, seen, read, threadVars>>
  BY DEF Callbacks, OnConnection, OnData, OnDataNoMemory, OnDisconnect, Callback, sessionVars
<1>a. client' = client \/ (client' = [client EXCEPT ![c] = NoSession] /\ phase[c] = "idle")
  BY DEF Callbacks, OnConnection, OnData, OnDataNoMemory, OnDisconnect, sessionVars, Network!Tell
<1>2. First' = First /\ \A d : Closes(d)' <=> Closes(d)
  BY <1>1 DEF First, Closes, Current, threadVars
<1>3. \A d \in Conns \ {c} : phase'[d] = phase[d] /\ arrived'[d] = arrived[d] /\ dropped'[d] = dropped[d]
  BY DEF Callbacks, OnConnection, OnData, OnDataNoMemory, OnDisconnect, Network!Tell,
         Network!OnData, Network!OnDisconnect, Base, TypeOK
<1>4. \A d \in Conns \ {c} : call'[d] = call[d]
  BY DEF Callbacks, OnConnection, OnData, OnDataNoMemory, OnDisconnect, Callback, Base, TypeOK
<1>5. \A d \in Conns \ {c} : SameTold(d) /\ SameQueue(d)
  BY <1>1, <1>2, <1>3, <1>4 DEF SameTold, SameQueue, threadVars
<1> QED BY <1>1, <1>a, <1>2, <1>5

(* The connection's own part: it takes in hand what will be missing last.  *)
LEMMA CallbackOwn ==
  ASSUME Base, Serving', ~ready, NEW c \in Conns, Kept(c), SeenOK(c), Callbacks(c)
  PROVE  Kept(c)' /\ SeenOK(c)'
<1>1. /\ UNCHANGED <<seen, read, threadVars>> /\ First' = First
      /\ (Closes(c)' <=> Closes(c)) /\ call[c] = NoCall
  BY CallbackOthers DEF Callbacks, OnConnection, OnData, OnDataNoMemory, OnDisconnect, Callback
<1>2. /\ phase \in [Conns -> Phases] /\ arrived \in [Conns -> 0 .. DataMax] /\ DataMax \in Nat
      /\ dropped \in [Conns -> SUBSET (1 .. DataMax)] /\ read \in [Conns -> 0 .. DataMax]
      /\ call \in [Conns -> Commands]
  BY QueueTypes, Ranks DEF Base
<1>3. UNCHANGED <<m_CommandList, seen, read>>
  BY <1>1 DEF threadVars
<1>a. Given(c) \in 0 .. DataMax /\ Given(c)' = Given(c)
  BY <1>2, <1>3 DEF Given
<1>4. ASSUME NEW k, NEW n, k # "none", Callback(c, k, n)
      PROVE  call'[c] = Command(k, c, n) /\ call'[c] # NoCall
  BY <1>2, <1>4, Ranks DEF Callback, Serving, NoCall
<1>5. CASE OnConnection(c)
  <2>1. /\ phase[c] = "idle" /\ phase'[c] = "open" /\ arrived'[c] = 0 /\ dropped'[c] = {}
        /\ call'[c] = Command("ONCONNECT", c, 0) /\ call'[c] # NoCall
    BY <1>2, <1>4, <1>5 DEF OnConnection, Network!Tell
  <2>2. seen[c] = "idle"
    BY <2>1 DEF SeenOK
  <2>3. \A m : ~Missing(c, m)
    BY <2>1 DEF Missing
  <2>4. Given(c) + 1 .. arrived'[c] = {}
    BY <1>a, <2>1
  <2>5. \A m : Missing(c, m)' <=> m = call'[c]
    BY <1>3, <1>a, <2>1, <2>2, <2>4 DEF Missing
  <2>6. Kept(c)'
    BY <1>1, <1>3, <2>1, <2>3, <2>5, CalledOwn
  <2>7. SeenOK(c)'
    BY <1>1, <1>3, <2>1, <2>2 DEF SeenOK, Closes
  <2> QED BY <2>6, <2>7
<1>6. CASE OnData(c)
  <2>1. PICK n : n = arrived[c] + 1
    OBVIOUS
  <2>2. /\ phase[c] \in {"open", "talking"} /\ phase'[c] = "talking" /\ arrived'[c] = n
        /\ dropped'[c] = dropped[c]
        /\ call'[c] = Command("ONDATA", c, n) /\ call'[c] # NoCall
    BY <1>2, <1>4, <1>6, <2>1 DEF OnData, Network!OnData, Network!Tell
  <2>3. arrived[c] \in Nat /\ n \in Nat /\ Given(c) <= arrived[c] /\ n \notin dropped[c]
        /\ seen[c] # "lost"
    <3>1. Given(c) <= arrived[c]
      BY <1>2 DEF Given, SeenOK
    <3>2. n \notin dropped[c]
      BY <1>2, <2>1 DEF SeenOK
    <3> QED BY <1>2, <2>1, <2>2, <3>1, <3>2 DEF SeenOK
  <2>4. \A k : k \in (Given(c) + 1 .. n) \ dropped[c]
                 <=> k \in (Given(c) + 1 .. arrived[c]) \ dropped[c] \/ k = n
    BY <1>a, <2>1, <2>3
  <2>5. \A m : Missing(c, m)' <=> Missing(c, m) \/ m = call'[c]
    BY <1>3, <1>a, <2>2, <2>4 DEF Missing
  <2>6. \A m : Missing(c, m) => Rank(m) < Rank(call'[c])
    <3>1. Rank(call'[c]) = n
      BY <2>2, Ranks
    <3>2. \A k \in Given(c) + 1 .. arrived[c] : k < n /\ 0 < n
      BY <1>a, <2>1, <2>3
    <3>3. 0 < n
      BY <1>2, <2>1
    <3> QED BY <2>2, <3>1, <3>2, <3>3, Ranks DEF Missing
  <2>7. Kept(c)'
    BY <1>1, <1>3, <2>2, <2>5, <2>6, CalledOwn
  <2>8. read[c] <= arrived[c] => read[c] <= n
    BY <1>2, <2>1
  <2>9. \A k \in dropped[c] : k <= n
    BY <1>2, <2>1 DEF SeenOK
  <2>10. SeenOK(c)'
    BY <1>1, <1>3, <2>2, <2>3, <2>8, <2>9 DEF SeenOK, Closes
  <2> QED BY <2>7, <2>10
<1>7. CASE OnDataNoMemory(c)
  <2>1. PICK n : n = arrived[c] + 1
    OBVIOUS
  <2>2. /\ phase[c] \in {"open", "talking"} /\ phase'[c] = "talking" /\ arrived'[c] = n
        /\ dropped'[c] = dropped[c] \cup {n} /\ call' = call
    BY <1>2, <1>7, <2>1 DEF OnDataNoMemory, Network!OnData, Network!Tell
  <2>3. arrived[c] \in Nat /\ n \in Nat /\ seen[c] # "lost"
    BY <1>2, <2>1, <2>2 DEF SeenOK
  <2>4. \A k : k \in (Given(c) + 1 .. n) \ (dropped[c] \cup {n})
                 <=> k \in (Given(c) + 1 .. arrived[c]) \ dropped[c]
    BY <1>a, <2>1, <2>3
  <2>5. \A m : Missing(c, m)' <=> Missing(c, m)
    BY <1>3, <1>a, <2>2, <2>4 DEF Missing
  <2>6. SameQueue(c)
    BY <1>1, <1>3, <2>2, SamePlace
  <2>7. Kept(c)'
    BY <2>5, <2>6, UntoldKept
  <2>8. read[c] <= arrived[c] => read[c] <= n
    BY <1>2, <2>1
  <2>9. \A k \in dropped[c] \cup {n} : k <= n
    BY <1>2, <2>1 DEF SeenOK
  <2>10. SeenOK(c)'
    BY <1>1, <1>3, <2>2, <2>3, <2>8, <2>9 DEF SeenOK, Closes
  <2> QED BY <2>7, <2>10
<1>8. CASE OnDisconnect(c)
  <2>1. /\ phase[c] \in {"open", "talking"} /\ phase'[c] = "lost"
        /\ UNCHANGED <<arrived, dropped>>
        /\ call'[c] = Command("ONDISCONNECT", c, 0) /\ call'[c] # NoCall
    BY <1>2, <1>4, <1>8 DEF OnDisconnect, Network!OnDisconnect, Network!Tell, SeenOK
  <2>2. seen[c] # "lost"
    BY <2>1 DEF SeenOK
  <2>3. \A m : Missing(c, m)' <=> Missing(c, m) \/ m = call'[c]
    BY <1>3, <1>a, <2>1, <2>2 DEF Missing
  <2>4. \A m : Missing(c, m) => Rank(m) < Rank(call'[c])
    <3>1. Rank(call'[c]) = DataMax + 1
      BY <2>1, Ranks
    <3>2. \A k \in Given(c) + 1 .. arrived[c] : k < DataMax + 1
      BY <1>2, <1>a
    <3>3. 0 < DataMax + 1
      BY <1>2
    <3> QED BY <2>1, <3>1, <3>2, <3>3, Ranks DEF Missing
  <2>5. Kept(c)'
    BY <1>1, <1>3, <2>1, <2>3, <2>4, CalledOwn
  <2>6. SeenOK(c)'
    BY <1>1, <1>3, <2>1, <2>2 DEF SeenOK, Closes
  <2> QED BY <2>5, <2>6
<1> QED BY <1>5, <1>6, <1>7, <1>8 DEF Callbacks

LEMMA CallbackServes ==
  ASSUME Base, QueueInv, LinkInv, Serving', ~ready, \E c \in Conns : Callbacks(c)
  PROVE  QueueInv' /\ LinkInv'
<1>1. PICK c \in Conns : Callbacks(c)
  OBVIOUS
<1>2. Kept(c)' /\ SeenOK(c)'
  BY <1>1, CallbackOwn DEF QueueInv
<1>3. QueueInv'
  BY <1>1, <1>2, CallbackOthers, OneOf
<1>4. /\ UNCHANGED <<conn, made, seen>>
      /\ client' = client \/ (client' = [client EXCEPT ![c] = NoSession] /\ phase[c] = "idle")
  BY <1>1, CallbackOthers
<1>5. LinkInv'
  <2>1. CASE client' = client
    BY <1>4, <2>1, SameSessions
  <2>2. CASE client' = [client EXCEPT ![c] = NoSession] /\ phase[c] = "idle"
    <3>1. seen[c] = "idle"
      BY <2>2 DEF QueueInv, SeenOK
    <3>2. \A d \in Conns \ {c} : client'[d] = client[d]
      BY <2>2 DEF Base, TypeOK
    <3>3. \A s \in Sessions : conn[s] # NoConn => conn[s] \in Conns
      BY DEF Base, TypeOK
    <3> QED BY <1>4, <3>1, <3>2, <3>3 DEF LinkInv
  <2> QED BY <1>4, <2>1, <2>2
<1> QED BY <1>3, <1>5

------------------------------------------------------------------------------
(* Handling commands                                                       *)

(* What a step of the command thread leaves of the other connections.      *)
LEMMA HandledOthers ==
  ASSUME Base, HandledFirst, NEW c, c = Current.conn, pc' # "closing" \/ Closes(c)',
         NEW d \in Conns, d # c
  PROVE  SameQueue(d) /\ (Closes(d)' <=> Closes(d))
<1>1. SameQueue(d)
  BY HandledOther
<1>2. ~Closes(d) /\ ~Closes(d)'
  BY DEF HandledFirst, Closes
<1> QED BY <1>1, <1>2

(* The parts of a command the network gave.                                *)
LEMMA NetworkCommand ==
  ASSUME Base, NEW kinds, Handling(kinds), kinds \subseteq {"ONCONNECT", "ONDATA", "ONDISCONNECT"}
  PROVE  Current.conn \in Conns /\ Current.kind \in kinds /\ pc = "batch"
BY HandledCommand, CommandParts DEF Base

(* A session is told of its connection before anything else.               *)
LEMMA ToldBefore ==
  ASSUME Base, HandledFirst, NEW c \in Conns, c = Current.conn, Kept(c), SeenOK(c),
         Current.kind \in {"ONDATA", "ONDISCONNECT"}
  PROVE  seen[c] \notin {"idle", "lost"} /\ phase[c] # "idle"
<1>1. /\ Missing(c, Current)
      /\ \A m : Missing(c, m) => m = Current \/ Rank(Current) < Rank(m)
  BY HandledOwn
<1>2. phase[c] # "idle"
  BY <1>1 DEF Missing
<1>3. seen[c] # "lost"
  BY DEF SeenOK, HandledFirst
<1>4. seen[c] # "idle"
  <2> SUFFICES ASSUME seen[c] = "idle" PROVE FALSE
    OBVIOUS
  <2>1. Missing(c, Command("ONCONNECT", c, 0)) /\ Rank(Command("ONCONNECT", c, 0)) = 0
    BY <1>2, Ranks DEF Missing
  <2>2. Current # Command("ONCONNECT", c, 0)
    BY Ranks
  <2>3. Rank(Current) < 0
    BY <1>1, <2>1, <2>2
  <2>4. Rank(Current) \in 0 .. DataMax + 1
    BY <1>1, MissingCommands DEF Base
  <2>5. DataMax \in Nat
    BY Ranks
  <2> QED BY <2>3, <2>4, <2>5
<1> QED BY <1>2, <1>3, <1>4

LEMMA HandleOnConnectServes ==
  ASSUME Base, PoolInv, QueueInv, LinkInv, HandleOnConnect
  PROVE  QueueInv' /\ LinkInv'
<1>1. Handling({"ONCONNECT"}) /\ Done /\ UNCHANGED netVars
  BY DEF HandleOnConnect, Served
<1>2. HandledFirst /\ Current.conn \in Conns /\ Current.kind = "ONCONNECT" /\ pc' = "batch"
  BY <1>1, HandlingFirst, NetworkCommand DEF netVars, Done
<1>3. PICK c \in Conns : c = Current.conn
  BY <1>2
<1>4. PICK s \in Sessions :
        /\ Allocate(s)
        /\ conn' = [conn EXCEPT ![s] = c] /\ client' = [client EXCEPT ![c] = s]
        /\ seen' = [seen EXCEPT ![c] = "open"] /\ read' = [read EXCEPT ![c] = 0]
  BY <1>3 DEF HandleOnConnect
<1>5. /\ client \in [Conns -> Sessions \cup {NoSession}] /\ conn \in [Sessions -> Conns \cup {NoConn}]
      /\ seen \in [Conns -> Phases] /\ read \in [Conns -> 0 .. DataMax]
      /\ arrived \in [Conns -> 0 .. DataMax] /\ DataMax \in Nat /\ made \subseteq Sessions
  BY Ranks DEF Base, TypeOK
<1>6. /\ Missing(c, Current) /\ Kept(c) /\ SeenOK(c)
      /\ (\A m : Missing(c, m)' <=> Missing(c, m) /\ m # Current) => Kept(c)'
  BY <1>2, <1>3, HandledOwn DEF QueueInv
<1>7. Current = Command("ONCONNECT", c, 0) /\ seen[c] = "idle" /\ phase[c] # "idle"
  BY <1>2, <1>6, Ranks DEF Missing
<1>8. seen'[c] = "open" /\ read'[c] = 0 /\ Given(c) = 0 /\ Given(c)' = 0
  BY <1>4, <1>5, <1>7 DEF Given
<1>9. \A m : Missing(c, m)' <=> Missing(c, m) /\ m # Current
  <2>1. UNCHANGED <<phase, arrived, dropped>>
    BY <1>1 DEF netVars
  <2>2. \A n : Command("ONDATA", c, n) # Current /\ Command("ONDISCONNECT", c, 0) # Current
    BY <1>7, Ranks
  <2> QED BY <1>7, <1>8, <2>1, <2>2 DEF Missing
<1>10. SeenOK(c)'
  <2>1. UNCHANGED <<phase, arrived, dropped>> /\ 0 <= arrived[c]
    BY <1>1, <1>5 DEF netVars
  <2> QED BY <1>2, <1>6, <1>7, <1>8, <2>1 DEF SeenOK
<1>11. QueueInv'
  <2>1. \A d \in Conns \ {c} : SameTold(d) /\ SameQueue(d) /\ (Closes(d)' <=> Closes(d))
    <3> SUFFICES ASSUME NEW d \in Conns, d # c
                 PROVE  SameTold(d) /\ SameQueue(d) /\ (Closes(d)' <=> Closes(d))
      OBVIOUS
    <3>1. SameTold(d)
      BY <1>1, <1>4, <1>5 DEF SameTold, netVars
    <3>2. SameQueue(d) /\ (Closes(d)' <=> Closes(d))
      BY <1>2, <1>3, HandledOthers
    <3> QED BY <3>1, <3>2
  <2> QED BY <1>6, <1>9, <1>10, <2>1, OneOf
<1>12. conn[s] = NoConn /\ s \in made' /\ made \subseteq made'
  BY <1>4, AllocatesFree
<1>13. LinkInv'
  <2>1. ASSUME NEW d \in Conns, seen'[d] # "idle" PROVE client'[d] \in made' /\ conn'[client'[d]] = d
    <3>1. CASE d = c
      BY <1>4, <1>5, <1>12, <3>1
    <3>2. CASE d # c
      <4>1. client'[d] = client[d] /\ client[d] \in made /\ conn[client[d]] = d
        BY <1>4, <1>5, <2>1, <3>2 DEF LinkInv
      <4>2. client[d] # s
        BY <1>12, <4>1, Nulls
      <4> QED BY <1>4, <1>5, <1>12, <4>1, <4>2
    <3> QED BY <3>1, <3>2
  <2>2. ASSUME NEW t \in Sessions, conn'[t] # NoConn PROVE seen'[conn'[t]] # "idle" /\ client'[conn'[t]] = t
    <3>1. CASE t = s
      BY <1>4, <1>5, <3>1
    <3>2. CASE t # s
      <4>1. conn'[t] = conn[t] /\ conn[t] \in Conns /\ seen[conn[t]] # "idle" /\ client[conn[t]] = t
        BY <1>4, <1>5, <2>2, <3>2 DEF LinkInv
      <4>2. conn[t] # c
        BY <1>7, <4>1
      <4> QED BY <1>4, <1>5, <4>1, <4>2
    <3> QED BY <3>1, <3>2
  <2> QED BY <2>1, <2>2 DEF LinkInv
<1> QED BY <1>11, <1>12, <1>13

LEMMA HandleOnDataServes ==
  ASSUME Base, QueueInv, LinkInv, HandleOnData
  PROVE  QueueInv' /\ LinkInv'
<1>1. /\ Handling({"ONDATA"}) /\ Done
      /\ UNCHANGED <<netVars, client, conn, made>>
      /\ seen' = [seen EXCEPT ![Current.conn] = "talking"]
      /\ read' = [read EXCEPT ![Current.conn] = Current.n]
  BY DEF HandleOnData, Served
<1>2. HandledFirst /\ Current.conn \in Conns /\ Current.kind = "ONDATA" /\ pc' = "batch"
  BY <1>1, HandlingFirst, NetworkCommand DEF netVars, Done
<1>3. PICK c \in Conns : c = Current.conn
  BY <1>2
<1>4. /\ seen \in [Conns -> Phases] /\ read \in [Conns -> 0 .. DataMax]
      /\ arrived \in [Conns -> 0 .. DataMax] /\ DataMax \in Nat
  BY Ranks DEF Base, TypeOK
<1>5. /\ Missing(c, Current) /\ Kept(c) /\ SeenOK(c)
      /\ \A m : Missing(c, m) => m = Current \/ Rank(Current) < Rank(m)
      /\ (\A m : Missing(c, m)' <=> Missing(c, m) /\ m # Current) => Kept(c)'
  BY <1>2, <1>3, HandledOwn DEF QueueInv
<1>6. seen[c] \notin {"idle", "lost"} /\ phase[c] # "idle"
  BY <1>2, <1>3, <1>5, ToldBefore
<1>7. PICK n \in (Given(c) + 1 .. arrived[c]) \ dropped[c] : Current = Command("ONDATA", c, n)
  BY <1>2, <1>5, Ranks DEF Missing
<1>8. Given(c) = read[c] /\ read[c] \in Nat /\ n \in Nat /\ read[c] < n /\ n <= arrived[c]
  BY <1>4, <1>6, <1>7 DEF Given
<1>9. /\ seen'[c] = "talking" /\ read'[c] = n /\ Given(c)' = n
      /\ UNCHANGED <<phase, arrived, dropped>>
  BY <1>1, <1>3, <1>4, <1>7, Ranks DEF Given, netVars
<1>10. \A k : k \in (n + 1 .. arrived[c]) \ dropped[c]
                <=> k \in (Given(c) + 1 .. arrived[c]) \ dropped[c] /\ k # n
  <2>1. ASSUME NEW k \in (Given(c) + 1 .. arrived[c]) \ dropped[c], k # n PROVE n < k
    <3>1. Missing(c, Command("ONDATA", c, k))
      BY <1>6, <2>1 DEF Missing
    <3>2. Command("ONDATA", c, k) # Current
      BY <1>7, <2>1, Ranks
    <3>3. Rank(Current) < Rank(Command("ONDATA", c, k))
      BY <1>5, <3>1, <3>2
    <3> QED BY <1>7, <3>3, Ranks
  <2>2. \A k \in (Given(c) + 1 .. arrived[c]) \ dropped[c] : k # n => k \in n + 1 .. arrived[c]
    BY <1>4, <1>8, <2>1
  <2>3. \A k \in n + 1 .. arrived[c] : k \in Given(c) + 1 .. arrived[c] /\ k # n
    BY <1>4, <1>8
  <2> QED BY <2>2, <2>3
<1>11. \A m : Missing(c, m)' <=> Missing(c, m) /\ m # Current
  <2>1. \A k : Command("ONDATA", c, k) = Current <=> k = n
    BY <1>7, Ranks
  <2>2. Command("ONDISCONNECT", c, 0) # Current
    BY <1>7, Ranks
  <2> QED BY <1>6, <1>9, <1>10, <2>1, <2>2 DEF Missing
<1>12. SeenOK(c)'
  BY <1>2, <1>5, <1>6, <1>8, <1>9 DEF SeenOK
<1>13. \A d \in Conns \ {c} : SameTold(d) /\ SameQueue(d) /\ (Closes(d)' <=> Closes(d))
  <2> SUFFICES ASSUME NEW d \in Conns, d # c
               PROVE  SameTold(d) /\ SameQueue(d) /\ (Closes(d)' <=> Closes(d))
    OBVIOUS
  <2>1. SameTold(d)
    BY <1>1, <1>3, <1>4, <1>9 DEF SameTold
  <2>2. SameQueue(d) /\ (Closes(d)' <=> Closes(d))
    BY <1>2, <1>3, HandledOthers
  <2> QED BY <2>1, <2>2
<1>14. QueueInv'
  BY <1>5, <1>11, <1>12, <1>13, OneOf
<1>15. \A d \in Conns : seen'[d] = "idle" <=> seen[d] = "idle"
  BY <1>1, <1>3, <1>4, <1>6
<1> QED BY <1>1, <1>14, <1>15, SameSessions

LEMMA HandleOnDisconnectServes ==
  ASSUME Base, QueueInv, LinkInv, HandleOnDisconnect
  PROVE  QueueInv' /\ LinkInv'
<1>1. /\ Handling({"ONDISCONNECT"}) /\ pc' = "closing"
      /\ UNCHANGED <<netVars, client, conn, pool, made, read, m_CommandList, pos>>
      /\ seen' = [seen EXCEPT ![Current.conn] = "lost"]
  BY DEF HandleOnDisconnect
<1>2. HandledFirst /\ Current.conn \in Conns /\ Current.kind = "ONDISCONNECT"
  BY <1>1, HandlingFirst, NetworkCommand DEF netVars
<1>3. PICK c \in Conns : c = Current.conn
  BY <1>2
<1>4. /\ seen \in [Conns -> Phases] /\ read \in [Conns -> 0 .. DataMax]
      /\ arrived \in [Conns -> 0 .. DataMax] /\ DataMax \in Nat
  BY Ranks DEF Base, TypeOK
<1>5. /\ Missing(c, Current) /\ Kept(c) /\ SeenOK(c)
      /\ \A m : Missing(c, m) => m = Current \/ Rank(Current) < Rank(m)
      /\ (\A m : Missing(c, m)' <=> Missing(c, m) /\ m # Current) => Kept(c)'
  BY <1>2, <1>3, HandledOwn DEF QueueInv
<1>6. seen[c] \notin {"idle", "lost"} /\ phase[c] # "idle"
  BY <1>2, <1>3, <1>5, ToldBefore
<1>7. Current = Command("ONDISCONNECT", c, 0) /\ phase[c] = "lost"
  BY <1>2, <1>5, Ranks DEF Missing
<1>8. \A m : Missing(c, m) => m = Current
  <2>1. Rank(Current) = DataMax + 1
    BY <1>7, Ranks
  <2>2. ASSUME NEW m, Missing(c, m) PROVE ~(Rank(Current) < Rank(m))
    <3>1. Rank(m) \in 0 .. DataMax + 1
      BY <2>2, MissingCommands DEF Base
    <3> QED BY <1>4, <2>1, <3>1
  <2> QED BY <1>5, <2>2
<1>9. /\ seen'[c] = "lost" /\ read' = read /\ Given(c)' = read[c] /\ Given(c) = read[c]
      /\ UNCHANGED <<phase, arrived, dropped>>
  BY <1>1, <1>3, <1>4, <1>6 DEF Given, netVars
<1>10. \A n \in read[c] + 1 .. arrived[c] : n \in dropped[c]
  <2> SUFFICES ASSUME NEW n \in read[c] + 1 .. arrived[c], n \notin dropped[c] PROVE FALSE
    OBVIOUS
  <2>1. Missing(c, Command("ONDATA", c, n))
    BY <1>6, <1>9 DEF Missing
  <2> QED BY <1>7, <1>8, <2>1, Ranks
<1>11. \A m : Missing(c, m)' <=> Missing(c, m) /\ m # Current
  <2>1. \A m : ~Missing(c, m)'
    BY <1>9, <1>10 DEF Missing
  <2> QED BY <1>8, <2>1
<1>12. Current' = Current
  BY <1>1 DEF Current
<1>13. SeenOK(c)'
  BY <1>1, <1>3, <1>5, <1>6, <1>7, <1>9, <1>10, <1>12 DEF SeenOK
<1>14. \A d \in Conns \ {c} : SameTold(d) /\ SameQueue(d) /\ (Closes(d)' <=> Closes(d))
  <2> SUFFICES ASSUME NEW d \in Conns, d # c
               PROVE  SameTold(d) /\ SameQueue(d) /\ (Closes(d)' <=> Closes(d))
    OBVIOUS
  <2>1. SameTold(d)
    BY <1>1, <1>3, <1>4, <1>9 DEF SameTold
  <2>2. Closes(c)'
    BY <1>1, <1>3, <1>12 DEF Closes
  <2>3. SameQueue(d) /\ (Closes(d)' <=> Closes(d))
    BY <1>2, <1>3, <2>2, HandledOthers
  <2> QED BY <2>1, <2>3
<1>15. QueueInv'
  BY <1>5, <1>11, <1>13, <1>14, OneOf
<1>16. \A d \in Conns : seen'[d] = "idle" <=> seen[d] = "idle"
  BY <1>1, <1>3, <1>4, <1>6
<1> QED BY <1>1, <1>15, <1>16, SameSessions

(* Close gives back the connection whose OnDisconnect is being handled.    *)
LEMMA CloseSessionServes ==
  ASSUME Base, QueueInv, LinkInv, CloseSession
  PROVE  QueueInv' /\ LinkInv'
<1>1. PICK c, s :
        /\ c = Current.conn /\ s = client[c] /\ pc = "closing"
        /\ phase' = IF conn[s] # NoConn /\ phase[conn[s]] = "lost"
                      THEN [phase EXCEPT ![conn[s]] = "idle"] ELSE phase
        /\ seen' = [seen EXCEPT ![c] = "idle"] /\ conn' = [conn EXCEPT ![s] = NoConn]
        /\ pool' = Append(pool, s) /\ pc' = "batch" /\ pos' = pos + 1
        /\ UNCHANGED <<call, arrived, dropped, client, made, read, m_CommandList>>
  BY DEF CloseSession
<1>2. c \in Conns
  <2>1. pos \in 1 .. Len(m_CommandList) /\ Current.kind = "ONDISCONNECT"
    BY <1>1 DEF Base, Frame, TypeOK
  <2>2. Current \in Commands \ {NoCall}
    BY <2>1, Listed DEF Base, Current
  <2> QED BY <1>1, <2>1, <2>2, CommandParts
<1>3. Kept(c) /\ SeenOK(c) /\ seen[c] = "lost" /\ phase[c] = "lost"
      /\ \A n \in read[c] + 1 .. arrived[c] : n \in dropped[c]
  BY <1>1, <1>2 DEF QueueInv, SeenOK
<1>4. s \in made /\ conn[s] = c /\ c # NoConn
  BY <1>1, <1>2, <1>3, Nulls DEF LinkInv
<1>5. /\ phase \in [Conns -> Phases] /\ seen \in [Conns -> Phases] /\ made \subseteq Sessions
      /\ conn \in [Sessions -> Conns \cup {NoConn}] /\ pool \in Seq(made)
  BY DEF Base, TypeOK
<1>6. phase' = [phase EXCEPT ![c] = "idle"] /\ phase'[c] = "idle" /\ seen'[c] = "idle"
  BY <1>1, <1>2, <1>3, <1>4, <1>5
<1>7. First' = First /\ UNCHANGED <<call, m_CommandList>>
  BY <1>1 DEF First
<1>8. \A m : ~Missing(c, m) /\ ~Missing(c, m)'
  BY <1>3, <1>6 DEF Missing, Given
<1>9. Kept(c)'
  BY <1>2, <1>3, <1>7, <1>8, SamePlace, UntoldKept
<1>10. SeenOK(c)'
  BY <1>1, <1>3, <1>6 DEF SeenOK
<1>11. \A d \in Conns \ {c} : SameTold(d) /\ SameQueue(d) /\ (Closes(d)' <=> Closes(d))
  <2> SUFFICES ASSUME NEW d \in Conns, d # c
               PROVE  SameTold(d) /\ SameQueue(d) /\ (Closes(d)' <=> Closes(d))
    OBVIOUS
  <2>1. SameTold(d)
    BY <1>1, <1>5, <1>6 DEF SameTold
  <2>2. ~Closes(d) /\ ~Closes(d)'
    BY <1>1 DEF Closes
  <2> QED BY <1>7, <2>1, <2>2, SamePlace
<1>12. QueueInv'
  BY <1>9, <1>10, <1>11, OneOf
<1>13. LinkInv'
  <2>1. ASSUME NEW d \in Conns, seen'[d] # "idle" PROVE client'[d] \in made' /\ conn'[client'[d]] = d
    <3>1. d # c
      BY <1>6, <2>1
    <3>2. client[d] \in made /\ conn[client[d]] = d /\ client[d] # s
      BY <1>1, <1>4, <1>5, <2>1, <3>1 DEF LinkInv
    <3> QED BY <1>1, <1>5, <3>2
  <2>2. ASSUME NEW t \in Sessions, conn'[t] # NoConn PROVE seen'[conn'[t]] # "idle" /\ client'[conn'[t]] = t
    <3>1. t # s /\ conn'[t] = conn[t] /\ conn[t] \in Conns
      BY <1>1, <1>5, <2>2
    <3>2. seen[conn[t]] # "idle" /\ client[conn[t]] = t
      BY <3>1, <2>2 DEF LinkInv
    <3>3. conn[t] # c
      BY <1>1, <3>1, <3>2
    <3> QED BY <1>1, <1>5, <3>1, <3>2, <3>3
  <2> QED BY <2>1, <2>2 DEF LinkInv
<1> QED BY <1>12, <1>13

(* As long as the server serves there is a session for every command.      *)
LEMMA SessionFound ==
  ASSUME Base, QueueInv, LinkInv, HandleNoSession
  PROVE  FALSE
<1>1. /\ Handling({"ONDATA", "ONDISCONNECT"}) /\ Done /\ UNCHANGED netVars
  BY DEF HandleNoSession
<1>2. HandledFirst /\ Current.conn \in Conns /\ Current.kind \in {"ONDATA", "ONDISCONNECT"}
  BY <1>1, HandlingFirst, NetworkCommand DEF netVars, Done
<1>3. PICK c \in Conns : c = Current.conn
  BY <1>2
<1>4. seen[c] # "idle"
  BY <1>2, <1>3, ToldBefore DEF QueueInv
<1>5. client[c] \in made /\ made \subseteq Sessions
  BY <1>4 DEF LinkInv, Base, TypeOK
<1>6. client[c] # NoSession
  BY <1>5, Nulls
<1> QED BY <1>3, <1>6 DEF HandleNoSession

(* Commands of the application are about no connection.                    *)
LEMMA AppCommandServes ==
  ASSUME Base, QueueInv, LinkInv, HandleDisconnect \/ HandleSendData
  PROVE  QueueInv' /\ LinkInv'
<1>1. /\ Handling({"DISCONNECT", "SENDDATA"}) /\ Done
      /\ UNCHANGED <<phase, call, arrived, dropped, sessionVars>>
  BY DEF HandleDisconnect, HandleSendData, Served, Handling, netVars
<1>2. HandledFirst /\ pc' = "batch"
  BY <1>1, HandlingFirst DEF Done, Handling
<1>3. Current.conn = NoConn
  <2>1. Current \in Commands \ {NoCall} /\ Current.kind \in {"DISCONNECT", "SENDDATA"}
    BY <1>1, HandledCommand DEF Base
  <2> QED BY <2>1, CommandParts DEF AppKinds
<1>4. ASSUME NEW d \in Conns PROVE SameTold(d) /\ SameQueue(d) /\ (Closes(d)' <=> Closes(d))
  <2>1. SameTold(d)
    BY <1>1 DEF SameTold, sessionVars
  <2>2. d # NoConn
    BY Nulls
  <2>3. SameQueue(d) /\ (Closes(d)' <=> Closes(d))
    BY <1>2, <1>3, <2>2, HandledOthers
  <2> QED BY <2>1, <2>3
<1>5. QueueInv'
  BY <1>4, NoneOf
<1> QED BY <1>1, <1>5, SameSessions DEF sessionVars

(* Serving begins with Init and does not begin again.                      *)
LEMMA ServingBefore ==
  ASSUME Base, [Next]_vars, Serving'
  PROVE  Serving /\ ~ready /\ ~HandleShutdown /\ ~HandleIgnored
<1>1. ~HandleShutdown
  BY DEF HandleShutdown, Serving
<1>2. ~ready
  BY <1>1, ReadyStep DEF Serving
<1>3. ~crashed
  BY DEF Next, vars, Serving
<1> QED BY <1>1, <1>2, <1>3 DEF Serving, HandleIgnored

LEMMA NextServes ==
  ASSUME Base, Paired, QueueInv, LinkInv, [Next]_vars, Serving'
  PROVE  QueueInv' /\ LinkInv'
<1>1. ~ready /\ ~HandleShutdown /\ ~HandleIgnored
  BY ServingBefore
<1>2. CASE UNCHANGED vars
  <2>1. \A d \in Conns : SameTold(d) /\ (Closes(d)' <=> Closes(d))
    BY <1>2 DEF vars, netVars, sessionVars, threadVars, SameTold, Closes, Current
  <2>2. UNCHANGED <<call, m_CommandList>> /\ First' = First
    BY <1>2 DEF vars, netVars, threadVars, First
  <2>3. QueueInv'
    BY <2>1, <2>2, SamePlace, NoneOf
  <2> QED BY <1>2, <2>3, SameSessions DEF vars, sessionVars
<1>3. CASE \E c \in Conns : Callbacks(c)
  BY <1>1, <1>3, CallbackServes
<1>4. CASE Handle
  BY <1>1, <1>4, HandleOnConnectServes, SessionFound, HandleOnDataServes,
     HandleOnDisconnectServes,
     CloseSessionServes, AppCommandServes DEF Handle, Paired
<1> QED
  BY <1>2, <1>3, <1>4, InitializeServes, PushServes, WaitServes DEF Next, CommandHandler

LEMMA ServeOfSpec == Spec => [](Base /\ ServeInv)
<1>1. Init => ServeInv
  BY InitServes DEF ServeInv
<1>2. Base /\ Paired /\ ServeInv /\ [Next]_vars => ServeInv'
  BY ServingBefore, NextServes DEF ServeInv
<1> QED BY <1>1, <1>2, BaseOfSpec, PTL DEF Spec

------------------------------------------------------------------------------
(* What the sessions and the application can rely on                       *)

LEMMA Exclusive ==
  ASSUME Base, Held, PoolInv
  PROVE  SessionsExclusive
<1> SUFFICES ASSUME NEW s \in made
             PROVE  LET places == {k \in 1 .. Len(pool) : pool[k] = s}
                    IN IF conn[s] = NoConn THEN Cardinality(places) = 1
                                           ELSE places = {} /\ client[conn[s]] = s
  BY DEF SessionsExclusive
<1> DEFINE places == {k \in 1 .. Len(pool) : pool[k] = s}
<1>1. CASE conn[s] = NoConn
  <2>1. PICK k \in 1 .. Len(pool) : pool[k] = s
    BY <1>1 DEF PoolInv
  <2>2. places = {k}
    BY <2>1 DEF PoolInv
  <2>3. Cardinality({k}) = 1
    BY FS_Singleton
  <2> QED BY <1>1, <2>2, <2>3
<1>2. CASE conn[s] # NoConn
  <2>1. places = {}
    BY <1>2 DEF PoolInv
  <2>2. client[conn[s]] = s
    BY <1>2 DEF Held, Base, TypeOK
  <2> QED BY <1>2, <2>1, <2>2
<1> QED BY <1>1, <1>2

LEMMA Closing == Base /\ Held => ClosesLost
<1> SUFFICES ASSUME Base, Held, pc = "closing"
             PROVE  conn[client[Current.conn]] = Current.conn /\ phase[Current.conn] = "lost"
  BY DEF ClosesLost
<1>1. Current \in Commands \ {NoCall} /\ Current.kind = "ONDISCONNECT"
  BY QueueTypes, Listed DEF Base, Frame, Current
<1>2. Current.conn \in Conns
  BY <1>1, CommandParts
<1>3. phase[Current.conn] = "lost" /\ client[Current.conn] # NoSession
  BY Nulls DEF Base, Frame, TypeOK
<1> QED BY <1>2, <1>3 DEF Held

(***************************************************************************)
(* Types; m_SessionMap leads to connected sessions under their own         *)
(* identifiers; a session made is in EasyPool's list exactly once or       *)
(* belongs to the one connection whose client_ leads back to it; and it    *)
(* closes that connection only after its OnDisconnect, also when the       *)
(* server has been told to shut down with the commands of a new use of the *)
(* connection in its queue.  For any number of connections, sessions and   *)
(* identifiers.                                                            *)
(***************************************************************************)
THEOREM SessionsKept == Spec => []SessionsOK
<1>1. Base /\ Paired => SessionsOK
  BY BaseFinds, Exclusive, Closing DEF Paired, SessionsOK
<1> QED BY <1>1, BaseOfSpec, PTL

(***************************************************************************)
(* m_CommandList with the commands in the hands of the callbacks is, for   *)
(* every connection, exactly what separates what its session was told from *)
(* what the network told: none lost, none doubled, none overtaken, however *)
(* the threads interleave, and whenever CopyData gets no memory.           *)
(***************************************************************************)
THEOREM QueueLosesNothing == Spec => []NothingLost
<1>1. Base /\ ServeInv => NothingLost
  BY KeptLosesNothing DEF ServeInv, QueueInv, NothingLost
<1> QED BY <1>1, ServeOfSpec, PTL

(***************************************************************************)
(* The sessions see the calls of HandlerProtocol in its order: what the    *)
(* network promises its handler, the server frame keeps for the sessions,  *)
(* through the queue.  This is the protocol's specification with seen for  *)
(* phase, as long as the server serves.                                    *)
(***************************************************************************)
THEOREM ProtocolHandedOn == Spec => SessionsFollowProtocol
<1>1. Init => Seen!Init
  BY DEF Init, Seen!Init
<1>2. Base /\ ServeInv /\ [Next]_vars => [Serving => Seen!Next]_seen
  <2> SUFFICES ASSUME Base, QueueInv, LinkInv, [Next]_vars, seen' # seen PROVE Seen!Next
    BY DEF ServeInv
  <2>1. seen \in [Conns -> Phases]
    BY DEF Base, TypeOK
  <2>2. ASSUME NEW c \in Conns, c = Current.conn, NEW kinds, Handling(kinds),
               kinds \subseteq {"ONCONNECT", "ONDATA", "ONDISCONNECT"},
               Done \/ (pc' = "closing" /\ pos' = pos), UNCHANGED <<call, m_CommandList>>
        PROVE  HandledFirst /\ Kept(c) /\ SeenOK(c) /\ Current.kind \in kinds
    BY <2>2, HandlingFirst, NetworkCommand DEF QueueInv
  <2>3. CASE HandleOnConnect
    <3>1. /\ Handling({"ONCONNECT"}) /\ Done /\ UNCHANGED <<call, m_CommandList>>
          /\ seen' = [seen EXCEPT ![Current.conn] = "open"]
      BY <2>3 DEF HandleOnConnect, Served, netVars, Done
    <3>2. PICK c \in Conns : c = Current.conn
      BY <3>1, NetworkCommand
    <3>3. HandledFirst /\ Kept(c) /\ SeenOK(c) /\ Current.kind = "ONCONNECT"
      BY <2>2, <3>1, <3>2
    <3>4. Missing(c, Current)
      BY <3>2, <3>3, HandledOwn
    <3>5. seen[c] = "idle"
      BY <3>3, <3>4, Ranks DEF Missing
    <3> QED BY <3>1, <3>2, <3>5 DEF Seen!Next, Seen!OnConnection, Seen!Tell
  <2>4. CASE HandleOnData
    <3>1. /\ Handling({"ONDATA"}) /\ Done /\ UNCHANGED <<call, m_CommandList>>
          /\ seen' = [seen EXCEPT ![Current.conn] = "talking"]
      BY <2>4 DEF HandleOnData, Served, netVars, Done
    <3>2. PICK c \in Conns : c = Current.conn
      BY <3>1, NetworkCommand
    <3>3. HandledFirst /\ Kept(c) /\ SeenOK(c) /\ Current.kind = "ONDATA"
      BY <2>2, <3>1, <3>2
    <3>4. seen[c] \in {"open", "talking"}
      BY <3>2, <3>3, ToldBefore DEF SeenOK
    <3> QED BY <3>1, <3>2, <3>4 DEF Seen!Next, Seen!OnData, Seen!Tell
  <2>5. CASE HandleOnDisconnect
    <3>1. /\ Handling({"ONDISCONNECT"}) /\ pc' = "closing" /\ pos' = pos
          /\ UNCHANGED <<call, m_CommandList>>
          /\ seen' = [seen EXCEPT ![Current.conn] = "lost"]
      BY <2>5 DEF HandleOnDisconnect, netVars
    <3>2. PICK c \in Conns : c = Current.conn
      BY <3>1, NetworkCommand
    <3>3. HandledFirst /\ Kept(c) /\ SeenOK(c) /\ Current.kind = "ONDISCONNECT"
      BY <2>2, <3>1, <3>2
    <3>4. seen[c] \in {"open", "talking"}
      BY <3>2, <3>3, ToldBefore DEF SeenOK
    <3> QED BY <3>1, <3>2, <3>4 DEF Seen!Next, Seen!OnDisconnect, Seen!Tell
  <2>6. CASE CloseSession
    <3>1. pc = "closing" /\ seen' = [seen EXCEPT ![Current.conn] = "idle"]
      BY <2>6 DEF CloseSession
    <3>2. Current.conn \in Conns
      BY <2>1, <3>1
    <3>3. seen[Current.conn] = "lost"
      BY <3>1, <3>2 DEF QueueInv, SeenOK
    <3> QED BY <3>1, <3>2, <3>3 DEF Seen!Next, Seen!Close, Seen!Tell
  <2>7. HandleOnConnect \/ HandleOnData \/ HandleOnDisconnect \/ CloseSession
    <3>1. ~Initialize /\ ~(\E c \in Conns : Callbacks(c))
      BY DEF Initialize, SetServer, InitializeSessionPool, StartCommandHandler, SetSessionServer,
             Callbacks, OnConnection, OnData, OnDataNoMemory, OnDisconnect, Callback, sessionVars
    <3>2. /\ ~(\E c \in Conns : PushCallback(c))
          /\ ~(\E kind \in AppCommands, i \in Ids : PushFromApp(kind, i))
      BY DEF PushCallback, PushFromApp, PushCommand, sessionVars
    <3>3. ~Wait /\ ~TimesOut /\ ~WakesLate /\ ~WakesUp /\ ~EndBatch
      BY DEF Wait, TimesOut, WakesLate, WakesUp, EndBatch, sessionVars
    <3>4. ~HandleNoSession /\ ~HandleIgnored /\ ~HandleDisconnect /\ ~HandleSendData /\ ~HandleShutdown
      BY DEF HandleNoSession, HandleIgnored, HandleDisconnect, HandleSendData, HandleShutdown,
             sessionVars
    <3>5. ~UNCHANGED vars
      BY DEF vars, sessionVars
    <3> QED BY <3>1, <3>2, <3>3, <3>4, <3>5 DEF Next, CommandHandler, Handle
  <2> QED BY <2>3, <2>4, <2>5, <2>6, <2>7
<1>3. Spec => [][Serving => Seen!Next]_seen
  BY <1>2, ServeOfSpec, PTL DEF Spec
<1> QED BY <1>1, <1>3, PTL DEF Spec, SessionsFollowProtocol

(* An application that sends to no session by its identifier, and clients  *)
(* that come when Initialize has returned: no command is to send, and      *)
(* before that nothing was told.                                           *)
Ordinary == "SENDDATA" \notin AppCommands /\ ~EarlyClients

OrdinaryInv ==
  /\ ~crashed
  /\ \A k \in 1 .. Len(m_CommandList) : m_CommandList[k].kind # "SENDDATA"
  /\ main # "done" => \A c \in Conns : phase[c] = "idle"
  /\ \A c \in Conns : call[c].kind # "SENDDATA"

LEMMA OrdinaryInit == Init => OrdinaryInv
  BY DEF Init, OrdinaryInv, NoCall, Command

(* No pointer that is followed is null.                                    *)
LEMMA OrdinaryFollows ==
  ASSUME Ordinary, Base, ServeInv, OrdinaryInv, [Next]_vars
  PROVE  ~crashed'
<1>1. ~HandleSendData
  BY HandledCommand DEF Base, OrdinaryInv, Current, HandleSendData, Served
<1> QED
  <2>1. ASSUME NEW c \in Conns, Callbacks(c) PROVE ~crashed'
    <3>1. main = "done" \/ phase[c] = "idle"
      BY DEF OrdinaryInv
    <3>2. main # "started"
      BY <2>1, <3>1 DEF Callbacks, OnConnection, OnData, OnDataNoMemory, OnDisconnect, Ordinary,
                        Network!OnData, Network!OnDisconnect, Network!Tell
    <3> QED BY <2>1, <3>2
        DEF OrdinaryInv, Callbacks, OnConnection, OnData, OnDataNoMemory, OnDisconnect, Callback
  <2>2. CASE HandleOnData
    <3>a. Serving /\ QueueInv /\ LinkInv
      BY <2>2 DEF HandleOnData, Served, Serving, OrdinaryInv, ServeInv
    <3>1. /\ Handling({"ONDATA"}) /\ Done /\ UNCHANGED <<call, m_CommandList>>
          /\ \E targets \in {{client[Current.conn]}, {SessionMap[i] : i \in Ids} \ {NoSession}} :
               SendData(targets)
      BY <2>2 DEF HandleOnData, Served, netVars, Done
    <3>2. PICK c \in Conns : c = Current.conn
      BY <3>1, NetworkCommand
    <3>3. HandledFirst /\ Current.kind = "ONDATA" /\ Kept(c) /\ SeenOK(c)
      BY <3>a, <3>1, HandlingFirst DEF QueueInv, Handling
    <3>4. seen[c] # "idle" /\ phase[c] # "idle"
      BY <3>2, <3>3, ToldBefore
    <3>5. main = "done"
      BY <3>4 DEF OrdinaryInv
    <3>6. conn[client[c]] # NoConn
      BY <3>a, <3>4, Nulls DEF LinkInv
    <3>7. \A i \in Ids : SessionMap[i] # NoSession => conn[SessionMap[i]] # NoConn
      BY DEF Base, Mapped, MapIsConnected
    <3>8. PICK targets \in {{client[c]}, {SessionMap[i] : i \in Ids} \ {NoSession}} : SendData(targets)
      BY <3>1, <3>2
    <3>9. \A s \in targets : conn[s] # NoConn
      BY <3>6, <3>7, <3>8
    <3> QED BY <3>5, <3>8, <3>9 DEF SendData
  <2>3. CASE \/ \E c \in Conns : PushCallback(c)
             \/ \E kind \in AppCommands, i \in Ids : PushFromApp(kind, i)
    BY <2>3 DEF OrdinaryInv, PushCallback, PushFromApp, PushCommand
  <2>4. CASE Initialize \/ Wait \/ TimesOut \/ WakesLate \/ WakesUp \/ EndBatch \/ UNCHANGED vars
    BY <2>4 DEF OrdinaryInv, Initialize, SetServer, InitializeSessionPool, StartCommandHandler,
                SetSessionServer, Wait, TimesOut, WakesLate, WakesUp, EndBatch, vars
  <2>5. CASE \/ HandleOnConnect \/ HandleIgnored \/ HandleOnDisconnect \/ CloseSession
             \/ HandleDisconnect \/ HandleNoSession \/ HandleShutdown
    BY <2>5 DEF OrdinaryInv, HandleNoSession, HandleShutdown, HandleOnConnect, HandleIgnored, HandleOnDisconnect, CloseSession,
                HandleDisconnect
  <2> QED BY <1>1, <2>1, <2>2, <2>3, <2>4, <2>5 DEF Next, CommandHandler, Handle

LEMMA OrdinaryStep ==
  ASSUME Ordinary, Base, OrdinaryInv, ~crashed', [Next]_vars
  PROVE  OrdinaryInv'
<1> DEFINE Plain(m) == m.kind # "SENDDATA"
           PlainList == \A k \in 1 .. Len(m_CommandList) : Plain(m_CommandList[k])
           PlainCalls == \A c \in Conns : Plain(call[c])
<1>0. PlainList /\ PlainCalls /\ \A k, c, n : Command(k, c, n).kind = k
  BY DEF OrdinaryInv, Command
<1>1. ASSUME NEW m \in Commands, Plain(m), PushCommand(m) PROVE PlainList'
  <2>1. m_CommandList' = Append(m_CommandList, m) /\ m_CommandList \in Seq(Commands)
    BY <1>1, QueueTypes DEF PushCommand, Base
  <2>2. \A k \in 1 .. Len(m_CommandList') :
          \/ m_CommandList'[k] = m
          \/ k \in 1 .. Len(m_CommandList) /\ m_CommandList'[k] = m_CommandList[k]
    BY <2>1
  <2> QED BY <1>0, <1>1, <2>2
<1>2. PlainList'
  <2>1. CASE m_CommandList' \in {m_CommandList, <<>>}
    BY <1>0, <2>1
  <2>2. ASSUME NEW c \in Conns, PushCallback(c) PROVE PlainList'
    <3>1. PushCommand(call[c]) /\ call[c] \in Commands /\ Plain(call[c])
      BY <1>0, <2>2, QueueTypes DEF PushCallback, Base
    <3> HIDE DEF Plain, PlainList
    <3> QED BY <1>1, <3>1
  <2>3. ASSUME NEW kind \in AppCommands, NEW i \in Ids, PushFromApp(kind, i) PROVE PlainList'
    <3>1. kind # "SENDDATA" /\ kind \in AppKinds
      BY Switches DEF Ordinary
    <3>2. PushCommand(Command(kind, NoConn, i)) /\ Plain(Command(kind, NoConn, i))
      BY <1>0, <2>3, <3>1 DEF PushFromApp
    <3>3. Command(kind, NoConn, i) \in Commands
      BY <3>1 DEF Command, Commands
    <3> HIDE DEF Plain, PlainList
    <3> QED BY <1>1, <3>2, <3>3
  <2>4. \/ m_CommandList' \in {m_CommandList, <<>>}
        \/ \E c \in Conns : PushCallback(c)
        \/ \E kind \in AppCommands, i \in Ids : PushFromApp(kind, i)
    <3>1. Initialize \/ (\E c \in Conns : Callbacks(c)) \/ UNCHANGED vars => m_CommandList' = m_CommandList
      BY DEF Initialize, SetServer, InitializeSessionPool, StartCommandHandler, SetSessionServer,
             Callbacks, OnConnection, OnData, OnDataNoMemory, OnDisconnect, Callback, threadVars, vars
    <3>2. Wait \/ TimesOut \/ WakesLate \/ WakesUp \/ EndBatch => m_CommandList' \in {m_CommandList, <<>>}
      BY DEF Wait, TimesOut, WakesLate, WakesUp, EndBatch
    <3>3. Handle => m_CommandList' = m_CommandList
      BY DEF Handle, HandleOnConnect, HandleNoSession, HandleIgnored, HandleOnData,
             HandleOnDisconnect,
             CloseSession, HandleDisconnect, HandleSendData, HandleShutdown, Done
    <3> QED BY <3>1, <3>2, <3>3 DEF Next, CommandHandler
  <2> QED BY <2>1, <2>2, <2>3, <2>4
<1>3. ASSUME NEW c \in Conns, NEW n, NEW kind \in {"ONCONNECT", "ONDATA", "ONDISCONNECT"},
             Callback(c, kind, n)
      PROVE  \A d \in Conns : call'[d] \in {call[d], Command(kind, c, n)}
  BY <1>3, QueueTypes DEF Callback, Base
<1>4. \A d \in Conns : Plain(call'[d])
  <2>1. CASE UNCHANGED call
    BY <1>0, <2>1
  <2>2. ASSUME NEW c \in Conns, PushCallback(c) PROVE \A d \in Conns : Plain(call'[d])
    <3>1. \A d \in Conns : call'[d] \in {call[d], NoCall}
      BY <2>2, QueueTypes DEF PushCallback, Base
    <3> QED BY <1>0, <3>1 DEF NoCall
  <2>3. ASSUME NEW c \in Conns, Callbacks(c), call' # call PROVE \A d \in Conns : Plain(call'[d])
    <3>1. \E kind \in {"ONCONNECT", "ONDATA", "ONDISCONNECT"} : \E n : Callback(c, kind, n)
      BY <2>3 DEF Callbacks, OnConnection, OnData, OnDataNoMemory, OnDisconnect
    <3>2. PICK kind \in {"ONCONNECT", "ONDATA", "ONDISCONNECT"} : \E n : Callback(c, kind, n)
      BY <3>1
    <3>3. PICK n : Callback(c, kind, n)
      BY <3>2
    <3>4. \A d \in Conns : call'[d] \in {call[d], Command(kind, c, n)}
      BY <1>3, <3>3
    <3> QED BY <1>0, <3>4
  <2>4. \/ UNCHANGED call \/ (\E c \in Conns : PushCallback(c)) \/ \E c \in Conns : Callbacks(c)
    <3>1. Initialize \/ UNCHANGED vars \/ CommandHandler => UNCHANGED call
      BY DEF Initialize, SetServer, InitializeSessionPool, StartCommandHandler, SetSessionServer,
             CommandHandler, Wait, TimesOut, WakesLate, WakesUp, EndBatch,
             Handle, HandleOnConnect, HandleNoSession, HandleIgnored, HandleOnData,
                 HandleOnDisconnect,
             CloseSession, HandleDisconnect, HandleSendData, HandleShutdown, netVars, vars
    <3>2. (\E kind \in AppCommands, i \in Ids : PushFromApp(kind, i)) => UNCHANGED call
      BY DEF PushFromApp, netVars
    <3> QED BY <3>1, <3>2 DEF Next
  <2> QED BY <2>1, <2>2, <2>3, <2>4
<1>5. main' # "done" => \A c \in Conns : phase'[c] = "idle"
  <2> SUFFICES ASSUME main' # "done" PROVE \A c \in Conns : phase'[c] = "idle"
    OBVIOUS
  <2>1. main # "done"
    BY DEF Next, Initialize, SetServer, InitializeSessionPool, StartCommandHandler,
           SetSessionServer,
           Callbacks, OnConnection, OnData, OnDataNoMemory, OnDisconnect, Callback,
           PushCallback, PushFromApp, PushCommand, CommandHandler, Wait, TimesOut, WakesLate,
           WakesUp, EndBatch,
           Handle, HandleOnConnect, HandleNoSession, HandleIgnored, HandleOnData,
               HandleOnDisconnect,
           CloseSession, HandleDisconnect, HandleSendData, HandleShutdown, Done, vars
  <2>2. \A c \in Conns : phase[c] = "idle" /\ ~Callbacks(c)
    BY <2>1 DEF OrdinaryInv, Ordinary, Callbacks, OnConnection, OnData, OnDataNoMemory,
                OnDisconnect,
                Network!OnData, Network!OnDisconnect, Network!Tell
  <2>3. CASE CloseSession
    BY <2>2, <2>3 DEF CloseSession, Base, TypeOK
  <2>4. CASE ~CloseSession
    <3>1. UNCHANGED phase
      BY <2>2, <2>4 DEF Next, Initialize, SetServer, InitializeSessionPool, StartCommandHandler,
           SetSessionServer,
           PushCallback, PushFromApp, CommandHandler, Wait, TimesOut, WakesLate, WakesUp, EndBatch,
           Handle, HandleOnConnect, HandleNoSession, HandleIgnored, HandleOnData,
               HandleOnDisconnect,
           HandleDisconnect, HandleSendData, HandleShutdown, netVars, vars
    <3> QED BY <2>2, <3>1
  <2> QED BY <2>3, <2>4
<1> QED BY <1>2, <1>4, <1>5 DEF OrdinaryInv

(***************************************************************************)
(* With an application that sends to no session by its identifier, and     *)
(* clients that come when Initialize has returned, no thread follows a     *)
(* null pointer, also not in a shutdown: the acceptor's server, the        *)
(* m_pConnection of every session that is spoken to and its m_pServer are  *)
(* set before every use that the handlers make of them.  Without either    *)
(* hypothesis the model checker finds a use of such a pointer.             *)
(***************************************************************************)
THEOREM NoPointerNull == ASSUME Ordinary PROVE Spec => []NoNullPointer
<1>1. Init => OrdinaryInv
  BY OrdinaryInit
<1>2. Base /\ ServeInv /\ OrdinaryInv /\ [Next]_vars => OrdinaryInv'
  BY OrdinaryFollows, OrdinaryStep
<1>3. OrdinaryInv => NoNullPointer
  BY DEF OrdinaryInv, NoNullPointer
<1> QED BY <1>1, <1>2, <1>3, ServeOfSpec, PTL DEF Spec

-----------------------------------------------------------------------------
(* The same for any application, clients that come early, and a shutdown:  *)
(* which uses of a null pointer are left.                                  *)

LEMMA PointersStep ==
  ASSUME Base, ServeInv, PointersSet, [Next]_vars
  PROVE  PointersSet'
<1>1. CASE UNCHANGED vars
  BY <1>1 DEF vars, threadVars, PointersSet
<1>2. CASE Next
  <2> SUFFICES ASSUME crashed', main' = "done"
               PROVE  pos' > 1 /\ m_CommandList'[pos' - 1].kind = "SENDDATA"
    BY DEF PointersSet
  <2>1. ~crashed
    BY <1>2 DEF Next
  <2>4. ASSUME NEW c \in Conns, Callbacks(c) PROVE FALSE
    BY <2>1, <2>4 DEF Callbacks, OnConnection, OnData, OnDataNoMemory, OnDisconnect, Callback
  <2>6. ~HandleOnData
    <3> SUFFICES ASSUME HandleOnData PROVE FALSE
      OBVIOUS
    <3>a. Serving /\ QueueInv /\ LinkInv
      BY <2>1 DEF HandleOnData, Served, Serving, ServeInv
    <3>1. /\ Handling({"ONDATA"}) /\ Done /\ UNCHANGED <<call, m_CommandList>>
          /\ \E targets \in {{client[Current.conn]}, {SessionMap[i] : i \in Ids} \ {NoSession}} :
               SendData(targets)
      BY DEF HandleOnData, Served, netVars, Done
    <3>2. Current.kind = "ONDATA"
      BY <3>1 DEF Handling
    <3>3. PICK c \in Conns : c = Current.conn
      BY <3>1, NetworkCommand
    <3>4. HandledFirst /\ Kept(c) /\ SeenOK(c)
      BY <3>a, <3>1, HandlingFirst DEF QueueInv
    <3>5. seen[c] # "idle"
      BY <3>2, <3>3, <3>4, ToldBefore
    <3>6. main = "done"
      BY <3>1 DEF Done
    <3>7. conn[client[c]] # NoConn
      BY <3>a, <3>5, Nulls DEF LinkInv
    <3>8. \A i \in Ids : SessionMap[i] # NoSession => conn[SessionMap[i]] # NoConn
      BY DEF Base, Mapped, MapIsConnected
    <3>9. PICK targets \in {{client[c]}, {SessionMap[i] : i \in Ids} \ {NoSession}} : SendData(targets)
      BY <3>1, <3>3
    <3>10. \A s \in targets : conn[s] # NoConn
      BY <3>7, <3>8, <3>9
    <3> QED BY <3>6, <3>9, <3>10 DEF SendData
  <2>7. HandleSendData
    <3>1. ~(\/ \E c \in Conns : PushCallback(c)
            \/ \E kind \in AppCommands, i \in Ids : PushFromApp(kind, i))
      BY <2>1 DEF PushCallback, PushFromApp, PushCommand
    <3>2. ~Initialize /\ ~Wait /\ ~TimesOut /\ ~WakesLate /\ ~WakesUp /\ ~EndBatch
      BY <2>1 DEF Initialize, SetServer, InitializeSessionPool, StartCommandHandler,
                  SetSessionServer, Wait, TimesOut, WakesLate, WakesUp, EndBatch
    <3>3. ~HandleOnConnect /\ ~HandleIgnored /\ ~HandleOnDisconnect /\ ~CloseSession
          /\ ~HandleDisconnect /\ ~HandleShutdown /\ ~HandleNoSession
      BY <2>1 DEF HandleOnConnect, HandleNoSession, HandleIgnored, HandleOnDisconnect,
                  CloseSession,
                  HandleDisconnect, HandleShutdown
    <3> QED BY <1>2, <2>4, <2>6, <3>1, <3>2, <3>3 DEF Next, CommandHandler, Handle
  <2>8. /\ pos' = pos + 1 /\ m_CommandList' = m_CommandList /\ pos \in Nat /\ pos > 0
        /\ m_CommandList[pos].kind = "SENDDATA"
    BY <2>7 DEF HandleSendData, Served, Handling, Current, Done, Base, TypeOK
  <2> QED BY <2>8
<1> QED BY <1>1, <1>2

(***************************************************************************)
(* Whatever the application does and whenever clients come: a null        *)
(* pointer is followed only before Initialize has returned, or to send to  *)
(* a session named by its identifier.  The handlers of received data, who  *)
(* speak through client_ and m_SessionMap, follow none, also when the      *)
(* server is told to shut down with their commands in the queue.           *)
(***************************************************************************)
THEOREM HandlersFindPointersSet == Spec => []PointersSet
<1>1. Init => PointersSet
  BY DEF Init, PointersSet
<1>2. Base /\ ServeInv /\ PointersSet /\ [Next]_vars => PointersSet'
  BY PointersStep
<1> QED BY <1>1, <1>2, ServeOfSpec, PTL DEF Spec
=============================================================================
