------------------------------ MODULE TcpNetwork ------------------------------
(***************************************************************************)
(* tcpnetwork/src/easy_tcp.cpp, the Windows library as one file (the text  *)
(* of its classes is that of network/src).  IocpNetwork interleaves single *)
(* interlocked operations of a running server; this module takes the calls *)
(* on a connection as one step and models what IocpNetwork leaves out: the *)
(* client's Connect, the deletion of connections, and the destructors of   *)
(* acceptor, worker and pool while threads are still at work, in the order *)
(* of EasyBaseServer::_DestroyNetwork.                                     *)
(***************************************************************************)
EXTENDS Integers, FiniteSets

CONSTANTS
  Servers, Clients,   \* connections an acceptor, or Connect, can create
  Workers,            \* threads of EasyWorker
  NoConn,             \* the null pointer
  IoRefMax,           \* iorefmax_ (65536)
  InMax, OutMax,      \* contexts the allocator can give to each pool
  TotalMod,           \* total_connection_ counts modulo this (2^32)
  CloseMax,           \* bound: server connections closed in a behaviour
  Faults,             \* which rare failures happen, a subset of FaultKinds
  Eager               \* TRUE: the application may use a connection as soon as
                      \* OnConnection told it, FALSE: only after its first OnData

Conns == Servers \cup Clients
FaultKinds == {"AcceptEx", "UpdateAccept", "ConnectEx", "UpdateConnect",
               "DisconnectEx", "Oversize"}

ASSUME TcpAssumption ==
  /\ Servers \cap Clients = {} /\ NoConn \notin Conns
  /\ IsFiniteSet(Conns) /\ IsFiniteSet(Workers)
  /\ {IoRefMax, InMax, OutMax, CloseMax} \subseteq Nat
  /\ TotalMod \in Nat /\ CloseMax + 1 < TotalMod
  /\ Faults \subseteq FaultKinds /\ Eager \in BOOLEAN

VARIABLES
  life,          \* of each connection: not created, alive, deleted, or kept for ever
  conn,          \* its connected_, iorefs_, and its overlapped requests
  phase,         \* what the handler's callbacks told of it
  acc,           \* the acceptor's context_, its iorefs_ and running_
  free,          \* free_connection_, a linked list with its depth; total_connection_
  closes,        \* history: how often a server connection was closed
  inPool, outPool, \* how many contexts each pool has allocated and has listed
  th,            \* what each worker thread has in hand
  main           \* how far the program is in its life

accVars == <<acc, free, closes>>
poolVars == <<inPool, outPool>>
vars == <<life, conn, phase, accVars, poolVars, th, main>>

Idle == [pc |-> "idle", conn |-> NoConn]
At(pc, c) == [pc |-> pc, conn |-> c]

\* InitEasyTCP and CreateAcceptor: the constructors.
Init ==
  /\ life = [c \in Conns |-> "none"]
  /\ conn = [c \in Conns |-> [connected |-> 0, iorefs |-> 0, peer |-> FALSE, own |-> "off",
                              recv |-> "off", sends |-> 0, sent |-> 0]]
  /\ phase = [c \in Conns |-> "idle"]
  /\ acc = [req |-> "off", conn |-> NoConn, iorefs |-> 0, running |-> 0]
  /\ free = [head |-> NoConn, next |-> [c \in Conns |-> NoConn], depth |-> 0, total |-> 0]
  /\ closes = 0
  /\ inPool = [made |-> 0, listed |-> 0] /\ outPool = [made |-> 0, listed |-> 0]
  /\ th = [w \in Workers |-> Idle]
  /\ main = "created"

------------------------------------------------------------------------------
(* EasyContextPool: what popping may leave behind; none when out of memory.*)

Pops(p, max) ==
  IF p.listed > 0 THEN {[p EXCEPT !.listed = @ - 1]}
  ELSE IF p.made < max THEN {[p EXCEPT !.made = @ + 1]} ELSE {}

Pushed(p) == [p EXCEPT !.listed = @ + 1]

(* EasyConnection: what each call may make of the connection r.            *)

Quiet(r) == r.iorefs = 0 /\ r.connected = 0

\* connected_ elects the caller that posts the disconnect.
AsyncDisconnect(r) ==
  IF r.connected = 0 THEN {r}
  ELSE {[r EXCEPT !.connected = 0, !.own = "disconnecting"]}
       \cup (IF "DisconnectEx" \in Faults THEN {[r EXCEPT !.connected = 0]} ELSE {})

\* AsyncRecv: WSARecv pends, or is refused: the context goes back and the connection ends.
RecvPends(c, r, pool) ==
  /\ r.peer
  /\ conn' = [conn EXCEPT ![c] = [r EXCEPT !.iorefs = @ + 1, !.recv = "kernel"]]
  /\ inPool' = pool

RecvRefused(c, r, pool) ==
  /\ \E d \in AsyncDisconnect(r) : conn' = [conn EXCEPT ![c] = d]
  /\ inPool' = Pushed(pool)

\* connected_ is set and OnConnection called, which accepts the connection or rejects it;
\* its first receive, or its disconnect, is a later step of the thread.
Announce(w, c, r) ==
  /\ conn' = [conn EXCEPT ![c] = r]
  /\ \/ phase' = [phase EXCEPT ![c] = "open"] /\ th' = [th EXCEPT ![w] = At("firstrecv", c)]
     \/ phase' = [phase EXCEPT ![c] = "rejected"] /\ th' = [th EXCEPT ![w] = At("reject", c)]

------------------------------------------------------------------------------
(* EasyAcceptor *)

SPush(f, c) == [f EXCEPT !.head = c, !.next[c] = f.head, !.depth = @ + 1]
SPop(f) == [f EXCEPT !.head = f.next[f.head], !.depth = @ - 1]

Fresh == {c \in Servers : life[c] = "none"}

\* Accept() takes the head of the free list, or creates a connection.
Candidates == IF free.head # NoConn THEN {free.head} ELSE Fresh
Taken == IF free.head # NoConn THEN [SPop(free) EXCEPT !.total = (@ - 1) % TotalMod] ELSE free

\* AcceptEx pends; or it fails, when Close has pushed the connection already.
AcceptPosted(c, a) ==
  /\ free' = Taken
  /\ acc' = [a EXCEPT !.req = "kernel", !.conn = c, !.iorefs = @ + 1]

AcceptRefused(c, a) ==
  /\ "AcceptEx" \in Faults
  /\ free' = [SPush(IF Quiet(conn[c]) THEN SPush(Taken, c) ELSE Taken, c)
              EXCEPT !.total = (@ + 1) % TotalMod]
  /\ acc' = [a EXCEPT !.running = 0]

Accept(a) ==
  \/ \E c \in Candidates :
       /\ life' = [life EXCEPT ![c] = "alive"]
       /\ AcceptPosted(c, a) \/ AcceptRefused(c, a)
  \/ /\ Candidates = {}
     /\ acc' = [a EXCEPT !.running = 0]
     /\ UNCHANGED <<life, free>>

NoRequest == [acc EXCEPT !.req = "off", !.conn = NoConn]

\* StartAcceptor
Start ==
  /\ main = "created" /\ main' = "serving"
  /\ Accept([acc EXCEPT !.running = 1])
  /\ UNCHANGED <<conn, phase, closes, poolVars, th>>

------------------------------------------------------------------------------
(* The application: Connect, AsyncSend, AsyncDisconnect, Close, each as    *)
(* one call.  It begins nothing once the program tears down.               *)

Running == main \in {"created", "serving"}

Connect(c) ==
  /\ Running /\ life[c] = "none"
  /\ \/ /\ life' = [life EXCEPT ![c] = "alive"]
        /\ conn' = [conn EXCEPT ![c].own = "connecting"]
     \/ /\ "ConnectEx" \in Faults
        /\ life' = [life EXCEPT ![c] = "deleted"]
        /\ UNCHANGED conn
  /\ UNCHANGED <<phase, accVars, poolVars, th, main>>

Open(c) == phase[c] \in {"talking"} \cup (IF Eager THEN {"open"} ELSE {})

\* WSASend pends; or it is over the limit or refused; or an oversized one returns.
AsyncSend(c, r, pool) ==
  \/ /\ r.iorefs <= IoRefMax /\ r.peer
     /\ conn' = [conn EXCEPT ![c] = [r EXCEPT !.iorefs = @ + 1, !.sends = @ + 1]]
     /\ outPool' = pool
  \/ /\ \E d \in AsyncDisconnect(r) : conn' = [conn EXCEPT ![c] = d]
     /\ outPool' = Pushed(pool)
  \/ "Oversize" \in Faults /\ outPool' = pool /\ UNCHANGED conn

Send(c) ==
  /\ Running /\ Open(c)
  /\ \E p \in Pops(outPool, OutMax) : AsyncSend(c, conn[c], p)
  /\ UNCHANGED <<life, phase, accVars, inPool, th, main>>

Disconnect(c) ==
  /\ Running /\ Open(c)
  /\ \E d \in AsyncDisconnect(conn[c]) : conn' = [conn EXCEPT ![c] = d]
  /\ UNCHANGED <<life, phase, accVars, poolVars, th, main>>

\* Close of a connection of the acceptor, and of one of Connect.
ClosePushes(c) ==
  /\ closes < CloseMax /\ closes' = closes + 1
  /\ free' = SPush(free, c)
  /\ UNCHANGED life

Delete(c) == life' = [life EXCEPT ![c] = "deleted"] /\ UNCHANGED <<free, closes>>

\* It refuses a connection that is in use, which nobody closes a second time.
Close(c) ==
  /\ phase[c] = "lost" /\ life[c] # "kept"
  /\ IF Quiet(conn[c])
     THEN /\ phase' = [phase EXCEPT ![c] = "idle"]
          /\ IF c \in Servers THEN ClosePushes(c) ELSE Delete(c)
     ELSE life' = [life EXCEPT ![c] = "kept"] /\ UNCHANGED <<phase, free, closes>>
  /\ UNCHANGED <<conn, acc, poolVars, th, main>>

------------------------------------------------------------------------------
(* EasyWorker::WorkerThread: a packet is taken and handled up to its last  *)
(* access to the connection or the acceptor, which is a step of its own.   *)

\* OPERATION_ACCEPT: another accept is posted, then the connection is announced, and ...
DequeueAccept(w) ==
  /\ th[w].pc = "idle" /\ acc.req = "ok"
  /\ Accept(NoRequest)
  /\ th' = [th EXCEPT ![w] = At("update", acc.conn)]
  /\ UNCHANGED <<conn, phase, closes, poolVars, main>>

UpdateAccept(w) ==
  LET c == th[w].conn IN
  /\ th[w].pc = "update"
  /\ \/ Announce(w, c, [conn[c] EXCEPT !.connected = 1])
     \/ /\ "UpdateAccept" \in Faults /\ UNCHANGED <<conn, phase>>
        /\ th' = [th EXCEPT ![w] = At("accepted", NoConn)]
  /\ UNCHANGED <<life, accVars, poolVars, main>>

\* ... received from for the first time, or disconnected when it was rejected or no
\* context is left; a refused WSARecv is counted down after the disconnect.
After(c) == IF c \in Servers THEN At("accepted", NoConn) ELSE Idle

Drop(w, c) ==
  /\ \E d \in AsyncDisconnect(conn[c]) : conn' = [conn EXCEPT ![c] = d]
  /\ th' = [th EXCEPT ![w] = After(c)]
  /\ UNCHANGED inPool

FirstRecv(w) ==
  LET c == th[w].conn IN
  /\ th[w].pc = "firstrecv"
  /\ \/ \E p \in Pops(inPool, InMax) :
          \/ RecvPends(c, conn[c], p) /\ th' = [th EXCEPT ![w] = After(c)]
          \/ /\ RecvRefused(c, [conn[c] EXCEPT !.iorefs = @ + 1], p)
             /\ th' = [th EXCEPT ![w] = At("firstunref", c)]
     \/ Pops(inPool, InMax) = {} /\ Drop(w, c)
  /\ UNCHANGED <<life, phase, accVars, outPool, main>>

Reject(w) ==
  /\ th[w].pc = "reject" /\ Drop(w, th[w].conn)
  /\ UNCHANGED <<life, phase, accVars, outPool, main>>

FirstUnref(w) ==
  LET c == th[w].conn IN
  /\ th[w].pc = "firstunref"
  /\ conn' = [conn EXCEPT ![c].iorefs = @ - 1]
  /\ th' = [th EXCEPT ![w] = After(c)]
  /\ UNCHANGED <<life, phase, accVars, poolVars, main>>

\* In the end the accept is counted down.
EndAccept(w) ==
  /\ th[w].pc = "accepted"
  /\ acc' = [acc EXCEPT !.iorefs = @ - 1]
  /\ th' = [th EXCEPT ![w] = Idle]
  /\ UNCHANGED <<life, conn, phase, free, closes, poolVars, main>>

\* OPERATION_CONNECT, successful; connected_ is set even if the update then fails.
DequeueConnect(w, c) ==
  LET r == [conn[c] EXCEPT !.own = "off", !.connected = 1] IN
  /\ th[w].pc = "idle" /\ conn[c].own = "connectok"
  /\ \/ Announce(w, c, r)
     \/ "UpdateConnect" \in Faults /\ conn' = [conn EXCEPT ![c] = r] /\ UNCHANGED <<phase, th>>
  /\ UNCHANGED <<life, accVars, poolVars, main>>

\* OPERATION_CONNECT, failed: the client is told, and the connection deleted.
DequeueConnectFailed(w, c) ==
  /\ th[w].pc = "idle" /\ conn[c].own = "connectbad"
  /\ conn' = [conn EXCEPT ![c].own = "off"]
  /\ phase' = [phase EXCEPT ![c] = "failed"]
  /\ th' = [th EXCEPT ![w] = At("failed", c)]
  /\ UNCHANGED <<life, accVars, poolVars, main>>

CloseFailed(w) ==
  /\ th[w].pc = "failed" /\ Delete(th[w].conn)
  /\ th' = [th EXCEPT ![w] = Idle]
  /\ UNCHANGED <<conn, phase, acc, poolVars, main>>

\* Mutant: OnDisconnect comes while requests are outstanding.
DequeueDisconnectEarly(w, c) ==
  /\ th[w].pc = "idle" /\ conn[c].own = "disconnected"
  /\ conn' = [conn EXCEPT ![c].own = "off"]
  /\ phase' = [phase EXCEPT ![c] = "lost"]
  /\ UNCHANGED <<life, accVars, poolVars, th, main>>

\* OPERATION_DISCONNECT: posted again, which changes nothing, while iorefs_ is not 0.
DequeueDisconnect(w, c) ==
  /\ th[w].pc = "idle" /\ conn[c].own = "disconnected" /\ conn[c].iorefs = 0
  /\ conn' = [conn EXCEPT ![c].own = "off"]
  /\ phase' = [phase EXCEPT ![c] = "lost"]
  /\ UNCHANGED <<life, accVars, poolVars, th, main>>

\* OPERATION_RECV
DequeueRecv(w, c) ==
  LET r == [conn[c] EXCEPT !.recv = "off"] IN
  /\ th[w].pc = "idle"
  /\ \/ /\ conn[c].recv = "data"
        /\ phase' = [phase EXCEPT ![c] = "talking"]
        /\ RecvPends(c, r, inPool) \/ RecvRefused(c, r, inPool)
     \/ /\ conn[c].recv = "eof" /\ UNCHANGED phase
        /\ \E d \in AsyncDisconnect(r) : conn' = [conn EXCEPT ![c] = d]
        /\ inPool' = Pushed(inPool)
  /\ th' = [th EXCEPT ![w] = At("unref", c)]
  /\ UNCHANGED <<life, accVars, outPool, main>>

\* OPERATION_SEND
DequeueSent(w, c) ==
  /\ th[w].pc = "idle" /\ conn[c].sent > 0
  /\ conn' = [conn EXCEPT ![c].sent = @ - 1]
  /\ outPool' = Pushed(outPool)
  /\ th' = [th EXCEPT ![w] = At("unref", c)]
  /\ UNCHANGED <<life, phase, accVars, inPool, main>>

Unref(w) ==
  /\ th[w].pc = "unref"
  /\ conn' = [conn EXCEPT ![th[w].conn].iorefs = @ - 1]
  /\ th' = [th EXCEPT ![w] = Idle]
  /\ UNCHANGED <<life, phase, accVars, poolVars, main>>

------------------------------------------------------------------------------
(* The destructors                                                         *)

\* ~EasyAcceptor stops, waits for the accepts and then for the free list ...
Stop ==
  /\ Running /\ main' = "waitaccepts"
  /\ acc' = [acc EXCEPT !.running = 0]
  /\ UNCHANGED <<life, conn, phase, free, closes, poolVars, th>>

AcceptsDone ==
  /\ main = "waitaccepts" /\ acc.iorefs = 0 /\ main' = "waitlist"
  /\ UNCHANGED <<life, conn, phase, accVars, poolVars, th>>

ListComplete ==
  /\ main = "waitlist" /\ free.depth = free.total /\ main' = "drain"
  /\ UNCHANGED <<life, conn, phase, accVars, poolVars, th>>

\* ... closes what it pops from it until it is empty, and closes the socket.  Close
\* pushes back what was popped, so that a list that is not empty never gets empty.
Drained ==
  /\ main = "drain" /\ free.depth = 0 /\ main' = "delworker"
  /\ UNCHANGED <<life, conn, phase, accVars, poolVars, th>>

\* Mutant: ~EasyWorker posts one empty packet, and not one after another.
TakeEmptyPacketOnce(w) ==
  /\ main = "delworker" /\ th[w].pc = "idle" /\ \A u \in Workers : th[u].pc # "left"
  /\ th' = [th EXCEPT ![w] = At("left", NoConn)]
  /\ UNCHANGED <<life, conn, phase, accVars, poolVars, main>>

\* ~EasyWorker posts empty packets; a thread that gets one leaves and is counted.
TakeEmptyPacket(w) ==
  /\ main = "delworker" /\ th[w].pc = "idle"
  /\ th' = [th EXCEPT ![w] = At("left", NoConn)]
  /\ UNCHANGED <<life, conn, phase, accVars, poolVars, main>>

WorkerDeleted ==
  /\ main = "delworker" /\ \A w \in Workers : th[w].pc = "left"
  /\ main' = "waitin"
  /\ UNCHANGED <<life, conn, phase, accVars, poolVars, th>>

\* Mutant: ~EasyContextPool frees what is listed and does not wait for the rest.
InputFreedEarly ==
  /\ main = "waitin" /\ main' = "waitout"
  /\ inPool' = [inPool EXCEPT !.listed = 0]
  /\ UNCHANGED <<life, conn, phase, accVars, outPool, th>>

\* ~EasyContextPool: first the input contexts, then the output contexts.
InputFreed ==
  /\ main = "waitin" /\ inPool.listed = inPool.made /\ main' = "waitout"
  /\ inPool' = [inPool EXCEPT !.listed = 0]
  /\ UNCHANGED <<life, conn, phase, accVars, outPool, th>>

OutputFreed ==
  /\ main = "waitout" /\ outPool.listed = outPool.made /\ main' = "done"
  /\ outPool' = [outPool EXCEPT !.listed = 0]
  /\ UNCHANGED <<life, conn, phase, accVars, inPool, th>>

------------------------------------------------------------------------------
(* The kernel and the peers complete what was posted.                      *)

Completes(c, r) ==
  /\ conn' = [conn EXCEPT ![c] = r]
  /\ UNCHANGED <<life, phase, accVars, poolVars, th, main>>

ClientArrives ==
  /\ acc.req = "kernel"
  /\ acc' = [acc EXCEPT !.req = "ok"]
  /\ conn' = [conn EXCEPT ![acc.conn].peer = TRUE]
  /\ UNCHANGED <<life, phase, free, closes, poolVars, th, main>>

ConnectCompletes(c) ==
  /\ conn[c].own = "connecting"
  /\ \/ Completes(c, [conn[c] EXCEPT !.own = "connectok", !.peer = TRUE])
     \/ Completes(c, [conn[c] EXCEPT !.own = "connectbad"])

DisconnectCompletes(c) ==
  /\ conn[c].own = "disconnecting"
  /\ Completes(c, [conn[c] EXCEPT !.own = "disconnected", !.peer = FALSE])

DataArrives(c) ==
  /\ conn[c].recv = "kernel" /\ conn[c].peer
  /\ Completes(c, [conn[c] EXCEPT !.recv = "data"])

RecvEnds(c) ==
  /\ conn[c].recv = "kernel"
  /\ Completes(c, [conn[c] EXCEPT !.recv = "eof"])

SendCompletes(c) ==
  /\ conn[c].sends > 0
  /\ Completes(c, [conn[c] EXCEPT !.sends = @ - 1, !.sent = @ + 1])

------------------------------------------------------------------------------
AppNext ==
  \/ \E c \in Clients : Connect(c)
  \/ \E c \in Conns : Send(c) \/ Disconnect(c) \/ Close(c)

InHandler(w) ==
  \/ UpdateAccept(w) \/ FirstRecv(w) \/ Reject(w) \/ FirstUnref(w) \/ EndAccept(w)
  \/ CloseFailed(w) \/ Unref(w)

OfConn(w, c) == DequeueDisconnect(w, c) \/ DequeueRecv(w, c) \/ DequeueSent(w, c)
OfConnect(w, c) == DequeueConnect(w, c) \/ DequeueConnectFailed(w, c)

WorkerNext(w) ==
  \/ DequeueAccept(w) \/ InHandler(w) \/ TakeEmptyPacket(w)
  \/ \E c \in Conns : OfConn(w, c)
  \/ \E c \in Clients : OfConnect(w, c)

Destructors ==
  \/ AcceptsDone \/ ListComplete \/ Drained \/ WorkerDeleted \/ InputFreed \/ OutputFreed

KernelNext ==
  \/ ClientArrives
  \/ \E c \in Conns : DisconnectCompletes(c) \/ DataArrives(c) \/ RecvEnds(c) \/ SendCompletes(c)
  \/ \E c \in Clients : ConnectCompletes(c)

Next == Start \/ Stop \/ Destructors \/ AppNext \/ KernelNext \/ \E w \in Workers : WorkerNext(w)

Spec == Init /\ [][Next]_vars

(* Fairness: threads go on with what they have in hand and with the        *)
(* destructors, every packet in the port is taken in the end, the kernel   *)
(* answers a ConnectEx and a DisconnectEx and ends the requests of a       *)
(* connection without a peer, and the application closes what is lost.     *)
Orphaned(c) == ~conn[c].peer /\ (RecvEnds(c) \/ SendCompletes(c))

Fairness ==
  /\ WF_vars(Destructors)
  /\ \A w \in Workers : WF_vars(InHandler(w)) /\ SF_vars(TakeEmptyPacket(w))
  /\ SF_vars(\E w \in Workers : DequeueAccept(w))
  /\ \A c \in Conns :
       /\ WF_vars(DisconnectCompletes(c)) /\ WF_vars(Orphaned(c)) /\ WF_vars(Close(c))
       /\ SF_vars(\E w \in Workers : DequeueDisconnect(w, c))
       /\ SF_vars(\E w \in Workers : DequeueRecv(w, c))
       /\ SF_vars(\E w \in Workers : DequeueSent(w, c))
  /\ \A c \in Clients :
       WF_vars(ConnectCompletes(c)) /\ SF_vars(\E w \in Workers : OfConnect(w, c))

FairSpec == Spec /\ Fairness

------------------------------------------------------------------------------
(* Every variable has its type.                                            *)
TypeOK ==
  /\ life \in [Conns -> {"none", "alive", "deleted", "kept"}]
  /\ conn \in [Conns -> [connected : {0, 1}, iorefs : Nat, peer : BOOLEAN,
                         own : {"off", "connecting", "connectok", "connectbad",
                                "disconnecting", "disconnected"},
                         recv : {"off", "kernel", "data", "eof"}, sends : Nat, sent : Nat]]
  /\ phase \in [Conns -> {"idle", "rejected", "open", "talking", "lost", "failed"}]
  /\ acc \in [req : {"off", "kernel", "ok"}, conn : Conns \cup {NoConn}, iorefs : Nat,
              running : {0, 1}]
  /\ free.head \in Conns \cup {NoConn} /\ free.total \in 0 .. TotalMod - 1 /\ free.depth \in Nat
  /\ closes \in 0 .. CloseMax
  /\ \A p \in {inPool, outPool} : p.made \in Nat /\ p.listed \in 0 .. p.made
  /\ th \in [Workers -> [pc : {"idle", "update", "firstrecv", "reject", "firstunref", "accepted",
                               "failed", "unref", "left"},
                         conn : Conns \cup {NoConn}]]
  /\ main \in {"created", "serving", "waitaccepts", "waitlist", "drain", "delworker",
               "waitin", "waitout", "done"}

Outstanding(c) == conn[c].recv # "off" \/ conn[c].sends > 0 \/ conn[c].sent > 0

(* Delete frees a connection with its context and its overlapped: nothing  *)
(* is outstanding on a deleted connection, and no thread has it in hand    *)
(* for a later access, as the count of iorefs_ comes last in every case.   *)
DeletedUntouched ==
  \A c \in Conns : life[c] = "deleted" =>
    /\ conn[c].own = "off" /\ conn[c].connected = 0 /\ ~Outstanding(c)
    /\ \A w \in Workers : th[w].conn # c

HandlesAccept(t) ==
  \/ t.pc \in {"update", "accepted"}
  \/ t.pc \in {"firstrecv", "reject", "firstunref"} /\ t.conn \in Servers

(* ~EasyAcceptor frees the context_ that AcceptEx uses and the counts that *)
(* threads write: after it no accept is posted, in the port or handled.    *)
AcceptorFreedUnused ==
  main \in {"waitlist", "drain", "delworker", "waitin", "waitout", "done"} =>
    acc.req = "off" /\ \A w \in Workers : ~HandlesAccept(th[w])

(* ~EasyContextPool frees no context that a request still refers to, and   *)
(* frees when no thread is left to push one.                               *)
PoolFreedUnused ==
  /\ main \in {"waitout", "done"} => \A c \in Conns : conn[c].recv = "off"
  /\ main = "done" => \A c \in Conns : ~Outstanding(c)
  /\ main \in {"waitin", "waitout", "done"} => \A w \in Workers : th[w].pc = "left"

(* Whenever the server is torn down, what is freed is used by nobody: the  *)
(* kernel, the port or a thread.                                           *)
FreedUnused == TypeOK /\ DeletedUntouched /\ AcceptorFreedUnused /\ PoolFreedUnused

(* The callbacks of connections of both ends come in the order of the      *)
(* handler protocol: a Connect is answered by OnConnection or by           *)
(* OnConnectFailed, once, and a failed connection is never heard of again. *)
Protocol == INSTANCE HandlerProtocol
FollowsProtocol == Protocol!Spec

(* A Connect that returned true is answered, unless the program ends.      *)
ConnectAnswered ==
  \A c \in Clients : conn[c].own = "connecting" ~> (phase[c] # "idle" \/ ~Running)

(* A client's connection that failed, or whose disconnect was posted, is   *)
(* deleted in the end, unless the program ends first: none is left behind. *)
ClientsDeleted ==
  \A c \in Clients :
    phase[c] = "failed" \/ conn[c].own = "disconnecting" ~> (life[c] = "deleted" \/ ~Running)

(* ~EasyWorker returns: every thread gets an empty packet, whatever else   *)
(* is in the port.                                                         *)
WorkerIsDeleted == main = "delworker" ~> main = "waitin"

(* ~EasyAcceptor waits "a while" for io that is not released.              *)
AcceptorIsDeleted == main = "waitaccepts" ~> main = "delworker"

(* "stop and destroy the acceptor, close all connection": no connection of *)
(* a destroyed acceptor is in use or will be closed later, on a free list  *)
(* that does not exist any more.                                           *)
AllConnectionsClosed ==
  main \in {"delworker", "waitin", "waitout", "done"} =>
    \A c \in Servers : phase[c] = "idle"

(* "destroy context pool": the destructor comes to its end.                *)
PoolIsDeleted == main = "waitin" ~> main = "done"
==============================================================================
