----------------------------- MODULE IocpNetwork -----------------------------
(***************************************************************************)
(* The Windows server side of network/src: one acceptor, its connections,  *)
(* the context pool, the worker threads that drain the I/O completion port *)
(* and the application behind the EasyHandler callbacks.                   *)
(*                                                                         *)
(* A step is what one thread does between two points where another thread  *)
(* (or the kernel) can observe it: an interlocked operation on a           *)
(* connection, a push or pop of a list, the posting of an overlapped       *)
(* request, a callback.  The kernel completes overlapped requests in any   *)
(* order; the port is a set of completed requests.                         *)
(***************************************************************************)
EXTENDS Integers, FiniteSets

CONSTANTS
  Conns,          \* EasyConnection objects that can be created
  Workers,        \* threads of EasyWorker
  App, Main,      \* the application's command thread; the thread that starts and stops
  InCtxs,         \* receive contexts the allocator can give
  OutCtxs,        \* send contexts the allocator can give
  NoConn, NoCtx,  \* null pointers
  IoRefMax,       \* iorefmax_ (65536, or 256 after SetRefMax)
  TotalMod,       \* total_connection_ counts modulo this (2^32)
  Faults,         \* the rare failures that may happen, a subset of FaultKinds
  Eager           \* TRUE: the application may use a connection as soon as
                  \* OnConnection was called; FALSE: only after its first OnData

Ctxs == InCtxs \cup OutCtxs
Threads == Workers \cup {App, Main}
FaultKinds == {"AcceptEx",      \* AcceptEx fails at once
               "AcceptDone",    \* a posted AcceptEx completes with an error
               "UpdateAccept",  \* setsockopt(SO_UPDATE_ACCEPT_CONTEXT) fails
               "DisconnectEx",  \* DisconnectEx fails at once
               "Oversize"}      \* a send is longer than the output buffer

ASSUME SetsAssumption ==
  /\ IsFiniteSet(Conns) /\ IsFiniteSet(Workers)
  /\ IsFiniteSet(InCtxs) /\ IsFiniteSet(OutCtxs)
  /\ InCtxs \cap OutCtxs = {}
  /\ App # Main /\ App \notin Workers /\ Main \notin Workers
  /\ NoConn \notin Conns /\ NoCtx \notin Ctxs
ASSUME NumbersAssumption == IoRefMax \in Nat /\ TotalMod \in Nat \ {0}
ASSUME SwitchesAssumption == Faults \subseteq FaultKinds /\ Eager \in BOOLEAN

VARIABLES
  connected,        \* connected_ of each connection
  iorefs,           \* iorefs_ of each connection
  sock,             \* its socket: not created, reusable, or with a TCP peer
  disc,             \* the overlapped DisconnectEx of its own context_
  phase,            \* what its OnConnection, OnData, OnDisconnect have told the application
  acc,              \* the acceptor's context_: its AcceptEx and its connection_
  accIorefs,        \* the acceptor's iorefs_
  running,          \* the acceptor's running_
  total,            \* the acceptor's total_connection_
  freeConnection,   \* the acceptor's free_connection_, a linked list
  made,             \* contexts allocated so far
  pool,             \* how often each context is linked in its free list
  ov,               \* the overlapped WSARecv or WSASend of each context
  th                \* what each thread is doing

connVars == <<connected, iorefs, sock, disc, phase>>
accVars == <<acc, accIorefs, running, total, freeConnection>>
ctxVars == <<made, pool, ov>>
vars == <<connVars, accVars, ctxVars, th>>

------------------------------------------------------------------------------
(* Overlapped requests: "off", in the "kernel", or in the completion port  *)
(* as "ok" or "bad" (an error, or zero bytes received).                    *)
Off == [st |-> "off", conn |-> NoConn]
InKernel(c) == [st |-> "kernel", conn |-> c]

(* A thread's program counter, its pConnection and its pContext.           *)
Idle == [pc |-> "idle", conn |-> NoConn, ctx |-> NoCtx]
At(pc, c, x) == [pc |-> pc, conn |-> c, ctx |-> x]
Goto(t, pc, c, x) == th' = [th EXCEPT ![t] = At(pc, c, x)]
Return(t) == th' = [th EXCEPT ![t] = Idle]

Init ==
  /\ connected = [c \in Conns |-> 0]
  /\ iorefs = [c \in Conns |-> 0]
  /\ sock = [c \in Conns |-> "none"]
  /\ disc = [c \in Conns |-> "off"]
  /\ phase = [c \in Conns |-> "idle"]
  /\ acc = Off
  /\ accIorefs = 0 /\ running = 0 /\ total = 0
  /\ freeConnection = [head |-> NoConn, next |-> [c \in Conns |-> NoConn]]
  /\ made = {}
  /\ pool = [x \in Ctxs |-> 0]
  /\ ov = [x \in Ctxs |-> Off]
  /\ th = [t \in Threads |-> Idle]

------------------------------------------------------------------------------
(* Interlocked lists.  The order inside a context pool is abstracted away. *)
SPush(l, c) == [head |-> c, next |-> [l.next EXCEPT ![c] = l.head]]
SPop(l) == [l EXCEPT !.head = l.next[l.head]]

(* What PopInputContext or PopOutputContext may return: a pooled context,  *)
(* a fresh one when the pool is empty, none when the allocator fails.      *)
Poppable(X) ==
  LET pooled == {x \in X : pool[x] > 0}
  IN  IF pooled # {} THEN pooled ELSE X \ made

PopContext(x) ==
  /\ made' = made \cup {x}
  /\ pool' = [pool EXCEPT ![x] = IF @ > 0 THEN @ - 1 ELSE @]

PushContext(x) == pool' = [pool EXCEPT ![x] = @ + 1]

------------------------------------------------------------------------------
(* EasyConnection: the parts of its operations that several threads share. *)

(* Mutant: a disconnect is posted without looking at connected_.           *)
AsyncDisconnectAgain(c) ==
  /\ connected' = [connected EXCEPT ![c] = 0]
  /\ disc' = [disc EXCEPT ![c] = "kernel"]

(* Mutant: connected_ is tested and not cleared.                           *)
AsyncDisconnectNoSwap(c) ==
  /\ UNCHANGED connected
  /\ \/ connected[c] = 0 /\ UNCHANGED disc
     \/ connected[c] # 0 /\ disc' = [disc EXCEPT ![c] = "kernel"]

(* The compare-and-swap on connected_ elects the one caller that posts.    *)
AsyncDisconnect(c) ==
  \/ /\ connected[c] = 0
     /\ UNCHANGED <<connected, disc>>
  \/ /\ connected[c] # 0
     /\ connected' = [connected EXCEPT ![c] = 0]
     /\ \/ disc' = [disc EXCEPT ![c] = "kernel"]
        \/ "DisconnectEx" \in Faults /\ UNCHANGED disc

(* WSARecv or WSASend with context x after ++iorefs_.  It can pend only on *)
(* a connected socket, and fails there too once the peer has reset it.     *)
Post(t, c, x, posted) ==
  /\ sock[c] = "connected"
  /\ iorefs' = [iorefs EXCEPT ![c] = @ + 1]
  /\ ov' = [ov EXCEPT ![x] = InKernel(c)]
  /\ th' = [th EXCEPT ![t] = posted]
  /\ UNCHANGED <<connected, disc, pool>>

(* Mutants: a refused request keeps its context; gives it back twice.      *)
PostFailsLeaking(t, c, x, unref) ==
  /\ iorefs' = [iorefs EXCEPT ![c] = @ + 1]
  /\ AsyncDisconnect(c)
  /\ Goto(t, unref, c, NoCtx)
  /\ UNCHANGED <<pool, ov>>

PostFailsPushingTwice(t, c, x, unref) ==
  /\ iorefs' = [iorefs EXCEPT ![c] = @ + 1]
  /\ pool' = [pool EXCEPT ![x] = @ + 2]
  /\ AsyncDisconnect(c)
  /\ Goto(t, unref, c, NoCtx)
  /\ UNCHANGED ov

(* The request is refused: the context goes back, the connection is        *)
(* disconnected, and the reference is dropped in a later step.             *)
PostFails(t, c, x, unref) ==
  /\ iorefs' = [iorefs EXCEPT ![c] = @ + 1]
  /\ PushContext(x)
  /\ AsyncDisconnect(c)
  /\ Goto(t, unref, c, NoCtx)
  /\ UNCHANGED ov

Unref(c) == iorefs' = [iorefs EXCEPT ![c] = @ - 1]

------------------------------------------------------------------------------
(* EasyAcceptor *)

Fresh == {c \in Conns : sock[c] = "none"}
Reusing == freeConnection.head # NoConn

(* Accept() takes the head of the free list, or creates a connection.      *)
Candidates == IF Reusing THEN {freeConnection.head} ELSE Fresh

(* Mutant: a signed total_connection_, which goes below zero.              *)
TakeConnectionSigned(c, remaining) ==
  /\ freeConnection' = remaining
  /\ total' = IF Reusing THEN total - 1 ELSE total
  /\ sock' = IF Reusing THEN sock ELSE [sock EXCEPT ![c] = "idle"]
  /\ accIorefs' = accIorefs + 1
  /\ UNCHANGED running

TakeConnection(c, remaining) ==
  /\ freeConnection' = remaining
  /\ total' = IF Reusing THEN (total - 1) % TotalMod ELSE total
  /\ sock' = IF Reusing THEN sock ELSE [sock EXCEPT ![c] = "idle"]
  /\ accIorefs' = accIorefs + 1
  /\ UNCHANGED running

Remaining == IF Reusing THEN SPop(freeConnection) ELSE freeConnection

(* The guard of EasyConnection::Close, which refuses any other connection. *)
Quiet(c) == iorefs[c] = 0 /\ connected[c] = 0

AcceptPosted(t, after) ==
  \E c \in Candidates :
    /\ sock[c] # "connected"
    /\ TakeConnection(c, Remaining)
    /\ acc' = InKernel(c)
    /\ th' = [th EXCEPT ![t] = after]

(* AcceptEx fails at once; Close(pConnection) already pushes the           *)
(* connection back on the free list.                                       *)
AcceptRefused(t, after) ==
  \E c \in Candidates :
    /\ sock[c] = "connected" \/ "AcceptEx" \in Faults
    /\ TakeConnection(c, IF Quiet(c) THEN SPush(Remaining, c) ELSE Remaining)
    /\ acc' = [Off EXCEPT !.conn = c]
    /\ Goto(t, "refused", after.conn, NoCtx)

(* Mutant: running_ stays set.                                             *)
AcceptWithoutStopping(t, after) ==
  /\ Candidates = {}
  /\ acc' = Off
  /\ th' = [th EXCEPT ![t] = after]
  /\ UNCHANGED <<sock, total, freeConnection, accIorefs, running>>

(* Create fails when no connection can be allocated.                       *)
AcceptWithout(t, after) ==
  /\ Candidates = {}
  /\ running' = 0
  /\ acc' = Off
  /\ th' = [th EXCEPT ![t] = after]
  /\ UNCHANGED <<sock, total, freeConnection, accIorefs>>

(* Accept() as run by thread t, which then continues in state "after".     *)
Accept(t, after) ==
  /\ AcceptPosted(t, after) \/ AcceptRefused(t, after) \/ AcceptWithout(t, after)
  /\ UNCHANGED <<connected, iorefs, disc, phase, ctxVars>>

(* The rest of the failure path of Accept(): the connection is pushed once *)
(* more, and the caller goes on.                                           *)
AcceptGivesUp(t) ==
  /\ th[t].pc = "refused"
  /\ freeConnection' = SPush(freeConnection, acc.conn)
  /\ total' = (total + 1) % TotalMod
  /\ accIorefs' = accIorefs - 1
  /\ running' = 0
  /\ acc' = Off
  /\ IF t = Main THEN Return(t) ELSE Goto(t, "update", th[t].conn, NoCtx)
  /\ UNCHANGED <<connVars, ctxVars>>

------------------------------------------------------------------------------
(* The main thread: EasyAcceptor::Start and Stop                           *)

Start ==
  /\ th[Main].pc = "idle" /\ running = 0
  /\ running' = 1
  /\ Goto(Main, "starting", NoConn, NoCtx)
  /\ UNCHANGED <<connVars, acc, accIorefs, total, freeConnection, ctxVars>>

StartAccept ==
  /\ th[Main].pc = "starting" /\ accIorefs = 0
  /\ Accept(Main, Idle)

Stop ==
  /\ th[Main].pc = "idle" /\ running = 1
  /\ running' = 0
  /\ UNCHANGED <<connVars, acc, accIorefs, total, freeConnection, ctxVars, th>>

------------------------------------------------------------------------------
(* EasyWorker::WorkerThread, case OPERATION_ACCEPT                         *)

(* A connection has arrived: another accept is posted first.               *)
DequeueAccept(w) ==
  /\ th[w].pc = "idle" /\ acc.st = "ok"
  /\ Accept(w, At("update", acc.conn, NoCtx))

(* A failed accept is dropped: nothing is posted, nothing is counted down. *)
DequeueFailedAccept(w) ==
  /\ th[w].pc = "idle" /\ acc.st = "bad"
  /\ acc' = Off
  /\ UNCHANGED <<connVars, accIorefs, running, total, freeConnection, ctxVars, th>>

(* connected_ = 1, OnConnection, and a context for the first receive.      *)
UpdateAccept(w) ==
  LET c == th[w].conn IN
  /\ th[w].pc = "update"
  /\ connected' = [connected EXCEPT ![c] = 1]
  /\ \/ /\ phase' = [phase EXCEPT ![c] = "open"]
        /\ \E x \in Poppable(InCtxs) :
             PopContext(x) /\ Goto(w, "firstrecv", c, x)
     \/ /\ phase' = [phase EXCEPT ![c] = "open"]
        /\ Poppable(InCtxs) = {}
        /\ Goto(w, "reject", c, NoCtx)
        /\ UNCHANGED <<made, pool>>
     \/ /\ phase' = [phase EXCEPT ![c] = "rejected"]
        /\ Goto(w, "reject", c, NoCtx)
        /\ UNCHANGED <<made, pool>>
  /\ UNCHANGED <<iorefs, sock, disc, accVars, ov>>

(* Mutant: a connection that could not be updated is pushed back as it is. *)
UpdateAcceptFailsFreeing(w) ==
  /\ th[w].pc = "update" /\ "UpdateAccept" \in Faults
  /\ freeConnection' = SPush(freeConnection, th[w].conn)
  /\ Goto(w, "accepted", NoConn, NoCtx)
  /\ UNCHANGED <<connVars, acc, accIorefs, running, total, ctxVars>>

UpdateAcceptFails(w) ==
  /\ th[w].pc = "update" /\ "UpdateAccept" \in Faults
  /\ Goto(w, "accepted", NoConn, NoCtx)
  /\ UNCHANGED <<connVars, accVars, ctxVars>>

RejectConnection(w) ==
  /\ th[w].pc = "reject"
  /\ AsyncDisconnect(th[w].conn)
  /\ Goto(w, "accepted", NoConn, NoCtx)
  /\ UNCHANGED <<iorefs, sock, phase, accVars, ctxVars>>

FirstRecv(w) ==
  LET c == th[w].conn  x == th[w].ctx IN
  /\ th[w].pc = "firstrecv"
  /\ \/ Post(w, c, x, At("accepted", NoConn, NoCtx))
     \/ PostFails(w, c, x, "firstunref")
  /\ UNCHANGED <<sock, phase, accVars, made>>

FirstUnref(w) ==
  /\ th[w].pc = "firstunref"
  /\ Unref(th[w].conn)
  /\ Goto(w, "accepted", NoConn, NoCtx)
  /\ UNCHANGED <<connected, sock, disc, phase, accVars, ctxVars>>

(* Mutant: the accept is not counted down.                                 *)
EndAcceptUncounted(w) ==
  /\ th[w].pc = "accepted"
  /\ Return(w)
  /\ UNCHANGED <<connVars, accVars, ctxVars>>

EndAccept(w) ==
  /\ th[w].pc = "accepted"
  /\ accIorefs' = accIorefs - 1
  /\ Return(w)
  /\ UNCHANGED <<connVars, acc, running, total, freeConnection, ctxVars>>

------------------------------------------------------------------------------
(* EasyWorker::WorkerThread, the cases of an established connection        *)

(* Data: OnData is called with the buffer of the context ...               *)
DequeueData(w, x) ==
  LET c == ov[x].conn IN
  /\ th[w].pc = "idle" /\ x \in InCtxs /\ ov[x].st = "ok"
  /\ ov' = [ov EXCEPT ![x] = Off]
  /\ phase' = [phase EXCEPT ![c] = "talking"]
  /\ Goto(w, "nextrecv", c, x)
  /\ UNCHANGED <<connected, iorefs, sock, disc, accVars, made, pool>>

(* ... and the same context receives again.                                *)
NextRecv(w) ==
  LET c == th[w].conn  x == th[w].ctx IN
  /\ th[w].pc = "nextrecv"
  /\ \/ Post(w, c, x, At("handled", c, NoCtx))
     \/ PostFails(w, c, x, "nextunref")
  /\ UNCHANGED <<sock, phase, accVars, made>>

(* Mutant: the error path of AsyncRecv returns without counting down.      *)
NextUnrefForgotten(w) ==
  /\ th[w].pc = "nextunref"
  /\ Goto(w, "handled", th[w].conn, NoCtx)
  /\ UNCHANGED <<connVars, accVars, ctxVars>>

NextUnref(w) ==
  /\ th[w].pc = "nextunref"
  /\ Unref(th[w].conn)
  /\ Goto(w, "handled", th[w].conn, NoCtx)
  /\ UNCHANGED <<connected, sock, disc, phase, accVars, ctxVars>>

(* Mutant: zero bytes end the receiving and nothing else.                  *)
DequeueEofSilently(w, x) ==
  /\ th[w].pc = "idle" /\ x \in InCtxs /\ ov[x].st = "bad"
  /\ ov' = [ov EXCEPT ![x] = Off]
  /\ PushContext(x)
  /\ Goto(w, "handled", ov[x].conn, NoCtx)
  /\ UNCHANGED <<connVars, accVars, made>>

(* Zero bytes: the peer has closed, or the receive has failed.             *)
DequeueEof(w, x) ==
  LET c == ov[x].conn IN
  /\ th[w].pc = "idle" /\ x \in InCtxs /\ ov[x].st = "bad"
  /\ ov' = [ov EXCEPT ![x] = Off]
  /\ PushContext(x)
  /\ AsyncDisconnect(c)
  /\ Goto(w, "handled", c, NoCtx)
  /\ UNCHANGED <<iorefs, sock, phase, accVars, made>>

DequeueSent(w, x) ==
  LET c == ov[x].conn IN
  /\ th[w].pc = "idle" /\ x \in OutCtxs /\ ov[x].st \in {"ok", "bad"}
  /\ ov' = [ov EXCEPT ![x] = Off]
  /\ PushContext(x)
  /\ Goto(w, "handled", c, NoCtx)
  /\ UNCHANGED <<connVars, accVars, made>>

EndHandling(w) ==
  /\ th[w].pc = "handled"
  /\ Unref(th[w].conn)
  /\ Return(w)
  /\ UNCHANGED <<connected, sock, disc, phase, accVars, ctxVars>>

(* Mutant: OnDisconnect does not wait for outstanding requests.            *)
DequeueDisconnectEarly(w, c) ==
  /\ th[w].pc = "idle" /\ disc[c] = "ok"
  /\ disc' = [disc EXCEPT ![c] = "off"]
  /\ phase' = [phase EXCEPT ![c] = "lost"]
  /\ UNCHANGED <<connected, iorefs, sock, accVars, ctxVars, th>>

(* OnDisconnect.  While requests of the connection are outstanding the     *)
(* packet is posted to the port again, which changes nothing.              *)
DequeueDisconnect(w, c) ==
  /\ th[w].pc = "idle" /\ disc[c] = "ok" /\ iorefs[c] = 0
  /\ disc' = [disc EXCEPT ![c] = "off"]
  /\ phase' = [phase EXCEPT ![c] = "lost"]
  /\ UNCHANGED <<connected, iorefs, sock, accVars, ctxVars, th>>

------------------------------------------------------------------------------
(* The application's command thread: EasySession::SendData, Disconnect and *)
(* OnDisconnect.  It learns of OnDisconnect from its command queue, so it  *)
(* may still use a connection that is already lost.                        *)

Usable(c) == phase[c] \in {"talking", "lost"} \cup (IF Eager THEN {"open"} ELSE {})

AppSend(c) ==
  /\ th[App].pc = "idle" /\ Usable(c)
  /\ \E x \in Poppable(OutCtxs) : PopContext(x) /\ Goto(App, "send", c, x)
  /\ UNCHANGED <<connVars, accVars, ov>>

(* AsyncSend(len, buf) returns on an oversized len and keeps the context.  *)
AppSendOversize ==
  /\ th[App].pc = "send" /\ "Oversize" \in Faults
  /\ Return(App)
  /\ UNCHANGED <<connVars, accVars, ctxVars>>

AppSendOverLimit ==
  LET c == th[App].conn  x == th[App].ctx IN
  /\ th[App].pc = "send" /\ iorefs[c] > IoRefMax
  /\ PushContext(x)
  /\ AsyncDisconnect(c)
  /\ Return(App)
  /\ UNCHANGED <<iorefs, sock, phase, accVars, made, ov>>

(* Mutant: sends are not limited.                                          *)
AppSendUnlimited ==
  /\ th[App].pc = "send"
  /\ Goto(App, "post", th[App].conn, th[App].ctx)
  /\ UNCHANGED <<connVars, accVars, ctxVars>>

(* The limit is tested here, and the reference counted in a later step.    *)
AppSendWithinLimit ==
  /\ th[App].pc = "send" /\ iorefs[th[App].conn] <= IoRefMax
  /\ Goto(App, "post", th[App].conn, th[App].ctx)
  /\ UNCHANGED <<connVars, accVars, ctxVars>>

AppSendPost ==
  LET c == th[App].conn  x == th[App].ctx IN
  /\ th[App].pc = "post"
  /\ \/ Post(App, c, x, Idle)
     \/ PostFails(App, c, x, "sendunref")
  /\ UNCHANGED <<sock, phase, accVars, made>>

AppSendUnref ==
  /\ th[App].pc = "sendunref"
  /\ Unref(th[App].conn)
  /\ Return(App)
  /\ UNCHANGED <<connected, sock, disc, phase, accVars, ctxVars>>

AppDisconnect(c) ==
  /\ th[App].pc = "idle" /\ Usable(c)
  /\ AsyncDisconnect(c)
  /\ UNCHANGED <<iorefs, sock, phase, accVars, ctxVars, th>>

(* EasyConnection::Close: a connection that is not quiet is dropped.       *)
AppClose(c) ==
  /\ th[App].pc = "idle" /\ phase[c] = "lost"
  /\ phase' = [phase EXCEPT ![c] = "idle"]
  /\ freeConnection' = IF Quiet(c) THEN SPush(freeConnection, c) ELSE freeConnection
  /\ UNCHANGED <<connected, iorefs, sock, disc, acc, accIorefs, running, total, ctxVars, th>>

------------------------------------------------------------------------------
(* The kernel and the peers complete what was posted.                      *)

ConnectionArrives ==
  /\ acc.st = "kernel"
  /\ acc' = [acc EXCEPT !.st = "ok"]
  /\ sock' = [sock EXCEPT ![acc.conn] = "connected"]
  /\ UNCHANGED <<connected, iorefs, disc, phase, accIorefs, running, total, freeConnection, ctxVars, th>>

AcceptExFails ==
  /\ acc.st = "kernel" /\ "AcceptDone" \in Faults
  /\ acc' = [acc EXCEPT !.st = "bad"]
  /\ UNCHANGED <<connVars, accIorefs, running, total, freeConnection, ctxVars, th>>

RequestSucceeds(x) ==
  /\ ov[x].st = "kernel" /\ sock[ov[x].conn] = "connected"
  /\ ov' = [ov EXCEPT ![x].st = "ok"]
  /\ UNCHANGED <<connVars, accVars, made, pool, th>>

RequestFails(x) ==
  /\ ov[x].st = "kernel"
  /\ ov' = [ov EXCEPT ![x].st = "bad"]
  /\ UNCHANGED <<connVars, accVars, made, pool, th>>

DisconnectCompletes(c) ==
  /\ disc[c] = "kernel"
  /\ disc' = [disc EXCEPT ![c] = "ok"]
  /\ sock' = [sock EXCEPT ![c] = "idle"]
  /\ UNCHANGED <<connected, iorefs, phase, accVars, ctxVars, th>>

------------------------------------------------------------------------------
MainNext == Start \/ StartAccept \/ AcceptGivesUp(Main) \/ Stop

WorkerNext(w) ==
  \/ DequeueAccept(w) \/ DequeueFailedAccept(w) \/ AcceptGivesUp(w)
  \/ UpdateAccept(w) \/ UpdateAcceptFails(w) \/ RejectConnection(w)
  \/ FirstRecv(w) \/ FirstUnref(w) \/ EndAccept(w)
  \/ NextRecv(w) \/ NextUnref(w) \/ EndHandling(w)
  \/ \E x \in Ctxs : DequeueData(w, x) \/ DequeueEof(w, x) \/ DequeueSent(w, x)
  \/ \E c \in Conns : DequeueDisconnect(w, c)

AppNext ==
  \/ AppSendOversize \/ AppSendOverLimit \/ AppSendWithinLimit
  \/ AppSendPost \/ AppSendUnref
  \/ \E c \in Conns : AppSend(c) \/ AppDisconnect(c) \/ AppClose(c)

KernelNext ==
  \/ ConnectionArrives \/ AcceptExFails
  \/ \E x \in Ctxs : RequestSucceeds(x) \/ RequestFails(x)
  \/ \E c \in Conns : DisconnectCompletes(c)

Next == MainNext \/ AppNext \/ KernelNext \/ \E w \in Workers : WorkerNext(w)

Spec == Init /\ [][Next]_vars

(* Fairness.  A thread inside a handler or a call goes on; the port hands  *)
(* out its packets in turn, so that each is taken by one of the workers,   *)
(* which are idle again and again; the kernel completes a DisconnectEx,    *)
(* and with an error whatever is left of a connection without a peer.      *)
(* Peers owe nothing, and the application need only close what is lost.    *)
InHandler(w) ==
  \/ AcceptGivesUp(w) \/ UpdateAccept(w) \/ RejectConnection(w)
  \/ FirstRecv(w) \/ FirstUnref(w) \/ EndAccept(w)
  \/ NextRecv(w) \/ NextUnref(w) \/ EndHandling(w)

DequeueRequest(w, x) == DequeueData(w, x) \/ DequeueEof(w, x) \/ DequeueSent(w, x)

Orphaned(x) == RequestFails(x) /\ sock[ov[x].conn] # "connected"

Fairness ==
  /\ WF_vars(StartAccept \/ AcceptGivesUp(Main))
  /\ WF_vars(AppSendOverLimit \/ AppSendWithinLimit \/ AppSendPost \/ AppSendUnref)
  /\ \A w \in Workers : WF_vars(InHandler(w))
  /\ SF_vars(\E w \in Workers : DequeueAccept(w) \/ DequeueFailedAccept(w))
  /\ \A x \in Ctxs : /\ SF_vars(\E w \in Workers : DequeueRequest(w, x))
                     /\ WF_vars(Orphaned(x))
  /\ \A c \in Conns : /\ SF_vars(\E w \in Workers : DequeueDisconnect(w, c))
                      /\ WF_vars(DisconnectCompletes(c))
                      /\ WF_vars(AppClose(c))

FairSpec == Spec /\ Fairness

------------------------------------------------------------------------------
(* Type invariant                                                          *)

Pcs == {"idle", "starting", "refused", "update", "reject", "firstrecv",
        "firstunref", "accepted", "nextrecv", "nextunref", "handled",
        "send", "post", "sendunref"}
RequestStates == {"off", "kernel", "ok", "bad"}
MaybeConn == Conns \cup {NoConn}

(* Every variable has its type.                                            *)
TypeOK ==
  /\ connected \in [Conns -> {0, 1}]
  /\ iorefs \in [Conns -> Int]
  /\ sock \in [Conns -> {"none", "idle", "connected"}]
  /\ disc \in [Conns -> {"off", "kernel", "ok"}]
  /\ phase \in [Conns -> {"idle", "rejected", "open", "talking", "lost"}]
  /\ acc \in [st : RequestStates, conn : MaybeConn]
  /\ accIorefs \in Int /\ running \in {0, 1} /\ total \in 0 .. TotalMod - 1
  /\ freeConnection \in [head : MaybeConn, next : [Conns -> MaybeConn]]
  /\ made \subseteq Ctxs
  /\ pool \in [Ctxs -> Nat]
  /\ ov \in [Ctxs -> [st : RequestStates, conn : MaybeConn]]
  /\ th \in [Threads -> [pc : Pcs, conn : MaybeConn, ctx : Ctxs \cup {NoCtx}]]

------------------------------------------------------------------------------
(* Safety                                                                  *)

InFlight(c) == {x \in Ctxs : ov[x].st # "off" /\ ov[x].conn = c}
ThreadsAt(pcs, c) == {t \in Threads : th[t].pc \in pcs /\ th[t].conn = c}
HandlingPcs == {"nextrecv", "nextunref", "handled"}
UnrefPcs == {"firstunref", "nextunref", "sendunref"}
AcceptPcs == {"update", "reject", "firstrecv", "firstunref", "accepted"}
Holders(x) == {t \in Threads : th[t].ctx = x}
OneIf(b) == IF b THEN 1 ELSE 0

(* iorefs_ of a connection is exactly the number of its receives and sends *)
(* in flight, of the completions of it being handled and of the refused    *)
(* requests not yet counted down, whatever fails and whenever the          *)
(* application steps in: no path of AsyncSend, AsyncRecv or WorkerThread   *)
(* forgets or repeats a count.                                             *)
IoRefsExact ==
  \A c \in Conns :
    iorefs[c] = Cardinality(InFlight(c)) + Cardinality(ThreadsAt(HandlingPcs, c))
                + Cardinality(ThreadsAt(UnrefPcs, c))

(* A context is in one place at a time: once in its pool, or in one        *)
(* overlapped request, or in the hands of one thread.                      *)
ContextsExclusive ==
  \A x \in Ctxs :
    pool[x] + OneIf(ov[x].st # "off") + Cardinality(Holders(x)) <= OneIf(x \in made)

(* What makes the three invariants above inductive: a thread holds a       *)
(* context and a connection exactly at the points of the code where it has *)
(* them in hand, and the three places of a context exclude each other.     *)
RecordsInv ==
  /\ \A t \in Threads :
       /\ th[t].pc \in {"firstrecv", "nextrecv", "send", "post"} <=> th[t].ctx # NoCtx
       /\ \/ th[t].pc \in {"update", "reject", "firstrecv", "send", "post"} \cup HandlingPcs \cup UnrefPcs
          \/ th[t].pc = "refused" /\ t # Main
          => th[t].conn \in Conns
  /\ acc.st # "off" => acc.conn \in Conns
  /\ \A x \in Ctxs : ov[x].st # "off" => ov[x].conn \in Conns

PlacesInv ==
  \A x \in Ctxs :
    /\ pool[x] <= 1 /\ (pool[x] = 1 => ov[x].st = "off" /\ x \in made)
    /\ ov[x].st # "off" => x \in made
    /\ \A t \in Threads :
         th[t].ctx = x => /\ pool[x] = 0 /\ ov[x].st = "off" /\ x \in made
                          /\ \A u \in Threads : th[u].ctx = x => u = t

(* And no allocated context is ever forgotten, so that ~EasyContextPool    *)
(* can find all of them in its lists.                                      *)
ContextsConserved ==
  \A x \in Ctxs :
    pool[x] + OneIf(ov[x].st # "off") + Cardinality(Holders(x)) = OneIf(x \in made)

(* iorefs_ of the acceptor counts the accept posted and the accepts whose  *)
(* handling has not ended ("if start, add one, if finished, minus one").   *)
AccIorefsExact ==
  accIorefs = OneIf(acc.st # "off")
              + Cardinality({t \in Threads : th[t].pc = "refused"})
              + Cardinality({w \in Workers : th[w].pc \in AcceptPcs \cup {"refused"}})

(* While running_ is set an accept is posted or about to be.               *)
Listening ==
  running = 1 => \/ acc.st # "off"
                 \/ th[Main].pc = "starting"
                 \/ \E t \in Threads : th[t].pc = "refused"

(* The connections in list l from its entry c on: those in every set that  *)
(* has c and, with a connection, the next one.                             *)
Closed(l, S) == \A e \in S : l.next[e] \in Conns => l.next[e] \in S
From(l, c) ==
  {d \in Conns : \A S \in SUBSET Conns : Closed(l, S) /\ (c \in Conns => c \in S) => d \in S}
Listed == From(freeConnection, freeConnection.head)

(* Nothing of the previous use of a connection is left where it can be     *)
(* accepted on again: not on the free list, not under a posted AcceptEx.   *)
FreeIsQuiescent ==
  \A c \in Listed \cup ({acc.conn} \cap Conns) :
    /\ c \in Listed => acc.conn # c
    /\ acc.st # "ok" \/ c \in Listed => sock[c] # "connected"
    /\ Quiet(c) /\ disc[c] = "off" /\ phase[c] = "idle"
    /\ InFlight(c) = {} /\ \A t \in Threads : th[t].conn # c

(* A created connection can always be found: on the free list, with the    *)
(* acceptor, with a worker accepting on it, or announced to the            *)
(* application and not closed yet.                                         *)
ConnectionsConserved ==
  \A c \in Conns \ Fresh :
    \/ c \in Listed \/ acc.conn = c \/ phase[c] # "idle"
    \/ \E w \in Workers : th[w].conn = c /\ th[w].pc = "update"

(* A connection never has two receives, so that OnData sees the bytes of   *)
(* the stream in their order; and as long as it is connected it has one,   *)
(* or a worker is about to disconnect it: no connection goes deaf.         *)
OneReceive ==
  \A c \in Conns :
    LET receives == Cardinality(InFlight(c) \cap InCtxs)
                    + Cardinality(ThreadsAt({"firstrecv", "nextrecv"}, c))
    IN  /\ receives <= 1
        /\ connected[c] = 1 => receives = 1 \/ ThreadsAt({"reject"}, c) # {}

(* The assertion of EasyConnection::Close holds whenever the application   *)
(* closes a connection it was told is lost.                                *)
CloseAssertion ==
  \A c \in Conns : phase[c] = "lost" /\ th[App].pc = "idle" => Quiet(c)

(* The acceptor's counts are exact and it never falls silent: Start waits  *)
(* for accIorefs, and every handled accept posts the next.                 *)
AcceptorSound == AccIorefsExact /\ Listening

(* The life of an EasyConnection is a cycle: it is never lost to the       *)
(* server, never accepted on while anything of its last use is left, and   *)
(* never closed before its last request has come back.                     *)
Recycled == ConnectionsConserved /\ FreeIsQuiescent /\ CloseAssertion

(* AsyncDisconnect never posts a connection's own overlapped structure     *)
(* while it is in use: connected_ is 1 only when no disconnect is pending  *)
(* and the socket has a peer.                                              *)
DisconnectOnce ==
  \A c \in Conns : connected[c] = 1 => disc[c] = "off" /\ sock[c] = "connected"

(* The references of a connection exceed what SetRefMax allows by one send *)
(* and one completion in the hands of each worker, and never more.         *)
IoRefsBounded == \A c \in Conns : iorefs[c] <= IoRefMax + 1 + Cardinality(Workers)

(* The assertion at the start of AsyncSend.                                *)
RefMaxAssertion ==
  \A c \in Conns : th[App].pc = "send" /\ th[App].conn = c => iorefs[c] <= IoRefMax

(* Stop receiving connection: once running_ is 0 no accept is posted.      *)
StopStopsAccepting ==
  [][acc.st # "kernel" /\ acc'.st = "kernel" => running' = 1]_vars

(* A running server still has connections to count: no more are counted    *)
(* than were ever created ("number of connections").                       *)
TotalIsCount == total <= Cardinality(Conns \ Fresh)

------------------------------------------------------------------------------
(* Liveness                                                                *)

(* Once the application is done with sending, a connection whose           *)
(* disconnect was posted is reported lost, closed and back on the free     *)
(* list, whatever was in flight on it.                                     *)
DisconnectedIsFreed ==
  <>[](th[App].pc = "idle") =>
    \A c \in Conns : disc[c] = "kernel" ~> c \in Listed

(* An accepted connection is not the last one: another accept is posted,   *)
(* unless no connection can be had, which clears running_.                 *)
AcceptGoesOn == acc.st = "ok" ~> (acc.st = "kernel" \/ running = 0)

(* Start() returns ("start the acceptor and ready to receive connection"). *)
StartReturns == th[Main].pc = "starting" ~> th[Main].pc = "idle"

------------------------------------------------------------------------------
(* The handler protocol, as the application sees it through phase.         *)
Protocol == INSTANCE HandlerProtocol

(* The callbacks of every connection come in the order of HandlerProtocol. *)
ImplementsHandlerProtocol == Protocol!Spec

(* A connection whose AcceptEx failed at once is given back twice, by      *)
(* Close and by Accept: from then on it comes after itself, and the free   *)
(* list has no end.                                                        *)
ListEnds == Listed # {} => \E c \in Listed : freeConnection.next[c] = NoConn
GivenBackTwice == ~ListEnds \/ \E t \in Threads : th[t].pc = "refused"

(* Whatever accepts, socket updates, posted requests and disconnects fail, *)
(* as long as no connection was given back twice none is reused with       *)
(* anything of its last use left, none goes deaf or receives twice, and    *)
(* the callbacks keep their order (easy_worker.cpp:64-137).                *)
PartialSound ==
  /\ [](~GivenBackTwice => FreeIsQuiescent /\ CloseAssertion /\ OneReceive)
  /\ [][~GivenBackTwice => Protocol!Next]_phase
==============================================================================
