---------------------------- MODULE IocpLifeProofs ----------------------------
(***************************************************************************)
(* Proofs about the life of a connection in IocpNetwork, for a patient     *)
(* application and any number of connections, workers and contexts.        *)
(***************************************************************************)
EXTENDS IocpNetworkProofs

TalkPcs == {"send", "post", "sendunref"}
ReceivePcs == {"firstrecv", "nextrecv"}

(* Each thread runs its own code only; outside of it it has no connection. *)
(* What receives is an input context, what sends is an output context; and *)
(* the acceptor has a connection when it has posted an accept.             *)
KindOK(t, r) ==
  /\ t = Main => r.pc \in {"idle", "starting"}
  /\ t = App => r.pc \in {"idle"} \cup TalkPcs
  /\ t \in Workers => r.pc \in {"idle"} \cup AcceptPcs \cup HandlingPcs
  /\ r.pc \in {"idle", "starting", "accepted"} => r.conn = NoConn
  /\ r.pc \in ReceivePcs => r.ctx \in InCtxs
  /\ r.pc \in {"send", "post"} => r.ctx \in OutCtxs

KindsInv ==
  /\ \A t \in Threads : KindOK(t, th[t])
  /\ acc.st = "off" => acc.conn = NoConn

(* What the application was told of a connection fits its flags and its    *)
(* socket, the requests on it, and what the threads do with it.            *)
ConnPhase(c) ==
  /\ connected[c] = 1 =>
       disc[c] = "off" /\ sock[c] = "connected" /\ phase[c] \in {"rejected", "open", "talking"}
  /\ disc[c] # "off" => phase[c] \in {"rejected", "open", "talking"}
  /\ disc[c] = "kernel" => sock[c] = "connected"
  /\ disc[c] = "ok" \/ phase[c] = "lost" => sock[c] = "idle"
  /\ sock[c] = "none" => phase[c] = "idle"

RequestPhase(x) == ov[x].st # "off" => phase[ov[x].conn] \in {"open", "talking"}

ThreadPhase(r) ==
  /\ r.pc = "update" => phase[r.conn] = "idle" /\ sock[r.conn] = "connected"
  /\ r.pc = "reject" => phase[r.conn] \in {"rejected", "open"} /\ connected[r.conn] = 1
  /\ r.pc = "firstrecv" => phase[r.conn] = "open" /\ connected[r.conn] = 1
  /\ r.pc \in HandlingPcs \cup {"firstunref"} => phase[r.conn] \in {"open", "talking"}
  /\ r.pc \in TalkPcs => phase[r.conn] \in {"talking", "lost"}

PhasesInv ==
  /\ \A c \in Conns : ConnPhase(c)
  /\ \A x \in Ctxs : RequestPhase(x)
  /\ \A t \in Threads : ThreadPhase(th[t])

(* Until its first receive is posted a connection is its worker's alone.   *)
Alone(t) ==
  th[t].pc \in {"update", "reject", "firstrecv"} =>
    /\ \A u \in Threads : th[u].conn = th[t].conn => u = t
    /\ \A x \in Ctxs : ov[x].st # "off" => ov[x].conn # th[t].conn

AloneInv == \A t \in Threads : Alone(t)

(* A connection has at most one context that receives, and one or a worker *)
(* about to disconnect it as long as it is connected.                      *)
Receives(x, c) ==
  \/ ov[x].st # "off" /\ ov[x].conn = c
  \/ \E t \in Threads : th[t].pc \in ReceivePcs /\ th[t].ctx = x /\ th[t].conn = c

Heard(c) ==
  \/ \E x \in InCtxs : Receives(x, c)
  \/ \E t \in Threads : th[t].pc = "reject" /\ th[t].conn = c

ReceiveInv ==
  \A c \in Conns :
    /\ \A x, y \in InCtxs : Receives(x, c) /\ Receives(y, c) => x = y
    /\ connected[c] = 1 => Heard(c)

(* Free connections are linked once, unused and not announced, and so is   *)
(* the one of the accept posted.                                           *)
Acyclic(l) == \A c \in From(l, l.head) : c \notin From(l, l.next[c])

FreeInv ==
  /\ Acyclic(freeConnection)
  /\ \A c \in Listed : sock[c] = "idle" /\ phase[c] = "idle" /\ c # acc.conn
  /\ acc.conn \in Conns =>
       /\ phase[acc.conn] = "idle"
       /\ sock[acc.conn] = IF acc.st = "ok" THEN "connected" ELSE "idle"
       /\ \A t \in Threads : th[t].conn # acc.conn

LifeInv == KindsInv /\ PhasesInv /\ AloneInv /\ ReceiveInv /\ FreeInv

Refusing == \E t \in Threads : th[t].pc = "refused"

------------------------------------------------------------------------------
(* The free list                                                           *)


LEMMA FromIsClosed ==
  ASSUME NEW l, NEW c
  PROVE  From(l, c) \subseteq Conns /\ Closed(l, From(l, c)) /\ (c \in Conns => c \in From(l, c))
  BY DEF From, Closed

LEMMA FromIsLeast ==
  ASSUME NEW l, NEW c, NEW S \in SUBSET Conns, Closed(l, S), c \in Conns => c \in S
  PROVE  From(l, c) \subseteq S
  BY DEF From

(* What is in the list from an entry on is the entry and what is from the  *)
(* next one on.                                                            *)
LEMMA FromNext ==
  ASSUME NEW l, NEW c \in Conns
  PROVE  From(l, c) = {c} \cup From(l, l.next[c])
<1> DEFINE S == {c} \cup From(l, l.next[c])
<1>1. From(l, c) \subseteq S
  <2>1. S \in SUBSET Conns /\ Closed(l, S)
    BY FromIsClosed DEF Closed
  <2> QED BY <2>1, FromIsLeast
<1>2. From(l, l.next[c]) \subseteq From(l, c)
  BY FromIsClosed, FromIsLeast DEF Closed
<1> QED
  BY <1>1, <1>2, FromIsClosed

(* Entries that are not in the list do not matter to it.                   *)
LEMMA FromSame ==
  ASSUME NEW l, NEW m, NEW c, \A d \in From(l, c) : m.next[d] = l.next[d]
  PROVE  From(m, c) = From(l, c)
<1>1. Closed(m, From(l, c))
  BY FromIsClosed DEF Closed
<1>2. From(m, c) \subseteq From(l, c)
  BY <1>1, FromIsClosed, FromIsLeast
<1>3. Closed(l, From(m, c))
  BY <1>2, FromIsClosed DEF Closed
<1> QED
  BY <1>2, <1>3, FromIsClosed, FromIsLeast

LEMMA PushedFree ==
  ASSUME NEW l \in FreeLists, NEW c \in Conns \ From(l, l.head), NEW m, m = SPush(l, c)
  PROVE  From(m, m.head) = From(l, l.head) \cup {c} /\ (Acyclic(l) => Acyclic(m))
<1>1. m.head = c /\ m.next[c] = l.head /\ \A d \in Conns \ {c} : m.next[d] = l.next[d]
  BY DEF SPush, FreeLists
<1>2. ASSUME NEW d, From(l, d) \subseteq From(l, l.head) PROVE From(m, d) = From(l, d)
  BY <1>1, <1>2, FromSame, FromIsClosed
<1>3. From(m, m.head) = {c} \cup From(l, l.head)
  BY <1>1, <1>2, FromNext
<1>4. ASSUME Acyclic(l), NEW d \in From(m, m.head) PROVE d \notin From(m, m.next[d])
  <2>1. CASE d = c
    BY <1>1, <1>2, <2>1
  <2>2. CASE d # c
    <3>1. d \in From(l, l.head) /\ m.next[d] = l.next[d] /\ d \notin From(l, l.next[d])
      BY <1>1, <1>3, <1>4, <2>2, FromIsClosed DEF Acyclic
    <3>2. From(l, l.next[d]) \subseteq From(l, l.head)
      BY <3>1, FromIsClosed, FromIsLeast DEF Closed
    <3> QED BY <1>2, <3>1, <3>2
  <2> QED BY <2>1, <2>2
<1> QED
  BY <1>3, <1>4 DEF Acyclic

LEMMA PoppedFree ==
  ASSUME NEW l \in FreeLists, l.head \in Conns, Acyclic(l), NEW m, m = SPop(l)
  PROVE  From(m, m.head) = From(l, l.head) \ {l.head} /\ Acyclic(m)
<1>1. m.head = l.next[l.head] /\ m.next = l.next
  BY DEF SPop, FreeLists
<1>2. \A d : From(m, d) = From(l, d)
  BY <1>1, FromSame
<1>3. From(l, l.head) = {l.head} \cup From(l, l.next[l.head])
  BY FromNext
<1>4. l.head \notin From(l, l.next[l.head])
  BY FromIsClosed DEF Acyclic
<1> QED
  BY <1>1, <1>2, <1>3, <1>4 DEF Acyclic

LEMMA ListKept ==
  ASSUME freeConnection' = freeConnection
  PROVE  Listed' = Listed /\ (Acyclic(freeConnection) => Acyclic(freeConnection)')
  BY DEF Listed

------------------------------------------------------------------------------
(* What the kinds of steps do to the life of a connection                  *)

SetupPcs == {"update", "reject", "firstrecv"}

(* The types that the steps below need.                                    *)
LEMMA LifeTypes ==
  ASSUME TypeOK
  PROVE  /\ th \in [Threads -> ThreadRecords] /\ ov \in [Ctxs -> RequestRecords]
         /\ acc \in RequestRecords /\ freeConnection \in FreeLists
         /\ connected \in [Conns -> {0, 1}]
         /\ sock \in [Conns -> {"none", "idle", "connected"}]
         /\ disc \in [Conns -> {"off", "kernel", "ok"}]
         /\ phase \in [Conns -> {"idle", "rejected", "open", "talking", "lost"}]
  BY DEF TypeOK, ThreadRecords, RequestRecords, FreeLists

(* A thread goes on without touching the connections.                      *)
LEMMA MoveLife ==
  ASSUME TypeOK, RecordsInv, LifeInv,
         NEW t \in Threads, NEW r \in ThreadRecords, th' = [th EXCEPT ![t] = r],
         UNCHANGED <<connVars, acc, freeConnection, ov>> \/ UNCHANGED <<connected, sock, disc, phase, acc, freeConnection, ov>>,
         KindOK(t, r), ThreadPhase(r), r.conn \in {NoConn, th[t].conn},
         th[t].pc \notin ReceivePcs \cup {"reject"}, r.pc \notin ReceivePcs \cup SetupPcs
  PROVE  LifeInv'
<1> USE LifeTypes DEF LifeInv
<1>a. UNCHANGED <<connected, sock, disc, phase, acc, freeConnection, ov>>
  BY DEF connVars
<1>b. th'[t] = r /\ \A u \in Threads \ {t} : th'[u] = th[u]
  OBVIOUS
<1>1. KindsInv'
  BY <1>a, <1>b DEF KindsInv, KindOK
<1>2. PhasesInv'
  BY <1>a, <1>b DEF PhasesInv, ConnPhase, RequestPhase, ThreadPhase
<1>3. AloneInv'
  BY <1>a, <1>b, SetsAssumption DEF AloneInv, Alone, SetupPcs, RecordsInv
<1>4. ReceiveInv'
  <2>1. \A x \in InCtxs, c \in Conns : Receives(x, c)' <=> Receives(x, c)
    BY <1>a, <1>b DEF Receives
  <2>2. \A c \in Conns : Heard(c)' <=> Heard(c)
    BY <1>a, <1>b, <2>1 DEF Heard, SetupPcs
  <2> QED BY <1>a, <2>1, <2>2 DEF ReceiveInv
<1>5. FreeInv'
  BY <1>a, <1>b, ListKept, SetsAssumption DEF FreeInv
<1> QED BY <1>1, <1>2, <1>3, <1>4, <1>5

(* A connection is disconnected, while thread t goes on and the request of *)
(* context x may end.                                                      *)
LEMMA DisconnectLife ==
  ASSUME TypeOK, RecordsInv, LifeInv, NEW c \in Conns, AsyncDisconnect(c),
         NEW t \in Threads, NEW r \in ThreadRecords, th' = [th EXCEPT ![t] = r],
         \/ ov' = ov
         \/ \E x \in Ctxs : ov[x].conn = c /\ ov' = [ov EXCEPT ![x] = Off],
         UNCHANGED <<sock, phase, acc, freeConnection>>,
         KindOK(t, r), ThreadPhase(r), phase[c] # "idle",
         th[t].conn \in {c, NoConn}, r.conn \in {c, NoConn}, r.pc \notin ReceivePcs \cup SetupPcs,
         \A u \in Threads \ {t} : th[u].conn = c => th[u].pc \notin SetupPcs
  PROVE  LifeInv'
<1> USE LifeTypes DEF LifeInv
<1>b. th'[t] = r /\ \A u \in Threads \ {t} : th'[u] = th[u]
  OBVIOUS
<1>c. /\ connected'[c] = 0
      /\ disc'[c] = disc[c] \/ (connected[c] = 1 /\ disc'[c] = "kernel")
      /\ \A d \in Conns \ {c} : connected'[d] = connected[d] /\ disc'[d] = disc[d]
  BY DEF AsyncDisconnect
<1>d. \A x \in Ctxs : ov'[x] = ov[x] \/ (ov'[x].st = "off" /\ ov[x].conn = c)
  BY DEF Off
<1>1. KindsInv'
  BY <1>b DEF KindsInv, KindOK
<1>2. PhasesInv'
  <2>1. \A d \in Conns : ConnPhase(d)'
    BY <1>c DEF PhasesInv, ConnPhase
  <2>2. \A x \in Ctxs : RequestPhase(x)'
    BY <1>d DEF PhasesInv, RequestPhase
  <2>3. \A u \in Threads \ {t} : ThreadPhase(th[u])'
    BY <1>b, <1>c DEF PhasesInv, ThreadPhase, SetupPcs, RecordsInv
  <2>4. ThreadPhase(r)'
    BY <1>b, <1>c DEF ThreadPhase, SetupPcs, ReceivePcs
  <2> QED BY <1>b, <2>1, <2>2, <2>3, <2>4 DEF PhasesInv, ThreadPhase
<1>3. AloneInv'
  BY <1>b, <1>d, SetsAssumption DEF AloneInv, Alone, SetupPcs, RecordsInv
<1>4. ReceiveInv'
  <2>1. \A x \in InCtxs, d \in Conns : Receives(x, d)' => Receives(x, d)
    BY <1>b, <1>d DEF Receives, Ctxs
  <2>2. \A d \in Conns \ {c} : Heard(d) => Heard(d)'
    BY <1>b, <1>d, SetsAssumption DEF Heard, Receives, Ctxs
  <2> QED BY <1>c, <2>1, <2>2 DEF ReceiveInv
<1>5. FreeInv'
  BY <1>b, ListKept, SetsAssumption DEF FreeInv
<1> QED BY <1>1, <1>2, <1>3, <1>4, <1>5

(* Thread t posts a request with the context it holds.                     *)
LEMMA PostLife ==
  ASSUME TypeOK, RecordsInv, PlacesInv, LifeInv,
         NEW t \in Threads, th[t].pc \in ReceivePcs \cup {"post"}, NEW r \in ThreadRecords,
         Post(t, th[t].conn, th[t].ctx, r), UNCHANGED <<sock, phase, accVars, made>>,
         KindOK(t, r), r.pc \in {"idle", "accepted", "handled"}, r.conn \in {th[t].conn, NoConn},
         r.pc = "handled" => th[t].pc = "nextrecv" /\ r.conn = th[t].conn
  PROVE  LifeInv'
<1> DEFINE c == th[t].conn  x == th[t].ctx
<1> USE LifeTypes DEF LifeInv
<1>a. /\ c \in Conns /\ x \in Ctxs /\ ov[x].st = "off" /\ sock[c] = "connected"
      /\ UNCHANGED <<connected, sock, disc, phase, acc, freeConnection>>
  BY DEF Post, RecordsInv, PlacesInv, ReceivePcs, HandlingPcs, ThreadRecords, accVars
<1>b. th'[t] = r /\ \A u \in Threads \ {t} : th'[u] = th[u]
  BY DEF Post
<1>c. ov'[x].st = "kernel" /\ ov'[x].conn = c /\ \A y \in Ctxs \ {x} : ov'[y] = ov[y]
  BY <1>a DEF Post, InKernel
<1>d. phase[c] \in {"open", "talking"}
  BY <1>a DEF PhasesInv, ConnPhase, ThreadPhase, ReceivePcs, HandlingPcs, TalkPcs
<1>e. \A u \in Threads \ {t} : th[u].conn = c => th[u].pc \notin SetupPcs
  BY DEF AloneInv, Alone, SetupPcs
<1> HIDE DEF c, x
<1>1. KindsInv'
  BY <1>a, <1>b DEF KindsInv, KindOK
<1>2. PhasesInv'
  <2>1. \A d \in Conns : ConnPhase(d)'
    BY <1>a DEF PhasesInv, ConnPhase
  <2>2. \A y \in Ctxs : RequestPhase(y)'
    BY <1>a, <1>c, <1>d DEF PhasesInv, RequestPhase
  <2>3. ThreadPhase(r)'
    BY <1>a, <1>b, <1>d DEF ThreadPhase, HandlingPcs, TalkPcs, c
  <2> QED BY <1>a, <1>b, <2>1, <2>2, <2>3 DEF PhasesInv, ThreadPhase
<1>3. AloneInv'
  BY <1>a, <1>b, <1>c, <1>e, SetsAssumption DEF AloneInv, Alone, SetupPcs, RecordsInv, c
<1>4. ReceiveInv'
  <2>1. \A y \in InCtxs, d \in Conns : Receives(y, d)' <=> Receives(y, d)
    <3>1. CASE th[t].pc = "post"
      BY <1>a, <1>b, <1>c, <3>1, SetsAssumption DEF Receives, ReceivePcs, KindsInv, KindOK, Ctxs,
         x
    <3>2. CASE th[t].pc \in ReceivePcs
      BY <1>a, <1>b, <1>c, <3>2 DEF Receives, ReceivePcs, Ctxs, c, x
    <3> QED BY <3>1, <3>2
  <2>2. \A d \in Conns : Heard(d)' <=> Heard(d)
    BY <1>a, <1>b, <2>1 DEF Heard, ReceivePcs
  <2> QED BY <1>a, <2>1, <2>2 DEF ReceiveInv
<1>5. FreeInv'
  BY <1>a, <1>b, ListKept, SetsAssumption DEF FreeInv, c
<1> QED BY <1>1, <1>2, <1>3, <1>4, <1>5

(* A request that is refused disconnects the connection.                   *)
LEMMA PostFailsLife ==
  ASSUME TypeOK, RecordsInv, LifeInv,
         NEW t \in Threads, th[t].pc \in ReceivePcs \cup {"post"}, NEW pc,
         PostFails(t, th[t].conn, th[t].ctx, pc), UNCHANGED <<sock, phase, accVars, made>>,
         \/ pc = "firstunref" /\ th[t].pc = "firstrecv"
         \/ pc = "nextunref" /\ th[t].pc = "nextrecv"
         \/ pc = "sendunref" /\ th[t].pc = "post"
  PROVE  LifeInv'
<1> DEFINE c == th[t].conn  r == At(pc, c, NoCtx)
<1> USE LifeTypes DEF LifeInv
<1>1. /\ c \in Conns /\ AsyncDisconnect(c) /\ th' = [th EXCEPT ![t] = r] /\ ov' = ov
      /\ UNCHANGED <<sock, phase, acc, freeConnection>>
  BY DEF PostFails, RecordsInv, ReceivePcs, HandlingPcs, accVars, Goto
<1>2. r \in ThreadRecords
  BY <1>1, ActionRecords DEF Pcs, MaybeConn
<1>3. KindOK(t, r)
  BY SetsAssumption DEF KindOK, KindsInv, ReceivePcs, HandlingPcs, AcceptPcs, TalkPcs, At
<1>4. ThreadPhase(r) /\ phase[c] # "idle" /\ r.conn = c /\ r.pc \notin ReceivePcs \cup SetupPcs
  BY DEF PhasesInv, ThreadPhase, HandlingPcs, TalkPcs, At, ReceivePcs, SetupPcs
<1>5. \A u \in Threads \ {t} : th[u].conn = c => th[u].pc \notin SetupPcs
  BY DEF AloneInv, Alone, SetupPcs
<1> HIDE DEF r, c
<1> QED BY <1>1, <1>2, <1>3, <1>4, <1>5, DisconnectLife DEF c

(* A worker takes a request that has received or sent.                     *)
LEMMA TakeLife ==
  ASSUME TypeOK, RecordsInv, LifeInv,
         NEW w \in Workers, th[w].pc = "idle",
         NEW x \in Ctxs, ov[x].st # "off", ov' = [ov EXCEPT ![x] = Off],
         NEW r \in ThreadRecords, th' = [th EXCEPT ![w] = r], r.conn = ov[x].conn,
         \/ x \in InCtxs /\ r.pc = "nextrecv" /\ r.ctx = x
         \/ x \in OutCtxs /\ r.pc = "handled",
         phase' = phase \/ phase' = [phase EXCEPT ![ov[x].conn] = "talking"],
         UNCHANGED <<connected, sock, disc, acc, freeConnection>>
  PROVE  LifeInv'
<1> DEFINE c == ov[x].conn
<1> USE LifeTypes DEF LifeInv
<1>a. c \in Conns /\ phase[c] \in {"open", "talking"}
  BY DEF RecordsInv, PhasesInv, RequestPhase
<1>b. w \in Threads /\ th'[w] = r /\ \A u \in Threads \ {w} : th'[u] = th[u]
  BY DEF Threads
<1>c. ov'[x].st = "off" /\ \A y \in Ctxs \ {x} : ov'[y] = ov[y]
  BY DEF Off
<1>d. phase'[c] \in {"open", "talking"} /\ \A d \in Conns \ {c} : phase'[d] = phase[d]
  BY <1>a
<1>e. phase'[c] = phase[c] \/ phase'[c] = "talking"
  BY <1>a
<1>f. \A u \in Threads : th[u].conn = c => th[u].pc \notin SetupPcs
  BY DEF AloneInv, Alone, SetupPcs
<1> HIDE DEF c
<1>1. KindsInv'
  BY <1>b, SetsAssumption DEF KindsInv, KindOK, ReceivePcs, HandlingPcs
<1>2. PhasesInv'
  <2>1. \A d \in Conns : ConnPhase(d)'
    BY <1>a, <1>d, <1>e DEF PhasesInv, ConnPhase
  <2>2. \A y \in Ctxs : RequestPhase(y)'
    BY <1>c, <1>d DEF PhasesInv, RequestPhase, RecordsInv
  <2>3. ThreadPhase(r)'
    BY <1>b, <1>d DEF ThreadPhase, HandlingPcs, TalkPcs, c
  <2>4. \A u \in Threads \ {w} : ThreadPhase(th[u])'
    BY <1>b, <1>d, <1>e, <1>f DEF PhasesInv, ThreadPhase, RecordsInv, SetupPcs, HandlingPcs,
                                  UnrefPcs, TalkPcs
  <2> QED BY <1>b, <2>1, <2>2, <2>3, <2>4 DEF PhasesInv, ThreadPhase
<1>3. AloneInv'
  BY <1>a, <1>b, <1>c, <1>f, SetsAssumption DEF AloneInv, Alone, SetupPcs, RecordsInv, c
<1>4. ReceiveInv'
  <2>1. \A y \in InCtxs, d \in Conns : Receives(y, d)' <=> Receives(y, d)
    BY <1>b, <1>c, SetsAssumption DEF Receives, ReceivePcs, Ctxs, c
  <2>2. \A d \in Conns : Heard(d)' <=> Heard(d)
    BY <1>b, <2>1 DEF Heard, ReceivePcs
  <2> QED BY <2>1, <2>2 DEF ReceiveInv
<1>5. FreeInv'
  <2>1. c \notin Listed /\ c # acc.conn
    BY <1>a DEF FreeInv
  <2> QED
    BY <1>b, <1>d, <2>1, ListKept, SetsAssumption, FromIsClosed DEF FreeInv, Listed, c
<1> QED BY <1>1, <1>2, <1>3, <1>4, <1>5


(* The connection of an arrived accept is announced to the application.    *)
LEMMA UpdateLife ==
  ASSUME TypeOK, RecordsInv, LifeInv, NEW w \in Workers, UpdateAccept(w)
  PROVE  LifeInv'
<1> USE LifeTypes DEF LifeInv
<1>0. w \in Threads /\ th[w].pc = "update" /\ th[w].conn \in Conns
  BY DEF UpdateAccept, RecordsInv, Threads
<1> PICK c \in Conns : c = th[w].conn
  BY <1>0
<1>a. /\ w \in Threads /\ th[w].pc = "update" /\ c = th[w].conn
      /\ connected' = [connected EXCEPT ![c] = 1] /\ ov' = ov
      /\ UNCHANGED <<sock, disc, acc, freeConnection>>
  BY <1>0 DEF UpdateAccept, accVars
<1>b. PICK r \in ThreadRecords, answer \in {"open", "rejected"} :
        /\ th' = [th EXCEPT ![w] = r] /\ r.conn = c
        /\ phase' = [phase EXCEPT ![c] = answer]
        /\ \/ r.pc = "firstrecv" /\ r.ctx \in InCtxs /\ answer = "open"
           \/ r.pc = "reject"
  <2>1. \A x \in InCtxs : At("firstrecv", c, x) \in ThreadRecords
    BY <1>a, ActionRecords DEF Pcs, MaybeConn, Ctxs
  <2>2. At("reject", c, NoCtx) \in ThreadRecords
    BY <1>a, ActionRecords DEF Pcs, MaybeConn
  <2> QED BY <2>1, <2>2 DEF UpdateAccept, Goto, At, Poppable
<1>c. th'[w] = r /\ \A u \in Threads \ {w} : th'[u] = th[u]
  BY <1>a, <1>b
<1>d. phase[c] = "idle" /\ sock[c] = "connected" /\ disc[c] = "off"
  BY <1>a DEF PhasesInv, ThreadPhase, ConnPhase
<1>e. /\ \A u \in Threads \ {w} : th[u].conn # c
      /\ \A x \in Ctxs : ov[x].st # "off" => ov[x].conn # c
  BY <1>a DEF AloneInv, Alone
<1>f. /\ connected'[c] = 1 /\ phase'[c] \in {"open", "rejected"}
      /\ r.pc = "firstrecv" => phase'[c] = "open"
      /\ \A d \in Conns \ {c} : connected'[d] = connected[d] /\ phase'[d] = phase[d]
  BY <1>a, <1>b
<1>1. KindsInv'
  BY <1>a, <1>b, <1>c, SetsAssumption DEF KindsInv, KindOK, AcceptPcs, ReceivePcs
<1>2. PhasesInv'
  <2>1. \A d \in Conns : ConnPhase(d)'
    BY <1>a, <1>d, <1>f DEF PhasesInv, ConnPhase
  <2>2. \A x \in Ctxs : RequestPhase(x)'
    BY <1>a, <1>e, <1>f DEF PhasesInv, RequestPhase, RecordsInv
  <2>3. ThreadPhase(r)'
    BY <1>a, <1>b, <1>f DEF ThreadPhase, HandlingPcs, TalkPcs
  <2>4. \A u \in Threads \ {w} : ThreadPhase(th[u])'
    <3> TAKE u \in Threads \ {w}
    <3>1. CASE th[u].conn \in Conns
      BY <1>a, <1>c, <1>e, <1>f, <3>1 DEF PhasesInv, ThreadPhase
    <3>2. CASE th[u].conn \notin Conns
      BY <1>c, <3>2 DEF ThreadPhase, RecordsInv, HandlingPcs, UnrefPcs, TalkPcs
    <3> QED BY <3>1, <3>2
  <2> QED BY <1>c, <2>1, <2>2, <2>3, <2>4 DEF PhasesInv, ThreadPhase
<1>3. AloneInv'
  BY <1>a, <1>b, <1>c, <1>e DEF AloneInv, Alone
<1>4. ReceiveInv'
  <2>1. \A x \in InCtxs, d \in Conns \ {c} : Receives(x, d)' <=> Receives(x, d)
    BY <1>a, <1>b, <1>c DEF Receives, ReceivePcs
  <2>2. \A d \in Conns \ {c} : Heard(d)' <=> Heard(d)
    BY <1>a, <1>b, <1>c, <2>1 DEF Heard
  <2>3. \A x \in InCtxs : Receives(x, c)' => r.pc = "firstrecv" /\ r.ctx = x
    BY <1>a, <1>b, <1>c, <1>e DEF Receives, ReceivePcs, Ctxs
  <2>4. Heard(c)'
    <3>1. CASE r.pc = "reject"
      BY <1>a, <1>b, <1>c, <3>1 DEF Heard
    <3>2. CASE r.pc = "firstrecv"
      <4>1. r.ctx \in InCtxs /\ Receives(r.ctx, c)'
        BY <1>a, <1>b, <1>c, <3>2 DEF Receives, ReceivePcs
      <4> QED BY <4>1 DEF Heard
    <3> QED BY <1>b, <3>1, <3>2
  <2>5. \A x, y \in InCtxs : Receives(x, c)' /\ Receives(y, c)' => x = y
    BY <2>3
  <2>6. \A d \in Conns \ {c} : connected'[d] = connected[d]
    BY <1>f
  <2> HIDE DEF LifeInv
  <2>7. ReceiveInv
    BY DEF LifeInv
  <2> QED BY <2>1, <2>2, <2>4, <2>5, <2>6, <2>7 DEF ReceiveInv
<1>5. FreeInv'
  <2>1. c \notin Listed /\ c # acc.conn
    BY <1>a, <1>d DEF FreeInv
  <2>2. \A u \in Threads : th'[u].conn = th[u].conn
    BY <1>a, <1>b, <1>c
  <2> QED
    BY <1>a, <1>f, <2>1, <2>2, ListKept, FromIsClosed DEF FreeInv, Listed
<1> QED BY <1>1, <1>2, <1>3, <1>4, <1>5

(* The counter says that nothing of the connection is in flight.           *)
LEMMA NoReference ==
  ASSUME TypeOK, IoRefsExact, NEW c \in Conns
  PROVE  iorefs[c] = 0 <=> /\ \A x \in Ctxs : ov[x].st # "off" => ov[x].conn # c
                           /\ \A t \in Threads : th[t].pc \in HandlingPcs \cup UnrefPcs => th[t].conn # c
<1> DEFINE S == InFlight(c)  T == ThreadsAt(HandlingPcs, c)  U == ThreadsAt(UnrefPcs, c)
<1>1. IsFiniteSet(S) /\ IsFiniteSet(T) /\ IsFiniteSet(U)
  BY FiniteSets, FS_Subset DEF InFlight, ThreadsAt
<1>2. iorefs[c] = Cardinality(S) + Cardinality(T) + Cardinality(U)
  BY DEF IoRefsExact
<1>3. (S = {} /\ T = {} /\ U = {}) <=> /\ \A x \in Ctxs : ov[x].st # "off" => ov[x].conn # c
                           /\ \A t \in Threads : th[t].pc \in HandlingPcs \cup UnrefPcs => th[t].conn # c
  BY DEF InFlight, ThreadsAt
<1> HIDE DEF S, T, U
<1>4. /\ Cardinality(S) \in Nat /\ Cardinality(T) \in Nat /\ Cardinality(U) \in Nat
      /\ (Cardinality(S) = 0 <=> S = {}) /\ (Cardinality(T) = 0 <=> T = {}) /\ (Cardinality(U) = 0 <=> U = {})
  BY <1>1, FS_CardinalityType, FS_EmptySet
<1> QED BY <1>2, <1>3, <1>4

(* OnDisconnect.                                                           *)
LEMMA LostLife ==
  ASSUME TypeOK, RecordsInv, IoRefsExact, LifeInv,
         NEW w \in Workers, NEW c \in Conns, DequeueDisconnect(w, c)
  PROVE  LifeInv'
<1> USE LifeTypes DEF LifeInv
<1>a. /\ disc[c] = "ok" /\ UNCHANGED <<connected, sock, acc, freeConnection, ov, th>>
      /\ phase'[c] = "lost" /\ disc'[c] = "off"
      /\ \A d \in Conns \ {c} : phase'[d] = phase[d] /\ disc'[d] = disc[d]
  BY DEF DequeueDisconnect, accVars, ctxVars
<1>b. /\ \A x \in Ctxs : ov[x].st # "off" => ov[x].conn # c
      /\ \A t \in Threads : th[t].pc \in HandlingPcs \cup UnrefPcs => th[t].conn # c
  BY NoReference DEF DequeueDisconnect
<1>c. phase[c] # "idle" /\ connected[c] # 1 /\ sock[c] = "idle"
  BY <1>a DEF PhasesInv, ConnPhase
<1>1. KindsInv'
  BY <1>a DEF KindsInv, KindOK
<1>2. PhasesInv'
  <2>1. \A d \in Conns : ConnPhase(d)'
    BY <1>a, <1>c DEF PhasesInv, ConnPhase
  <2>2. \A x \in Ctxs : RequestPhase(x)'
    BY <1>a, <1>b DEF PhasesInv, RequestPhase, RecordsInv
  <2>3. ASSUME NEW t \in Threads PROVE ThreadPhase(th[t])'
    <3>1. th[t].conn = c => th[t].pc \notin SetupPcs \cup HandlingPcs \cup UnrefPcs
      BY <1>b, <1>c DEF PhasesInv, ThreadPhase, SetupPcs
    <3> QED BY <1>a, <3>1 DEF PhasesInv, ThreadPhase, SetupPcs, UnrefPcs, TalkPcs, HandlingPcs, RecordsInv
  <2> QED BY <2>1, <2>2, <2>3 DEF PhasesInv
<1>3. AloneInv'
  BY <1>a DEF AloneInv, Alone
<1>4. ReceiveInv'
  BY <1>a DEF ReceiveInv, Receives, Heard
<1>5. FreeInv'
  BY <1>a, <1>c, ListKept, FromIsClosed DEF FreeInv, Listed
<1> QED BY <1>1, <1>2, <1>3, <1>4, <1>5

(* The application takes a context for a connection it has heard of.       *)
LEMMA SendLife ==
  ASSUME TypeOK, RecordsInv, LifeInv, ~Eager, NEW c \in Conns, AppSend(c)
  PROVE  LifeInv'
<1> USE LifeTypes DEF LifeInv
<1>a. App \in Threads /\ th[App].pc = "idle" /\ UNCHANGED <<connected, sock, disc, phase, acc, freeConnection, ov>>
  BY DEF AppSend, connVars, accVars, Threads
<1>b. PICK x \in OutCtxs : th' = [th EXCEPT ![App] = At("send", c, x)]
  BY DEF AppSend, Poppable, Goto
<1>c. /\ th'[App].pc = "send" /\ th'[App].conn = c /\ th'[App].ctx = x
      /\ \A u \in Threads \ {App} : th'[u] = th[u]
  BY <1>a, <1>b DEF At
<1>d. phase[c] \in {"talking", "lost"}
  BY DEF AppSend, Usable
<1>e. \A u \in Threads : th[u].conn = c => th[u].pc \notin SetupPcs
  BY <1>d DEF PhasesInv, ThreadPhase, ConnPhase, SetupPcs
<1>1. KindsInv'
  BY <1>a, <1>b, <1>c, SetsAssumption DEF KindsInv, KindOK, TalkPcs, ReceivePcs
<1>2. PhasesInv'
  BY <1>a, <1>c, <1>d DEF PhasesInv, ConnPhase, RequestPhase, ThreadPhase, HandlingPcs
<1>3. AloneInv'
  BY <1>a, <1>c, <1>e DEF AloneInv, Alone, SetupPcs
<1>4. ReceiveInv'
  <2>1. \A y \in InCtxs, d \in Conns : Receives(y, d)' <=> Receives(y, d)
    BY <1>a, <1>c DEF Receives, ReceivePcs
  <2>2. \A d \in Conns : Heard(d)' <=> Heard(d)
    BY <1>a, <1>c, <2>1 DEF Heard
  <2> QED BY <1>a, <2>1, <2>2 DEF ReceiveInv
<1>5. FreeInv'
  BY <1>a, <1>c, <1>d, ListKept DEF FreeInv
<1> QED BY <1>1, <1>2, <1>3, <1>4, <1>5


(* The application closes a lost connection, which goes to the free list.  *)
LEMMA CloseLife ==
  ASSUME TypeOK, RecordsInv, LifeInv, NEW c \in Conns, AppClose(c)
  PROVE  LifeInv'
<1> USE LifeTypes DEF LifeInv
<1>a. /\ phase[c] = "lost" /\ phase'[c] = "idle" /\ \A d \in Conns \ {c} : phase'[d] = phase[d]
      /\ App \in Threads /\ th[App].pc = "idle"
      /\ UNCHANGED <<connected, sock, disc, acc, ov, th>>
  BY DEF AppClose, ctxVars, Threads
<1>b. disc[c] = "off" /\ connected[c] # 1 /\ sock[c] = "idle"
  BY <1>a DEF PhasesInv, ConnPhase
<1>1. KindsInv'
  BY <1>a DEF KindsInv, KindOK
<1>2. PhasesInv'
  <2>1. \A d \in Conns : ConnPhase(d)'
    BY <1>a, <1>b DEF PhasesInv, ConnPhase
  <2>2. \A x \in Ctxs : RequestPhase(x)'
    BY <1>a DEF PhasesInv, RequestPhase, RecordsInv
  <2>3. ASSUME NEW t \in Threads PROVE ThreadPhase(th[t])'
    <3>1. th[t].conn = c => th[t].pc \notin SetupPcs \cup HandlingPcs \cup UnrefPcs \cup TalkPcs
      BY <1>a DEF PhasesInv, ThreadPhase, SetupPcs, UnrefPcs, HandlingPcs, TalkPcs, KindsInv,
                  KindOK,
                  AcceptPcs, Threads
    <3> QED BY <1>a, <3>1 DEF PhasesInv, ThreadPhase, SetupPcs, UnrefPcs, TalkPcs, HandlingPcs, RecordsInv
  <2> QED BY <2>1, <2>2, <2>3 DEF PhasesInv
<1>3. AloneInv'
  BY <1>a DEF AloneInv, Alone
<1>4. ReceiveInv'
  BY <1>a DEF ReceiveInv, Receives, Heard
<1>5. FreeInv'
  <2>1. c \notin Listed /\ c # acc.conn
    BY <1>a DEF FreeInv
  <2>2. Listed' \subseteq Listed \cup {c} /\ Acyclic(freeConnection)'
    <3>1. CASE freeConnection' = freeConnection
      BY <3>1, ListKept DEF FreeInv
    <3>2. CASE freeConnection' = SPush(freeConnection, c)
      BY <2>1, <3>2, PushedFree DEF FreeInv, Listed
    <3> QED BY <3>1, <3>2 DEF AppClose
  <2> QED
    BY <1>a, <1>b, <2>1, <2>2, FromIsClosed DEF FreeInv, Listed
<1> QED BY <1>1, <1>2, <1>3, <1>4, <1>5

(* A connection that is idle for the application has no request, and at    *)
(* most the worker that is about to announce it.                           *)
LEMMA IdleIsUnused ==
  ASSUME RecordsInv, LifeInv, ~Refusing, NEW c \in Conns, phase[c] = "idle"
  PROVE  /\ connected[c] # 1 /\ disc[c] = "off"
         /\ \A x \in Ctxs : ov[x].st # "off" => ov[x].conn # c
         /\ \A t \in Threads : th[t].conn = c => th[t].pc = "update" /\ sock[c] = "connected"
<1>1. connected[c] # 1 /\ disc[c] = "off" /\ \A x \in Ctxs : ov[x].st # "off" => ov[x].conn # c
  BY DEF LifeInv, PhasesInv, ConnPhase, RequestPhase
<1>2. ASSUME NEW t \in Threads, th[t].conn = c PROVE th[t].pc = "update" /\ sock[c] = "connected"
  BY <1>2, SetsAssumption DEF LifeInv, PhasesInv, ThreadPhase, KindsInv, KindOK, HandlingPcs,
                              AcceptPcs, TalkPcs,
       Threads
<1> QED BY <1>1, <1>2

(* Accept() takes a connection from the free list, or a new one, or none.  *)
LEMMA AcceptTakes ==
  ASSUME TypeOK, LifeInv, NEW t \in Threads, NEW r, AcceptPosted(t, r) \/ AcceptWithout(t, r)
  PROVE  \E c \in MaybeConn :
           \/ c = NoConn /\ acc' = Off /\ UNCHANGED <<sock, freeConnection>>
           \/ /\ c \in Conns /\ acc' = InKernel(c) /\ sock'[c] = "idle"
              /\ \A d \in Conns \ {c} : sock'[d] = sock[d]
              /\ phase[c] = "idle" /\ c # acc.conn /\ sock[c] # "connected"
              /\ Listed' = Listed \ {c} /\ Acyclic(freeConnection)'
<1> USE LifeTypes DEF LifeInv
<1>1. CASE AcceptWithout(t, r)
  BY <1>1 DEF AcceptWithout, MaybeConn
<1>2. CASE AcceptPosted(t, r)
  <2>1. PICK c \in Conns : c \in Candidates /\ TakeConnection(c, Remaining) /\ acc' = InKernel(c)
    BY <1>2, CandidatesAndRemaining DEF AcceptPosted
  <2>2. CASE Reusing
    <3>1. /\ c = freeConnection.head /\ c \in Listed /\ sock' = sock
          /\ freeConnection' = SPop(freeConnection)
      BY <2>1, <2>2, FromIsClosed DEF Candidates, TakeConnection, Remaining, Listed
    <3>2. sock[c] = "idle" /\ phase[c] = "idle" /\ c # acc.conn
      BY <3>1 DEF FreeInv
    <3>3. Listed' = Listed \ {c} /\ Acyclic(freeConnection)'
      BY <3>1, PoppedFree DEF FreeInv, Listed
    <3> QED BY <2>1, <3>1, <3>2, <3>3 DEF MaybeConn
  <2>3. CASE ~Reusing
    <3>1. /\ sock[c] = "none" /\ sock' = [sock EXCEPT ![c] = "idle"]
          /\ freeConnection' = freeConnection
      BY <2>1, <2>3 DEF Candidates, TakeConnection, Remaining, Fresh
    <3>2. phase[c] = "idle" /\ c # acc.conn /\ c \notin Listed
      BY <3>1 DEF FreeInv, PhasesInv, ConnPhase
    <3>3. Listed' = Listed \ {c} /\ Acyclic(freeConnection)'
      BY <3>1, <3>2, ListKept DEF FreeInv
    <3> QED BY <2>1, <3>1, <3>2, <3>3 DEF MaybeConn
  <2> QED BY <2>2, <2>3
<1> QED BY <1>1, <1>2

(* A new accept is posted, or none can be had; a worker that has one goes  *)
(* on with it.                                                             *)
LEMMA AcceptLife ==
  ASSUME TypeOK, RecordsInv, LifeInv, ~Refusing,
         NEW t \in Threads, NEW r \in ThreadRecords,
         AcceptPosted(t, r) \/ AcceptWithout(t, r), UNCHANGED <<connected, disc, phase, ov>>,
         \/ t = Main /\ r.pc = "idle" /\ r.conn = NoConn /\ th[t].pc = "starting"
         \/ t \in Workers /\ r.pc = "update" /\ r.conn = acc.conn /\ acc.st = "ok" /\ th[t].pc = "idle"
  PROVE  LifeInv'
<1> USE LifeTypes DEF LifeInv
<1>a. th'[t] = r /\ \A u \in Threads \ {t} : th'[u] = th[u]
  BY DEF AcceptPosted, AcceptWithout
<1>b. PICK c \in MaybeConn :
        \/ c = NoConn /\ acc' = Off /\ UNCHANGED <<sock, freeConnection>>
        \/ /\ c \in Conns /\ acc' = InKernel(c) /\ sock'[c] = "idle"
           /\ \A d \in Conns \ {c} : sock'[d] = sock[d]
           /\ phase[c] = "idle" /\ c # acc.conn /\ sock[c] # "connected"
           /\ Listed' = Listed \ {c} /\ Acyclic(freeConnection)'
  BY AcceptTakes
<1>c. acc.conn \in Conns => /\ \A u \in Threads : th[u].conn # acc.conn
                           /\ \A x \in Ctxs : ov[x].st # "off" => ov[x].conn # acc.conn
  BY IdleIsUnused DEF FreeInv
<1>d. c \in Conns => \A u \in Threads : th[u].conn # c /\ th'[u].conn # c
  BY <1>a, <1>b, IdleIsUnused, SetsAssumption
<1>e. r.conn = acc.conn /\ acc.st = "ok" => acc.conn \in Conns
  BY DEF RecordsInv
<1>1. KindsInv'
  BY <1>a, <1>b, SetsAssumption DEF KindsInv, KindOK, AcceptPcs, ReceivePcs, Off, InKernel
<1>2. PhasesInv'
  <2>1. \A d \in Conns : ConnPhase(d)'
    BY <1>b, SetsAssumption DEF PhasesInv, ConnPhase
  <2>2. \A x \in Ctxs : RequestPhase(x)'
    BY DEF PhasesInv, RequestPhase
  <2>3. ThreadPhase(r)'
    BY <1>b, <1>e, SetsAssumption DEF ThreadPhase, FreeInv, HandlingPcs, TalkPcs
  <2>4. \A u \in Threads \ {t} : ThreadPhase(th[u])'
    <3> TAKE u \in Threads \ {t}
    <3>1. CASE th[u].pc = "update"
      BY <1>a, <1>b, <1>d, <3>1 DEF PhasesInv, ThreadPhase, RecordsInv, HandlingPcs, TalkPcs
    <3>2. CASE th[u].pc # "update"
      BY <1>a, <3>2 DEF PhasesInv, ThreadPhase
    <3> QED BY <3>1, <3>2
  <2> QED BY <1>a, <2>1, <2>2, <2>3, <2>4 DEF PhasesInv, ThreadPhase
<1>3. AloneInv'
  BY <1>a, <1>c, <1>e, SetsAssumption DEF AloneInv, Alone, RecordsInv
<1>4. ReceiveInv'
  <2>1. \A x \in InCtxs, d \in Conns : Receives(x, d)' <=> Receives(x, d)
    BY <1>a DEF Receives, ReceivePcs
  <2>2. \A d \in Conns : Heard(d)' <=> Heard(d)
    BY <1>a, <2>1 DEF Heard
  <2> QED BY <2>1, <2>2 DEF ReceiveInv
<1>5. FreeInv'
  <2>1. CASE c = NoConn
    BY <1>b, <2>1, ListKept, SetsAssumption, FromIsClosed DEF FreeInv, Off, Listed
  <2>2. CASE c \in Conns
    BY <1>b, <1>d, <2>2, SetsAssumption, FromIsClosed DEF FreeInv, InKernel, Listed
  <2> QED BY <2>1, <2>2 DEF MaybeConn
<1> QED BY <1>1, <1>2, <1>3, <1>4, <1>5


(* The kernel completes an accept, a request or a disconnect.              *)
LEMMA KernelLife ==
  ASSUME TypeOK, RecordsInv, LifeInv, KernelNext
  PROVE  LifeInv'
<1> USE LifeTypes DEF LifeInv
<1>1. CASE ConnectionArrives
  <2>1. PICK c \in Conns : c = acc.conn
    BY <1>1 DEF ConnectionArrives, RecordsInv
  <2>2. /\ acc'.st = "ok" /\ acc'.conn = c /\ sock'[c] = "connected"
        /\ \A d \in Conns \ {c} : sock'[d] = sock[d]
        /\ UNCHANGED <<connected, disc, phase, freeConnection, ov, th>>
    BY <1>1, <2>1 DEF ConnectionArrives, ctxVars, RequestRecords
  <2>3. phase[c] = "idle" /\ c \notin Listed /\ \A t \in Threads : th[t].conn # c
    BY <2>1 DEF FreeInv
  <2>4. KindsInv'
    BY <2>2 DEF KindsInv, KindOK
  <2>5. PhasesInv'
    BY <2>2, <2>3 DEF PhasesInv, ConnPhase, RequestPhase, ThreadPhase, RecordsInv
  <2>6. AloneInv' /\ ReceiveInv'
    BY <2>2 DEF AloneInv, Alone, ReceiveInv, Receives, Heard
  <2>7. FreeInv'
    BY <2>1, <2>2, <2>3, ListKept, FromIsClosed DEF FreeInv, Listed
  <2> QED BY <2>4, <2>5, <2>6, <2>7
<1>2. CASE AcceptExFails
  <2>1. /\ acc.st = "kernel" /\ acc'.st = "bad" /\ acc'.conn = acc.conn
        /\ UNCHANGED <<connected, sock, disc, phase, freeConnection, ov, th>>
    BY <1>2 DEF AcceptExFails, connVars, ctxVars, RequestRecords
  <2>2. KindsInv'
    BY <2>1 DEF KindsInv, KindOK
  <2>3. PhasesInv' /\ AloneInv' /\ ReceiveInv'
    BY <2>1 DEF PhasesInv, ConnPhase, RequestPhase, ThreadPhase, AloneInv, Alone, ReceiveInv,
                Receives, Heard
  <2>4. FreeInv'
    BY <2>1, ListKept DEF FreeInv
  <2> QED BY <2>2, <2>3, <2>4
<1>3. ASSUME NEW x \in Ctxs, RequestSucceeds(x) \/ RequestFails(x) PROVE LifeInv'
  <2>1. /\ ov[x].st # "off" /\ ov'[x].st # "off" /\ ov'[x].conn = ov[x].conn
        /\ \A y \in Ctxs \ {x} : ov'[y] = ov[y]
        /\ UNCHANGED <<connected, sock, disc, phase, acc, freeConnection, th>>
    BY <1>3 DEF RequestSucceeds, RequestFails, connVars, accVars, RequestRecords
  <2>2. \A y \in Ctxs : ov'[y].conn = ov[y].conn /\ (ov'[y].st = "off" <=> ov[y].st = "off")
    BY <2>1
  <2>3. KindsInv'
    BY <2>1 DEF KindsInv, KindOK
  <2>4. PhasesInv' /\ AloneInv'
    BY <2>1, <2>2 DEF PhasesInv, ConnPhase, RequestPhase, ThreadPhase, AloneInv, Alone
  <2>5. ReceiveInv'
    BY <2>1, <2>2 DEF ReceiveInv, Receives, Heard, Ctxs
  <2>6. FreeInv'
    BY <2>1, ListKept DEF FreeInv
  <2> QED BY <2>3, <2>4, <2>5, <2>6
<1>4. ASSUME NEW c \in Conns, DisconnectCompletes(c) PROVE LifeInv'
  <2>1. /\ disc[c] = "kernel" /\ disc'[c] = "ok" /\ sock'[c] = "idle"
        /\ \A d \in Conns \ {c} : disc'[d] = disc[d] /\ sock'[d] = sock[d]
        /\ UNCHANGED <<connected, phase, acc, freeConnection, ov, th>>
    BY <1>4 DEF DisconnectCompletes, accVars, ctxVars
  <2>2. phase[c] # "idle" /\ connected[c] # 1
    BY <2>1 DEF PhasesInv, ConnPhase
  <2>3. KindsInv'
    BY <2>1 DEF KindsInv, KindOK
  <2>4. PhasesInv'
    BY <2>1, <2>2 DEF PhasesInv, ConnPhase, RequestPhase, ThreadPhase, RecordsInv
  <2>5. AloneInv' /\ ReceiveInv'
    BY <2>1 DEF AloneInv, Alone, ReceiveInv, Receives, Heard
  <2>6. FreeInv'
    BY <2>1, <2>2, ListKept, FromIsClosed DEF FreeInv, Listed
  <2> QED BY <2>3, <2>4, <2>5, <2>6
<1> QED
  BY <1>1, <1>2, <1>3, <1>4 DEF KernelNext

(* A step that leaves all of this alone.                                   *)
LEMMA LifeKept ==
  ASSUME LifeInv, UNCHANGED <<connected, sock, disc, phase, freeConnection, ov, th>>,
         acc' = acc \/ acc' = Off
  PROVE  LifeInv'
<1>1. \/ acc'.st = acc.st /\ acc'.conn = acc.conn
      \/ acc'.st = "off" /\ acc'.conn = NoConn
  BY DEF Off
<1>2. KindsInv'
  BY <1>1 DEF LifeInv, KindsInv, KindOK
<1>3. PhasesInv' /\ AloneInv' /\ ReceiveInv'
  BY DEF LifeInv, PhasesInv, ConnPhase, RequestPhase, ThreadPhase, AloneInv, Alone, ReceiveInv,
         Receives, Heard
<1>4. FreeInv'
  BY <1>1, ListKept, SetsAssumption, FromIsClosed DEF LifeInv, FreeInv, Listed
<1> QED BY <1>2, <1>3, <1>4 DEF LifeInv


(* A thread at a pc of its own kind may take any other.                    *)
LEMMA NextLife ==
  ASSUME TypeOK, RecordsInv, PlacesInv, IoRefsExact, LifeInv, ~Eager, Next, ~Refusing'
  PROVE  LifeInv'
<1> USE LifeTypes
<1>0. ~Refusing
  BY SetsAssumption DEF LifeInv, KindsInv, KindOK, Refusing, Threads, AcceptPcs, HandlingPcs,
                        TalkPcs
<1>1. ASSUME NEW t \in Threads, NEW r \in ThreadRecords, Accept(t, r),
             \/ t = Main /\ r.pc = "idle" /\ r.conn = NoConn /\ th[t].pc = "starting"
             \/ t \in Workers /\ r.pc = "update" /\ r.conn = acc.conn /\ acc.st = "ok" /\ th[t].pc = "idle"
      PROVE  LifeInv'
  <2>1. ~AcceptRefused(t, r)
    BY DEF AcceptRefused, Goto, At, Refusing
  <2> QED BY <1>0, <1>1, <2>1, AcceptLife DEF Accept, ctxVars
<1>2. ASSUME NEW t \in Threads, AcceptGivesUp(t) PROVE FALSE
  BY <1>0, <1>2 DEF AcceptGivesUp, Refusing
(* A thread goes on to pc, with its connection or without.                 *)
<1>3. ASSUME NEW t \in Threads, NEW pc, NEW c \in {NoConn, th[t].conn}, NEW x \in {NoCtx, th[t].ctx},
             th' = [th EXCEPT ![t] = At(pc, c, x)],
             UNCHANGED <<connected, sock, disc, phase, acc, freeConnection, ov>>,
             \/ t = Main /\ pc = "starting" /\ c = NoConn
             \/ t = App /\ pc = "idle" /\ c = NoConn
             \/ t \in Workers /\ pc \in {"idle", "accepted"} /\ c = NoConn
             \/ t \in Workers /\ pc = "handled" /\ th[t].pc = "nextunref" /\ c = th[t].conn
             \/ t = App /\ pc = "post" /\ th[t].pc = "send" /\ c = th[t].conn /\ x = th[t].ctx,
             th[t].pc \notin ReceivePcs \cup {"reject"}
      PROVE  LifeInv'
  <2> DEFINE r == At(pc, c, x)
  <2>1. r \in ThreadRecords
    <3>1. pc \in Pcs /\ c \in MaybeConn /\ x \in Ctxs \cup {NoCtx}
      BY <1>3 DEF Pcs, ThreadRecords, MaybeConn
    <3> QED BY <3>1, ActionRecords
  <2>2. KindOK(t, r)
    BY <1>3, SetsAssumption DEF LifeInv, KindsInv, KindOK, At, HandlingPcs, AcceptPcs, TalkPcs,
                                ReceivePcs
  <2>3. ThreadPhase(r)
    BY <1>3 DEF LifeInv, PhasesInv, ThreadPhase, At, HandlingPcs, TalkPcs
  <2>4. r.conn \in {NoConn, th[t].conn} /\ r.pc \notin ReceivePcs \cup SetupPcs
    BY <1>3 DEF At, ReceivePcs, SetupPcs
  <2> HIDE DEF r
  <2> QED BY <1>3, <2>1, <2>2, <2>3, <2>4, MoveLife DEF r
<1>4. CASE MainNext
  <2>1. CASE Start
    BY <1>3, <2>1, SetsAssumption DEF Start, Goto, Threads, connVars, ctxVars, LifeInv, KindsInv,
                                      ReceivePcs
  <2>2. CASE StartAccept
    BY <1>1, <2>2, ActionRecords DEF StartAccept, Threads, Idle
  <2>3. CASE Stop
    BY <2>3, LifeKept DEF Stop, connVars, ctxVars
  <2> QED BY <1>2, <1>4, <2>1, <2>2, <2>3 DEF MainNext, Threads
(* A connection is disconnected.                                           *)
<1>5. ASSUME NEW t \in Threads, NEW c \in Conns, NEW r, AsyncDisconnect(c), th' = [th EXCEPT ![t] = r],
             \/ ov' = ov
             \/ \E x \in Ctxs : ov[x].conn = c /\ ov' = [ov EXCEPT ![x] = Off],
             UNCHANGED <<sock, phase, acc, freeConnection>>,
             \/ t \in Workers /\ r = At("accepted", NoConn, NoCtx) /\ th[t].pc = "reject" /\ th[t].conn = c
             \/ /\ t \in Workers /\ r = At("handled", c, NoCtx) /\ th[t].pc = "idle"
                /\ phase[c] \in {"open", "talking"} /\ \E x \in Ctxs : ov[x].st # "off" /\ ov[x].conn = c
             \/ t = App /\ r = Idle /\ th[t].pc = "send" /\ th[t].conn = c
             \/ t = App /\ r = th[t] /\ th[t].pc = "idle" /\ phase[c] \in {"talking", "lost"}
      PROVE  LifeInv'
  <2>1. r \in ThreadRecords
    <3>1. /\ At("accepted", NoConn, NoCtx) \in ThreadRecords /\ At("handled", c, NoCtx) \in ThreadRecords
          /\ Idle \in ThreadRecords /\ th[t] \in ThreadRecords
      BY ActionRecords DEF Pcs, MaybeConn
    <3> QED BY <1>5, <3>1
  <2>2. KindOK(t, r)
    BY <1>5, SetsAssumption DEF LifeInv, KindsInv, KindOK, At, Idle, HandlingPcs, AcceptPcs,
                                TalkPcs, ReceivePcs
  <2>3. ThreadPhase(r)
    BY <1>5 DEF LifeInv, PhasesInv, ThreadPhase, At, Idle, HandlingPcs, TalkPcs
  <2>4. /\ r.conn \in {c, NoConn} /\ r.pc \notin ReceivePcs \cup SetupPcs
        /\ th[t].conn \in {c, NoConn}
    BY <1>5 DEF At, Idle, ReceivePcs, SetupPcs, LifeInv, KindsInv, KindOK
  <2>5. phase[c] # "idle"
    BY <1>5 DEF LifeInv, PhasesInv, ThreadPhase, TalkPcs
  <2>6. \A u \in Threads \ {t} : th[u].conn = c => th[u].pc \notin SetupPcs
    <3>1. CASE phase[c] \in {"talking", "lost"}
      BY <3>1 DEF LifeInv, PhasesInv, ThreadPhase, ConnPhase, SetupPcs
    <3>2. CASE th[t].conn = c
      BY <3>2 DEF LifeInv, AloneInv, Alone, SetupPcs
    <3>3. CASE \E x \in Ctxs : ov[x].st # "off" /\ ov[x].conn = c
      BY <3>3 DEF LifeInv, AloneInv, Alone, SetupPcs
    <3> QED BY <1>5, <3>1, <3>2, <3>3
  <2> QED BY <1>5, <2>1, <2>2, <2>3, <2>4, <2>5, <2>6, DisconnectLife
<1>6. ASSUME NEW t \in Threads, NEW r \in ThreadRecords, Post(t, th[t].conn, th[t].ctx, r),
             UNCHANGED <<sock, phase, accVars, made>>,
             \/ t \in Workers /\ th[t].pc = "firstrecv" /\ r = At("accepted", NoConn, NoCtx)
             \/ t \in Workers /\ th[t].pc = "nextrecv" /\ r = At("handled", th[t].conn, NoCtx)
             \/ t = App /\ th[t].pc = "post" /\ r = Idle
      PROVE  LifeInv'
  <2>1. KindOK(t, r)
    BY <1>6, SetsAssumption DEF KindOK, At, Idle, HandlingPcs, AcceptPcs, TalkPcs, ReceivePcs
  <2>2. /\ r.pc \in {"idle", "accepted", "handled"} /\ r.conn \in {th[t].conn, NoConn}
        /\ r.pc = "handled" => th[t].pc = "nextrecv" /\ r.conn = th[t].conn
        /\ th[t].pc \in ReceivePcs \cup {"post"}
    BY <1>6 DEF At, Idle, ReceivePcs
  <2> QED BY <1>6, <2>1, <2>2, PostLife
<1>7. ASSUME NEW t \in Threads, NEW pc, PostFails(t, th[t].conn, th[t].ctx, pc),
             UNCHANGED <<sock, phase, accVars, made>>,
             \/ pc = "firstunref" /\ th[t].pc = "firstrecv"
             \/ pc = "nextunref" /\ th[t].pc = "nextrecv"
             \/ pc = "sendunref" /\ th[t].pc = "post"
      PROVE  LifeInv'
  BY <1>7, PostFailsLife DEF ReceivePcs
<1>8. ASSUME NEW w \in Workers, WorkerNext(w) PROVE LifeInv'
  <2>0. w \in Threads /\ At("accepted", NoConn, NoCtx) \in ThreadRecords
    BY ActionRecords DEF Threads, Pcs, MaybeConn
  <2>1. CASE DequeueAccept(w)
    <3>1. At("update", acc.conn, NoCtx) \in ThreadRecords
      BY ActionRecords DEF Pcs, RequestRecords
    <3> QED BY <1>1, <2>0, <2>1, <3>1 DEF DequeueAccept, At
  <2>2. CASE DequeueFailedAccept(w)
    BY <2>2, LifeKept DEF DequeueFailedAccept, connVars, ctxVars
  <2>3. CASE AcceptGivesUp(w)
    BY <1>2, <2>0, <2>3
  <2>4. CASE UpdateAccept(w)
    BY <2>4, UpdateLife
  <2>5. CASE UpdateAcceptFails(w)
    BY <1>3, <2>0, <2>5 DEF UpdateAcceptFails, Goto, connVars, accVars, ctxVars, ReceivePcs
  <2>6. CASE RejectConnection(w)
    <3>1. th[w].conn \in Conns
      BY <2>0, <2>6 DEF RejectConnection, RecordsInv
    <3> QED BY <1>5, <2>0, <2>6, <3>1 DEF RejectConnection, Goto, accVars, ctxVars
  <2>7. CASE FirstRecv(w)
    BY <1>6, <1>7, <2>0, <2>7 DEF FirstRecv
  <2>8. CASE FirstUnref(w)
    BY <1>3, <2>0, <2>8 DEF FirstUnref, Goto, accVars, ctxVars, ReceivePcs
  <2>9. CASE EndAccept(w)
    BY <1>3, <2>0, <2>9 DEF EndAccept, Return, Idle, At, connVars, ctxVars, ReceivePcs
  <2>10. CASE NextRecv(w)
    <3>1. th[w].conn \in MaybeConn
      BY <2>0 DEF ThreadRecords
    <3>2. At("handled", th[w].conn, NoCtx) \in ThreadRecords
      BY <3>1, ActionRecords DEF Pcs
    <3> QED BY <1>6, <1>7, <2>0, <2>10, <3>2 DEF NextRecv
  <2>11. CASE NextUnref(w)
    BY <1>3, <2>0, <2>11 DEF NextUnref, Goto, accVars, ctxVars, ReceivePcs
  <2>12. CASE EndHandling(w)
    BY <1>3, <2>0, <2>12 DEF EndHandling, Return, Idle, At, accVars, ctxVars, ReceivePcs
  <2>13. ASSUME NEW x \in Ctxs, DequeueData(w, x) \/ DequeueEof(w, x) \/ DequeueSent(w, x) PROVE LifeInv'
    <3> DEFINE c == ov[x].conn
    <3>1. /\ c \in Conns /\ phase[c] \in {"open", "talking"}
          /\ th[w].pc = "idle" /\ ov[x].st # "off" /\ ov' = [ov EXCEPT ![x] = Off]
      BY <2>13 DEF DequeueData, DequeueEof, DequeueSent, RecordsInv, LifeInv, PhasesInv,
                   RequestPhase
    <3>2. At("nextrecv", c, x) \in ThreadRecords /\ At("handled", c, NoCtx) \in ThreadRecords
      BY <3>1, ActionRecords DEF Pcs, MaybeConn
    <3>3. CASE DequeueData(w, x)
      <4>1. LET r == At("nextrecv", c, x) IN r.conn = c /\ r.pc = "nextrecv" /\ r.ctx = x
        BY DEF At
      <4>2. /\ x \in InCtxs /\ th' = [th EXCEPT ![w] = At("nextrecv", c, x)]
            /\ phase' = [phase EXCEPT ![c] = "talking"]
            /\ UNCHANGED <<connected, sock, disc, acc, freeConnection>>
        BY <3>3 DEF DequeueData, Goto, accVars
      <4> QED BY <3>1, <3>2, <4>1, <4>2, TakeLife
    <3>4. CASE DequeueSent(w, x)
      <4>1. LET r == At("handled", c, NoCtx) IN r.conn = c /\ r.pc = "handled"
        BY DEF At
      <4>2. /\ x \in OutCtxs /\ th' = [th EXCEPT ![w] = At("handled", c, NoCtx)]
            /\ UNCHANGED <<connected, sock, disc, phase, acc, freeConnection>>
        BY <3>4 DEF DequeueSent, Goto, connVars, accVars
      <4> QED BY <3>1, <3>2, <4>1, <4>2, TakeLife
    <3>5. CASE DequeueEof(w, x)
      <4>1. /\ AsyncDisconnect(c) /\ th' = [th EXCEPT ![w] = At("handled", c, NoCtx)]
            /\ UNCHANGED <<sock, phase, acc, freeConnection>>
        BY <3>5 DEF DequeueEof, Goto, accVars
      <4> HIDE DEF c
      <4>2. ov[x].conn = c
        BY DEF c
      <4> QED BY <1>5, <2>0, <3>1, <4>1, <4>2
    <3> QED BY <2>13, <3>3, <3>4, <3>5
  <2>14. ASSUME NEW c \in Conns, DequeueDisconnect(w, c) PROVE LifeInv'
    BY <2>14, LostLife
  <2> QED
    BY <1>8, <2>1, <2>2, <2>3, <2>4, <2>5, <2>6, <2>7, <2>8, <2>9, <2>10, <2>11,
       <2>12, <2>13, <2>14 DEF WorkerNext
<1>9. CASE AppNext
  <2>0. App \in Threads /\ App \notin Workers /\ Idle \in ThreadRecords
    BY ActionRecords, SetsAssumption DEF Threads
  <2>1. CASE AppSendOversize
    BY <1>3, <2>0, <2>1 DEF AppSendOversize, Return, Idle, At, connVars, accVars, ctxVars,
                            ReceivePcs
  <2>2. CASE AppSendOverLimit
    <3>1. th[App].conn \in Conns
      BY <2>0, <2>2 DEF AppSendOverLimit, RecordsInv
    <3> QED BY <1>5, <2>0, <2>2, <3>1 DEF AppSendOverLimit, Return, accVars
  <2>3. CASE AppSendWithinLimit
    BY <1>3, <2>0, <2>3 DEF AppSendWithinLimit, Goto, connVars, accVars, ctxVars, ReceivePcs
  <2>4. CASE AppSendPost
    BY <1>6, <1>7, <2>0, <2>4 DEF AppSendPost
  <2>5. CASE AppSendUnref
    BY <1>3, <2>0, <2>5 DEF AppSendUnref, Return, Idle, At, accVars, ctxVars, ReceivePcs
  <2>6. ASSUME NEW c \in Conns, AppSend(c) PROVE LifeInv'
    BY <2>6, SendLife
  <2>7. ASSUME NEW c \in Conns, AppDisconnect(c) PROVE LifeInv'
    <3>1. th' = [th EXCEPT ![App] = th[App]]
      BY <2>0, <2>7 DEF AppDisconnect
    <3> QED BY <1>5, <2>0, <2>7, <3>1 DEF AppDisconnect, Usable, accVars, ctxVars
  <2>8. ASSUME NEW c \in Conns, AppClose(c) PROVE LifeInv'
    BY <2>8, CloseLife
  <2> QED BY <1>9, <2>1, <2>2, <2>3, <2>4, <2>5, <2>6, <2>7, <2>8 DEF AppNext
<1> QED
  BY <1>4, <1>8, <1>9, KernelLife DEF Next

LEMMA InitLife == Init => LifeInv /\ ~Refusing
<1> SUFFICES ASSUME Init PROVE LifeInv /\ ~Refusing
  OBVIOUS
<1>1. KindsInv /\ ~Refusing
  BY DEF Init, KindsInv, KindOK, Refusing, Idle, Off, ReceivePcs
<1>2. PhasesInv /\ AloneInv
  BY DEF Init, PhasesInv, ConnPhase, RequestPhase, ThreadPhase, AloneInv, Alone, Idle, Off,
         HandlingPcs, TalkPcs
<1>3. ReceiveInv
  BY DEF Init, ReceiveInv, Receives, Heard, Idle, Off, ReceivePcs, Ctxs
<1>4. Listed = {}
  <2>1. Closed(freeConnection, {}) /\ freeConnection.head \notin Conns
    BY SetsAssumption DEF Init, Closed
  <2> QED BY <2>1, FromIsLeast DEF Listed
<1>5. FreeInv
  BY <1>4, SetsAssumption DEF Init, FreeInv, Acyclic, Listed, Off
<1> QED BY <1>1, <1>2, <1>3, <1>5 DEF LifeInv

------------------------------------------------------------------------------
(* A patient application on a server whose AcceptEx can always be posted   *)

Patient == ~Eager /\ "AcceptEx" \notin Faults

(* What a step can do to the accept, the free list and a refused accept.   *)
Accepts(t, r) ==
  /\ Accept(t, r)
  /\ \/ t = Main /\ th[t].pc = "starting" /\ accIorefs = 0 /\ r.pc = "idle"
     \/ t \in Workers /\ th[t].pc = "idle" /\ acc.st = "ok" /\ r.pc = "update"
GoesOn ==
  /\ freeConnection' = freeConnection
  /\ \A t \in Threads : th'[t].pc = "refused" <=> th[t].pc = "refused"
  /\ acc' = acc \/ acc.st # "off"

LEMMA AcceptorSteps ==
  ASSUME TypeOK, [Next]_vars
  PROVE  \/ GoesOn \/ \E c \in Conns : AppClose(c)
         \/ \E t \in Threads : AcceptGivesUp(t) \/ \E r : Accepts(t, r)
<1> DEFINE Goal == \/ GoesOn \/ \E c \in Conns : AppClose(c)
                   \/ \E t \in Threads : AcceptGivesUp(t) \/ \E r : Accepts(t, r)
<1> SUFFICES Goal
  OBVIOUS
<1> USE LifeTypes DEF Goto, Return, At, Idle
<1>0. App \in Threads /\ Main \in Threads /\ \A w \in Workers : w \in Threads
  BY DEF Threads
<1>1. ASSUME NEW t \in Threads, NEW r, r.pc # "refused", th[t].pc # "refused", th' = [th EXCEPT ![t] = r],
             UNCHANGED <<acc, freeConnection>>
      PROVE  Goal
  BY <1>1 DEF GoesOn
<1>2. ASSUME th' = th, UNCHANGED freeConnection, acc' = acc \/ acc.st # "off" PROVE Goal
  BY <1>2 DEF GoesOn
<1>3. ASSUME NEW t \in Threads, NEW c, NEW x, NEW pc, NEW q, q.pc # "refused", pc # "refused",
             th[t].pc # "refused", Post(t, c, x, q) \/ PostFails(t, c, x, pc), UNCHANGED accVars
      PROVE  Goal
  BY <1>1, <1>3 DEF Post, PostFails, accVars
<1>4. CASE MainNext
  <2>1. CASE Start \/ Stop
    BY <1>0, <1>1, <1>2, <2>1 DEF Start, Stop
  <2>2. CASE StartAccept
    BY <1>0, <2>2 DEF StartAccept, Accepts
  <2> QED BY <1>0, <1>4, <2>1, <2>2 DEF MainNext
<1>5. ASSUME NEW w \in Workers, WorkerNext(w) PROVE Goal
  <2>1. CASE DequeueAccept(w)
    <3>1. Accepts(w, At("update", acc.conn, NoCtx))
      BY <2>1 DEF DequeueAccept, Accepts
    <3> QED BY <1>0, <3>1
  <2>2. CASE DequeueFailedAccept(w)
    BY <1>2, <2>2 DEF DequeueFailedAccept
  <2>3. CASE UpdateAccept(w) \/ UpdateAcceptFails(w) \/ RejectConnection(w)
    BY <1>0, <1>1, <2>3 DEF UpdateAccept, UpdateAcceptFails, RejectConnection, accVars
  <2>4. CASE FirstRecv(w) \/ NextRecv(w)
    BY <1>0, <1>3, <2>4 DEF FirstRecv, NextRecv
  <2>5. CASE FirstUnref(w) \/ EndAccept(w) \/ NextUnref(w) \/ EndHandling(w)
    BY <1>0, <1>1, <2>5 DEF FirstUnref, EndAccept, NextUnref, EndHandling, accVars
  <2>6. ASSUME NEW x \in Ctxs, DequeueData(w, x) \/ DequeueEof(w, x) \/ DequeueSent(w, x) PROVE Goal
    BY <1>0, <1>1, <2>6 DEF DequeueData, DequeueEof, DequeueSent, accVars
  <2>7. ASSUME NEW c \in Conns, DequeueDisconnect(w, c) PROVE Goal
    BY <1>2, <2>7 DEF DequeueDisconnect, accVars
  <2> QED BY <1>0, <1>5, <2>1, <2>2, <2>3, <2>4, <2>5, <2>6, <2>7 DEF WorkerNext
<1>6. CASE AppNext
  <2>1. CASE AppSendOversize \/ AppSendOverLimit \/ AppSendWithinLimit \/ AppSendUnref
    BY <1>0, <1>1, <2>1 DEF AppSendOversize, AppSendOverLimit, AppSendWithinLimit, AppSendUnref,
                            accVars
  <2>2. CASE AppSendPost
    <3>1. \E c, x : Post(App, c, x, Idle) \/ PostFails(App, c, x, "sendunref")
      BY <2>2 DEF AppSendPost
    <3>2. Idle.pc # "refused" /\ th[App].pc # "refused" /\ UNCHANGED accVars
      BY <2>2 DEF AppSendPost
    <3> HIDE DEF Idle, Goal
    <3> QED BY <1>0, <1>3, <3>1, <3>2
  <2>3. ASSUME NEW c \in Conns, AppSend(c) \/ AppDisconnect(c) PROVE Goal
    BY <1>0, <1>1, <1>2, <2>3 DEF AppSend, AppDisconnect, accVars, ctxVars
  <2> QED BY <1>6, <2>1, <2>2, <2>3 DEF AppNext
<1>7. CASE KernelNext \/ UNCHANGED vars
  BY <1>2, <1>7 DEF KernelNext, ConnectionArrives, AcceptExFails, RequestSucceeds, RequestFails,
                    DisconnectCompletes, vars, accVars, ctxVars
<1> QED BY <1>4, <1>5, <1>6, <1>7 DEF Next

(* No candidate of Accept() has a connected socket, so it is not refused.  *)
LEMMA NeverRefused ==
  ASSUME TypeOK, LifeInv, ~Refusing, "AcceptEx" \notin Faults, [Next]_vars
  PROVE  ~Refusing'
<1> USE LifeTypes
<1>1. \A t \in Threads : \A r : ~AcceptRefused(t, r)
  <2>1. \A c \in Candidates : sock[c] # "connected"
    <3>1. freeConnection.head \in Conns => freeConnection.head \in Listed
      BY FromIsClosed DEF Listed
    <3> QED
      BY <3>1, CandidatesAndRemaining DEF Candidates, Fresh, Reusing, LifeInv, FreeInv
  <2> QED BY <2>1 DEF AcceptRefused
<1>2. CASE GoesOn
  BY <1>2 DEF GoesOn, Refusing
<1>3. ASSUME NEW c \in Conns, AppClose(c) PROVE ~Refusing'
  BY <1>3 DEF AppClose, Refusing
<1>4. ASSUME NEW t \in Threads, NEW r, Accepts(t, r) PROVE ~Refusing'
  BY <1>1, <1>4 DEF Accepts, Accept, AcceptPosted, AcceptWithout, Refusing
<1>5. \A t \in Threads : ~AcceptGivesUp(t)
  BY DEF AcceptGivesUp, Refusing
<1> QED BY <1>2, <1>3, <1>4, <1>5, AcceptorSteps

LEMMA LifeOfSpec ==
  ASSUME Patient
  PROVE  Spec => [](TypeOK /\ RecordsInv /\ PlacesInv /\ IoRefsExact /\ LifeInv /\ ~Refusing)
<1>1. TypeOK /\ RecordsInv /\ PlacesInv /\ IoRefsExact /\ LifeInv /\ ~Refusing /\ [Next]_vars
        => (TypeOK /\ RecordsInv /\ PlacesInv /\ IoRefsExact /\ LifeInv /\ ~Refusing)'
  <2>1. LifeInv /\ UNCHANGED vars => LifeInv'
    BY LifeKept DEF vars, connVars, accVars, ctxVars
  <2> QED
    BY <2>1, NextTypeOK, NextRecordsInv, NextPlacesInv, NextIoRefsExact, NextLife,
       NeverRefused DEF Patient
<1> QED
  BY <1>1, InitTypeOK, InitRecordsInv, InitPlacesInv, InitIoRefsExact, InitLife, PTL DEF Spec

(* connected_ is 1 only while no disconnect is posted and the socket has a *)
(* peer, whoever disconnects and however many do it at once.               *)
THEOREM DisconnectPostedOnce == Patient => (Spec => []DisconnectOnce)
<1>1. LifeInv => DisconnectOnce
  BY DEF LifeInv, PhasesInv, ConnPhase, DisconnectOnce
<1>2. ASSUME Patient PROVE Spec => []DisconnectOnce
  BY <1>1, <1>2, LifeOfSpec, PTL
<1> QED BY <1>2

(* What is on the free list or under a posted AcceptEx has nothing left of *)
(* its last use.                                                           *)
LEMMA LifeIsQuiescent ==
  ASSUME TypeOK, RecordsInv, IoRefsExact, LifeInv, ~Refusing
  PROVE  FreeIsQuiescent
<1> SUFFICES ASSUME NEW c \in Listed \cup ({acc.conn} \cap Conns)
             PROVE  /\ c \in Listed => acc.conn # c
                    /\ acc.st # "ok" \/ c \in Listed => sock[c] # "connected"
                    /\ Quiet(c) /\ disc[c] = "off" /\ phase[c] = "idle"
                    /\ InFlight(c) = {} /\ \A t \in Threads : th[t].conn # c
  BY DEF FreeIsQuiescent
<1>1. c \in Conns /\ phase[c] = "idle" /\ (c \in Listed => acc.conn # c /\ sock[c] = "idle")
  BY FromIsClosed DEF LifeInv, FreeInv, Listed
<1>2. /\ connected[c] # 1 /\ disc[c] = "off"
      /\ \A x \in Ctxs : ov[x].st # "off" => ov[x].conn # c
      /\ \A t \in Threads : th[t].conn = c => th[t].pc = "update" /\ sock[c] = "connected"
  BY <1>1, IdleIsUnused
<1>3. \A t \in Threads : th[t].conn # c
  BY <1>1, <1>2 DEF LifeInv, FreeInv
<1>4. Quiet(c)
  BY <1>1, <1>2, <1>3, NoReference DEF Quiet, TypeOK
<1>5. acc.st # "ok" \/ c \in Listed => sock[c] # "connected"
  BY <1>1 DEF LifeInv, FreeInv
<1> QED BY <1>1, <1>2, <1>3, <1>4, <1>5 DEF InFlight

LEMMA LifeClosesQuiet ==
  ASSUME TypeOK, RecordsInv, IoRefsExact, LifeInv
  PROVE  CloseAssertion
<1> SUFFICES ASSUME NEW c \in Conns, phase[c] = "lost", th[App].pc = "idle" PROVE Quiet(c)
  BY DEF CloseAssertion
<1>1. \A x \in Ctxs : ov[x].st # "off" => ov[x].conn # c
  BY DEF LifeInv, PhasesInv, RequestPhase
<1>2. \A t \in Threads : th[t].pc \in HandlingPcs \cup UnrefPcs => th[t].conn # c
  BY DEF LifeInv, PhasesInv, ThreadPhase, KindsInv, KindOK, HandlingPcs, UnrefPcs, AcceptPcs,
         Threads
<1>3. connected[c] = 0
  BY DEF LifeInv, PhasesInv, ConnPhase, TypeOK
<1> QED BY <1>1, <1>2, <1>3, NoReference DEF Quiet

LEMMA AtMostOne ==
  ASSUME NEW S, \A x, y \in S : x = y
  PROVE  Cardinality(S) = OneIf(S # {})
<1>1. CASE S = {}
  BY <1>1, FS_EmptySet DEF OneIf
<1>2. ASSUME NEW x \in S PROVE Cardinality(S) = OneIf(S # {})
  <2>1. S = {x}
    OBVIOUS
  <2> QED BY <2>1, FS_Singleton DEF OneIf
<1> QED BY <1>1, <1>2

LEMMA LifeReceivesOnce ==
  ASSUME TypeOK, RecordsInv, PlacesInv, LifeInv
  PROVE  OneReceive
<1> SUFFICES ASSUME NEW c \in Conns
             PROVE  LET receives == Cardinality(InFlight(c) \cap InCtxs)
                                    + Cardinality(ThreadsAt({"firstrecv", "nextrecv"}, c))
                    IN  /\ receives <= 1
                        /\ connected[c] = 1 => receives = 1 \/ ThreadsAt({"reject"}, c) # {}
  BY DEF OneReceive
<1> DEFINE A == InFlight(c) \cap InCtxs  B == ThreadsAt({"firstrecv", "nextrecv"}, c)
<1>1. \A x \in A : x \in InCtxs /\ x \in Ctxs /\ ov[x].st # "off" /\ Receives(x, c)
  BY DEF InFlight, Receives
<1>2. \A t \in B : t \in Threads /\ th[t].ctx \in InCtxs /\ th[t].ctx \in Ctxs /\ Receives(th[t].ctx, c)
  BY DEF ThreadsAt, Receives, ReceivePcs, LifeInv, KindsInv, KindOK, Ctxs
<1>3. \A x, y \in InCtxs : Receives(x, c) /\ Receives(y, c) => x = y
  BY DEF LifeInv, ReceiveInv
<1>4. Heard(c) => A # {} \/ B # {} \/ ThreadsAt({"reject"}, c) # {}
  BY DEF Heard, Receives, InFlight, ThreadsAt, ReceivePcs, Ctxs
<1>5. connected[c] = 1 => Heard(c)
  BY DEF LifeInv, ReceiveInv
<1> HIDE DEF A, B
<1>6. \A x, y \in A : x = y
  BY <1>1, <1>3
<1>7. \A t, u \in B : t = u
  BY <1>2, <1>3 DEF PlacesInv
<1>8. A = {} \/ B = {}
  BY <1>1, <1>2, <1>3 DEF PlacesInv
<1>9. Cardinality(A) = OneIf(A # {}) /\ Cardinality(B) = OneIf(B # {})
  BY <1>6, <1>7, AtMostOne
<1>10. Cardinality(A) + Cardinality(B) <= 1 /\ (Cardinality(A) + Cardinality(B) = 1 <=> A # {} \/ B # {})
  BY <1>8, <1>9 DEF OneIf
<1> QED BY <1>4, <1>5, <1>10 DEF A, B

(* The bytes of a connection come to the application in their order, and   *)
(* as long as it is connected somebody listens to it or disconnects it.    *)
THEOREM ReceivesInOrder == Patient => (Spec => []OneReceive)
<1>1. ASSUME Patient PROVE Spec => []OneReceive
  BY <1>1, LifeOfSpec, LifeReceivesOnce, PTL
<1> QED BY <1>1

(* Whatever accepts, updates and disconnects fail after they were posted:  *)
(* no connection is accepted on again, and none is closed, while a worker, *)
(* the application or the kernel still uses it.                            *)
THEOREM ReusedWhenQuiescent == Patient => (Spec => [](FreeIsQuiescent /\ CloseAssertion))
<1>1. ASSUME Patient PROVE Spec => [](FreeIsQuiescent /\ CloseAssertion)
  BY <1>1, LifeOfSpec, LifeIsQuiescent, LifeClosesQuiet, PTL
<1> QED BY <1>1

------------------------------------------------------------------------------
(* The callbacks                                                           *)

LEMMA ProtocolStep ==
  ASSUME TypeOK, RecordsInv, LifeInv, ~Eager, [Next]_vars
  PROVE  [Protocol!Next]_phase
<1> USE LifeTypes
<1>1. ASSUME NEW c \in Conns, NEW s, phase' = [phase EXCEPT ![c] = s],
             \/ phase[c] = "idle" /\ s \in {"open", "rejected"}
             \/ phase[c] \in {"open", "talking"} /\ s = "talking"
             \/ phase[c] \in {"rejected", "open", "talking"} /\ s = "lost"
             \/ phase[c] = "lost" /\ s = "idle"
      PROVE  Protocol!Next
  BY <1>1 DEF Protocol!Next, Protocol!OnConnection, Protocol!OnData, Protocol!OnDisconnect,
              Protocol!Close, Protocol!Tell
<1>2. ASSUME NEW w \in Workers, UpdateAccept(w) PROVE Protocol!Next
  <2>1. th[w].conn \in Conns /\ phase[th[w].conn] = "idle"
    BY <1>2 DEF UpdateAccept, RecordsInv, Threads, LifeInv, PhasesInv, ThreadPhase
  <2> QED BY <1>1, <1>2, <2>1 DEF UpdateAccept
<1>3. ASSUME NEW w \in Workers, NEW x \in Ctxs, DequeueData(w, x) PROVE Protocol!Next
  <2>1. ov[x].conn \in Conns /\ phase[ov[x].conn] \in {"open", "talking"}
    BY <1>3 DEF DequeueData, RecordsInv, LifeInv, PhasesInv, RequestPhase
  <2> QED BY <1>1, <1>3, <2>1 DEF DequeueData
<1>4. ASSUME NEW w \in Workers, NEW c \in Conns, DequeueDisconnect(w, c) PROVE Protocol!Next
  BY <1>1, <1>4 DEF DequeueDisconnect, LifeInv, PhasesInv, ConnPhase
<1>5. ASSUME NEW c \in Conns, AppClose(c) PROVE Protocol!Next
  BY <1>1, <1>5 DEF AppClose
<1>6. CASE MainNext
  BY <1>6 DEF MainNext, Start, StartAccept, Accept, AcceptGivesUp, Stop, connVars
<1>7. ASSUME NEW w \in Workers, WorkerNext(w) PROVE [Protocol!Next]_phase
  BY <1>2, <1>3, <1>4, <1>7
     DEF WorkerNext, DequeueAccept, Accept, DequeueFailedAccept, AcceptGivesUp, UpdateAcceptFails,
         RejectConnection, FirstRecv, FirstUnref, EndAccept, NextRecv, NextUnref, EndHandling,
         DequeueEof, DequeueSent, connVars
<1>8. CASE AppNext
  BY <1>5, <1>8 DEF AppNext, AppSendOversize, AppSendOverLimit, AppSendWithinLimit, AppSendPost,
                    AppSendUnref, AppSend, AppDisconnect, connVars
<1>9. CASE KernelNext \/ UNCHANGED vars
  BY <1>9 DEF KernelNext, ConnectionArrives, AcceptExFails, RequestSucceeds, RequestFails,
              DisconnectCompletes, vars, connVars
<1> QED BY <1>6, <1>7, <1>8, <1>9 DEF Next

(* The server implements the handler protocol: the callbacks of each       *)
(* connection, made by different workers, come in the order that           *)
(* easy_handler.h lets the application count on.                           *)
THEOREM CallbacksInOrder == Patient => (Spec => ImplementsHandlerProtocol)
<1>1. Init => Protocol!Init
  BY DEF Init, Protocol!Init
<1>2. ASSUME Patient PROVE Spec => ImplementsHandlerProtocol
  <2>1. ~Eager
    BY <1>2 DEF Patient
  <2>2. TypeOK /\ RecordsInv /\ PlacesInv /\ IoRefsExact /\ LifeInv /\ ~Refusing /\ [Next]_vars
          => [Protocol!Next]_phase
    BY <2>1, ProtocolStep
  <2> QED BY <1>1, <1>2, <2>2, LifeOfSpec, PTL DEF Spec, ImplementsHandlerProtocol, Protocol!Spec
<1> QED BY <1>2

------------------------------------------------------------------------------
(* The bound of the references                                             *)

(* The send that has passed the test of AsyncSend and is not yet counted,  *)
(* and the completions handled whose next receive was posted.              *)
Posting(f, c) == OneIf(f[App].pc = "post" /\ f[App].conn = c)
HandledPcs == {"handled", "nextunref"}
HandledBy(r, c) == OneIf(r.pc \in HandledPcs /\ r.conn = c)

RefsInv ==
  \A c \in Conns :
    iorefs[c] + Posting(th, c) <= IoRefMax + 1 + Cardinality(ThreadsOf(th, HandledPcs, c))

LEMMA RefsStep ==
  ASSUME TypeOK, TypeOK', RefsInv, NEW t \in Threads, \A u \in Threads \ {t} : th'[u] = th[u],
         \A c \in Conns :
           \/ iorefs'[c] + Posting(th', c) <= IoRefMax + 1
           \/ iorefs'[c] + Posting(th', c) - HandledBy(th'[t], c)
                <= iorefs[c] + Posting(th, c) - HandledBy(th[t], c)
  PROVE  RefsInv'
<1> SUFFICES ASSUME NEW c \in Conns
             PROVE  iorefs'[c] + Posting(th', c)
                      <= IoRefMax + 1 + Cardinality(ThreadsOf(th', HandledPcs, c))
  BY DEF RefsInv, Posting, ThreadsOf
<1> DEFINE H == Cardinality(ThreadsOf(th, HandledPcs, c))  HH == Cardinality(ThreadsOf(th', HandledPcs, c))
<1>1. th \in [Threads -> ThreadRecords] /\ th' \in [Threads -> ThreadRecords]
  BY DEF TypeOK, ThreadRecords
<1>2. H \in Nat /\ HH \in Nat /\ HH = H - HandledBy(th[t], c) + HandledBy(th'[t], c)
  BY <1>1, ThreadsOfStep DEF HandledBy, OneIf
<1>3. iorefs[c] \in Int /\ iorefs'[c] \in Int /\ IoRefMax \in Nat
  BY NumbersAssumption DEF TypeOK
<1>4. /\ Posting(th, c) \in 0 .. 1 /\ Posting(th', c) \in 0 .. 1
      /\ HandledBy(th[t], c) \in 0 .. 1 /\ HandledBy(th'[t], c) \in 0 .. 1
  BY DEF Posting, HandledBy, OneIf
<1>5. iorefs[c] + Posting(th, c) <= IoRefMax + 1 + H
  BY DEF RefsInv
<1> HIDE DEF H, HH, Posting, HandledBy
<1>6. iorefs'[c] + Posting(th', c) <= IoRefMax + 1 + HH
  BY <1>2, <1>3, <1>4, <1>5
<1> QED BY <1>6 DEF HH

LEMMA NextRefsInv ==
  ASSUME TypeOK, RecordsInv, IoRefsExact, LifeInv, RefsInv, [Next]_vars
  PROVE  RefsInv'
<1> USE LifeTypes
<1>0. TypeOK' /\ iorefs \in [Conns -> Int] /\ App \in Threads /\ IoRefMax \in Nat
  BY NextTypeOK, NumbersAssumption DEF TypeOK, Threads
<1>k. KindsInv
  BY DEF LifeInv
<1> USE DEF Posting, HandledBy, OneIf, HandledPcs
(* A thread goes on, and counts at most what it was counted for.           *)
<1>1. ASSUME NEW t \in Threads, NEW r, th' = [th EXCEPT ![t] = r], iorefs' = iorefs,
             r.pc # "post", th[t].pc \notin HandledPcs
      PROVE  RefsInv'
  BY <1>0, <1>1, RefsStep
<1>2. ASSUME th' = th, iorefs' = iorefs PROVE RefsInv'
  BY <1>2 DEF RefsInv, ThreadsOf
<1>3. ASSUME NEW t \in Threads, NEW r, th' = [th EXCEPT ![t] = r], Unref(th[t].conn),
             r.pc # "post",
             \/ th[t].pc \in UnrefPcs \ HandledPcs
             \/ th[t].pc = "handled" /\ r.pc = "idle"
             \/ th[t].pc = "nextunref" /\ r.pc = "handled" /\ r.conn = th[t].conn
      PROVE  RefsInv'
  <2>1. \A u \in Threads \ {t} : th'[u] = th[u]
    BY <1>3
  <2>2. ASSUME NEW c \in Conns
        PROVE  iorefs'[c] + Posting(th', c) - HandledBy(th'[t], c)
                 <= iorefs[c] + Posting(th, c) - HandledBy(th[t], c)
    BY <1>0, <1>3 DEF Unref, UnrefPcs
  <2> QED BY <1>0, <2>1, <2>2, RefsStep
<1>4. ASSUME NEW t \in Threads, NEW r, th' = [th EXCEPT ![t] = r],
             iorefs' = [iorefs EXCEPT ![th[t].conn] = @ + 1], r.pc # "post",
             \/ t = App /\ th[t].pc = "post"
             \/ t # App /\ th[t].pc = "nextrecv" /\ r.pc \in HandledPcs /\ r.conn = th[t].conn
             \/ t # App /\ th[t].pc = "firstrecv"
      PROVE  RefsInv'
  <2>1. \A u \in Threads \ {t} : th'[u] = th[u]
    BY <1>4
  <2>2. CASE th[t].pc # "firstrecv"
    <3>1. ASSUME NEW c \in Conns
          PROVE  iorefs'[c] + Posting(th', c) - HandledBy(th'[t], c)
                   <= iorefs[c] + Posting(th, c) - HandledBy(th[t], c)
      BY <1>0, <1>4, <2>2
    <3> QED BY <1>0, <2>1, <3>1, RefsStep
  <2>3. CASE th[t].pc = "firstrecv" /\ t # App
    <3>1. iorefs[th[t].conn] = 0 /\ th[t].conn \in Conns /\ th[App].conn # th[t].conn
      <4>1. th[t].conn \in Conns
        BY <2>3 DEF RecordsInv
      <4>2. /\ \A u \in Threads \ {t} : th[u].conn # th[t].conn
            /\ \A x \in Ctxs : ov[x].st # "off" => ov[x].conn # th[t].conn
        BY <2>3 DEF LifeInv, AloneInv, Alone
      <4> QED BY <1>0, <2>3, <4>1, <4>2, NoReference DEF HandlingPcs, UnrefPcs
    <3>2. ASSUME NEW c \in Conns
          PROVE  \/ iorefs'[c] + Posting(th', c) <= IoRefMax + 1
                 \/ iorefs'[c] + Posting(th', c) - HandledBy(th'[t], c)
                      <= iorefs[c] + Posting(th, c) - HandledBy(th[t], c)
      <4>1. CASE c = th[t].conn
        BY <1>0, <1>4, <2>3, <3>1, <4>1
      <4>2. CASE c # th[t].conn
        BY <1>0, <1>4, <2>3, <3>1, <4>2
      <4> QED BY <4>1, <4>2
    <3> QED BY <1>0, <2>1, <3>2, RefsStep
  <2> QED BY <1>4, <2>2, <2>3
<1>5. CASE AppSendWithinLimit
  <2>1. /\ th'[App].pc = "post" /\ th'[App].conn = th[App].conn /\ iorefs' = iorefs
        /\ \A u \in Threads \ {App} : th'[u] = th[u]
        /\ th[App].pc = "send" /\ iorefs[th[App].conn] <= IoRefMax
    BY <1>0, <1>5 DEF AppSendWithinLimit, Goto, At, connVars
  <2>2. ASSUME NEW c \in Conns
        PROVE  \/ iorefs'[c] + Posting(th', c) <= IoRefMax + 1
               \/ iorefs'[c] + Posting(th', c) - HandledBy(th'[App], c)
                    <= iorefs[c] + Posting(th, c) - HandledBy(th[App], c)
    BY <1>0, <2>1
  <2> QED BY <1>0, <2>1, <2>2, RefsStep
<1> USE DEF Goto, Return, At, Idle
<1>6. ASSUME NEW t \in Threads, NEW r, r.pc \in {"idle", "update"}, Accept(t, r),
             th[t].pc \in {"idle", "starting"}
      PROVE  RefsInv'
  BY <1>1, <1>6 DEF Accept, AcceptPosted, AcceptRefused, AcceptWithout
<1>7. ASSUME NEW t \in Threads, AcceptGivesUp(t) PROVE RefsInv'
  BY <1>1, <1>7 DEF AcceptGivesUp, connVars
<1>8. CASE MainNext
  <2>1. Main \in Threads
    BY DEF Threads
  <2>2. CASE Start \/ Stop
    BY <1>1, <1>2, <2>1, <2>2 DEF Start, Stop, connVars
  <2> QED BY <1>6, <1>7, <1>8, <2>1, <2>2 DEF MainNext, StartAccept
<1>9. ASSUME NEW w \in Workers, WorkerNext(w) PROVE RefsInv'
  <2>0. w \in Threads /\ w # App
    BY SetsAssumption DEF Threads
  <2>1. CASE DequeueAccept(w) \/ DequeueFailedAccept(w) \/ AcceptGivesUp(w)
    BY <1>2, <1>6, <1>7, <2>0, <2>1 DEF DequeueAccept, DequeueFailedAccept, connVars
  <2>2. CASE UpdateAccept(w) \/ UpdateAcceptFails(w) \/ RejectConnection(w) \/ EndAccept(w)
    BY <1>1, <2>0, <2>2 DEF UpdateAccept, UpdateAcceptFails, RejectConnection, EndAccept, connVars
  <2>3. CASE FirstRecv(w) \/ NextRecv(w)
    BY <1>4, <2>0, <2>3 DEF FirstRecv, NextRecv, Post, PostFails
  <2>4. CASE FirstUnref(w) \/ NextUnref(w) \/ EndHandling(w)
    BY <1>3, <2>0, <2>4 DEF FirstUnref, NextUnref, EndHandling, UnrefPcs
  <2>5. ASSUME NEW x \in Ctxs, DequeueData(w, x) \/ DequeueEof(w, x) \/ DequeueSent(w, x) PROVE RefsInv'
    BY <1>1, <2>0, <2>5 DEF DequeueData, DequeueEof, DequeueSent, connVars
  <2>6. ASSUME NEW c \in Conns, DequeueDisconnect(w, c) PROVE RefsInv'
    BY <1>2, <2>6 DEF DequeueDisconnect
  <2> QED BY <1>9, <2>1, <2>2, <2>3, <2>4, <2>5, <2>6 DEF WorkerNext
<1>10. CASE AppNext
  <2>1. CASE AppSendOversize \/ AppSendOverLimit
    BY <1>0, <1>1, <2>1 DEF AppSendOversize, AppSendOverLimit, connVars
  <2>2. CASE AppSendPost
    BY <1>0, <1>4, <2>2 DEF AppSendPost, Post, PostFails
  <2>3. CASE AppSendUnref
    <3>1. /\ th[App].pc \in UnrefPcs \ HandledPcs /\ Unref(th[App].conn)
          /\ th' = [th EXCEPT ![App] = Idle] /\ Idle.pc # "post"
      BY <2>3 DEF AppSendUnref, UnrefPcs
    <3> HIDE DEF Idle, HandledPcs
    <3> QED BY <1>0, <1>3, <3>1
  <2>4. ASSUME NEW c \in Conns, AppSend(c) \/ AppDisconnect(c) \/ AppClose(c) PROVE RefsInv'
    BY <1>0, <1>1, <1>2, <2>4 DEF AppSend, AppDisconnect, AppClose, connVars
  <2> QED BY <1>5, <1>10, <2>1, <2>2, <2>3, <2>4 DEF AppNext
<1>11. CASE KernelNext \/ UNCHANGED vars
  BY <1>2, <1>11 DEF KernelNext, ConnectionArrives, AcceptExFails, RequestSucceeds, RequestFails,
                     DisconnectCompletes, vars, connVars, ctxVars
<1> QED BY <1>8, <1>9, <1>10, <1>11 DEF Next

LEMMA RefsAreBounded ==
  ASSUME TypeOK, LifeInv, RefsInv
  PROVE  IoRefsBounded
<1> SUFFICES ASSUME NEW c \in Conns PROVE iorefs[c] <= IoRefMax + 1 + Cardinality(Workers)
  BY DEF IoRefsBounded
<1> DEFINE S == ThreadsOf(th, HandledPcs, c)
<1>1. S \subseteq Workers
  BY DEF LifeInv, KindsInv, KindOK, ThreadsOf, HandledPcs, TalkPcs, Threads
<1>2. Cardinality(S) <= Cardinality(Workers) /\ Cardinality(S) \in Nat /\ Cardinality(Workers) \in Nat
  BY <1>1, SetsAssumption, FS_Subset, FS_CardinalityType
<1>3. iorefs[c] + Posting(th, c) <= IoRefMax + 1 + Cardinality(S)
  BY DEF RefsInv
<1>4. iorefs[c] \in Int /\ IoRefMax \in Nat /\ Posting(th, c) \in 0 .. 1
  BY NumbersAssumption DEF TypeOK, Posting, OneIf
<1> HIDE DEF S
<1> QED BY <1>2, <1>3, <1>4

(* The limit that AsyncSend tests without holding it is exceeded by one    *)
(* send and by what the workers have in hand, and by no more.              *)
THEOREM ReferencesBounded == Patient => (Spec => []IoRefsBounded)
<1>1. Init => RefsInv
  <2> SUFFICES ASSUME Init, NEW c \in Conns
               PROVE  iorefs[c] = 0 /\ Posting(th, c) = 0 /\ ThreadsOf(th, HandledPcs, c) = {}
    BY FS_EmptySet, NumbersAssumption DEF RefsInv
  <2> QED BY DEF Init, Posting, OneIf, ThreadsOf, HandledPcs, Idle, Threads
<1>2. ASSUME Patient PROVE Spec => []IoRefsBounded
  <2>1. TypeOK /\ RecordsInv /\ IoRefsExact /\ LifeInv /\ RefsInv /\ [Next]_vars => RefsInv'
    BY NextRefsInv
  <2>2. TypeOK /\ LifeInv /\ RefsInv => IoRefsBounded
    BY RefsAreBounded
  <2> QED BY <1>1, <1>2, <2>1, <2>2, LifeOfSpec, PTL DEF Spec
<1> QED BY <1>2

------------------------------------------------------------------------------
(* No connection is lost to the server                                     *)

Found(c) ==
  \/ c \in Listed \/ acc.conn = c \/ phase[c] # "idle"
  \/ \E w \in Workers : th[w].conn = c /\ th[w].pc = "update"

LEMMA FoundStep ==
  ASSUME TypeOK, \A c \in Conns : sock'[c] # "none" /\ (sock[c] # "none" => Found(c)) => Found(c)',
         ConnectionsConserved
  PROVE  ConnectionsConserved'
  BY DEF ConnectionsConserved, Fresh, Found

LEMMA NextConserved ==
  ASSUME TypeOK, RecordsInv, IoRefsExact, LifeInv, ~Refusing', AccInv, acc.st # "bad",
         "UpdateAccept" \notin Faults, ConnectionsConserved, [Next]_vars
  PROVE  ConnectionsConserved'
<1> USE LifeTypes DEF Goto, Return
<1>0. /\ App \in Threads /\ Main \in Threads /\ \A w \in Workers : w \in Threads
      /\ App \notin Workers /\ Main \notin Workers
  BY SetsAssumption DEF Threads
(* What is neither listed nor accepted on nor announced is not touched.    *)
<1>1. ASSUME UNCHANGED <<freeConnection, phase, sock>>, acc'.conn = acc.conn,
             \A w \in Workers : th[w].pc = "update" => th'[w] = th[w]
      PROVE  ConnectionsConserved'
  <2>1. Listed' = Listed
    BY <1>1, ListKept
  <2> QED BY <1>1, <2>1, FoundStep DEF Found
<1>2. ASSUME NEW t \in Threads, NEW r, th' = [th EXCEPT ![t] = r], th[t].pc # "update",
             UNCHANGED <<freeConnection, phase, sock, acc>>
      PROVE  ConnectionsConserved'
  BY <1>0, <1>1, <1>2
<1>3. ASSUME NEW c \in Conns, phase'[c] # "idle", \A d \in Conns \ {c} : phase'[d] = phase[d],
             UNCHANGED <<freeConnection, sock, acc>>,
             \A w \in Workers : th[w].pc = "update" => th'[w] = th[w] \/ th[w].conn = c
      PROVE  ConnectionsConserved'
  <2>1. Listed' = Listed
    BY <1>3, ListKept
  <2> QED BY <1>3, <2>1, FoundStep DEF Found
<1>4. ASSUME NEW t \in Threads, NEW r, Accept(t, r),
             \/ t = Main /\ th[t].pc = "starting" /\ acc.conn = NoConn
             \/ t \in Workers /\ r.pc = "update" /\ r.conn = acc.conn /\ th[t].pc = "idle"
      PROVE  ConnectionsConserved'
  <2>1. ~AcceptRefused(t, r)
    BY DEF AcceptRefused, Goto, At, Refusing
  <2>2. th'[t] = r /\ phase' = phase /\ \A u \in Threads \ {t} : th'[u] = th[u]
    BY <1>4, <2>1 DEF Accept, AcceptPosted, AcceptWithout
  <2>3. PICK c \in MaybeConn :
          \/ c = NoConn /\ acc' = Off /\ UNCHANGED <<sock, freeConnection>>
          \/ /\ c \in Conns /\ acc' = InKernel(c) /\ sock'[c] = "idle"
             /\ \A d \in Conns \ {c} : sock'[d] = sock[d]
             /\ phase[c] = "idle" /\ c # acc.conn /\ sock[c] # "connected"
             /\ Listed' = Listed \ {c} /\ Acyclic(freeConnection)'
    BY <1>4, <2>1, AcceptTakes DEF Accept
  <2>4. acc'.conn = c /\ \A d \in Conns \ {c} : sock'[d] = sock[d] /\ (d \in Listed => d \in Listed')
    BY <2>3, ListKept, SetsAssumption DEF Off, InKernel
  <2>5. ASSUME NEW d \in Conns, d # c, Found(d) PROVE Found(d)'
    <3>1. CASE acc.conn = d
      BY <1>0, <1>4, <2>2, <3>1, SetsAssumption DEF Found
    <3>2. ASSUME NEW w \in Workers, th[w].conn = d, th[w].pc = "update" PROVE Found(d)'
      BY <1>0, <1>4, <2>2, <3>2 DEF Found
    <3> QED BY <2>2, <2>4, <2>5, <3>1, <3>2 DEF Found
  <2>6. c \in Conns => Found(c)'
    BY <2>4 DEF Found
  <2> QED BY <2>4, <2>5, <2>6, FoundStep
<1>5. ASSUME NEW t \in Threads, AcceptGivesUp(t) PROVE FALSE
  BY <1>0, <1>5, SetsAssumption
     DEF AcceptGivesUp, LifeInv, KindsInv, KindOK, Threads, AcceptPcs, HandlingPcs, TalkPcs
<1>6. CASE MainNext
  <2>1. CASE Start \/ Stop
    BY <1>0, <1>1, <1>2, <2>1 DEF Start, Stop, connVars, ctxVars
  <2>2. CASE StartAccept
    <3>1. acc.conn = NoConn
      <4>1. accIorefs = 0 /\ accIorefs >= AccCount(acc, th) /\ AccCount(acc, th) \in Nat
        BY <2>2, AccCountType DEF StartAccept, AccInv
      <4>2. AccCount(acc, th) = 0
        BY <4>1
      <4> QED BY <4>2, AccCountType DEF LifeInv, KindsInv
    <3> QED BY <1>0, <1>4, <2>2, <3>1 DEF StartAccept
  <2> QED BY <1>0, <1>5, <1>6, <2>1, <2>2 DEF MainNext
<1>7. ASSUME NEW w \in Workers, WorkerNext(w) PROVE ConnectionsConserved'
  <2>1. CASE DequeueAccept(w)
    BY <1>0, <1>4, <2>1 DEF DequeueAccept, At
  <2>2. ~DequeueFailedAccept(w) /\ ~UpdateAcceptFails(w) /\ ~AcceptGivesUp(w)
    BY <1>0, <1>5 DEF DequeueFailedAccept, UpdateAcceptFails
  <2>3. CASE UpdateAccept(w)
    <3>1. th[w].conn \in Conns /\ \A u \in Threads \ {w} : th'[u] = th[u]
      BY <1>0, <2>3 DEF UpdateAccept, RecordsInv
    <3>2. phase'[th[w].conn] # "idle" /\ \A d \in Conns \ {th[w].conn} : phase'[d] = phase[d]
      BY <2>3, <3>1 DEF UpdateAccept
    <3> QED BY <1>0, <1>3, <2>3, <3>1, <3>2 DEF UpdateAccept, accVars
  <2>4. CASE RejectConnection(w) \/ FirstUnref(w) \/ EndAccept(w) \/ NextUnref(w) \/ EndHandling(w)
    BY <1>0, <1>2, <2>4
       DEF RejectConnection, FirstUnref, EndAccept, NextUnref, EndHandling, connVars, accVars
  <2>5. CASE FirstRecv(w) \/ NextRecv(w)
    BY <1>0, <1>2, <2>5 DEF FirstRecv, NextRecv, Post, PostFails, accVars
  <2>6. ASSUME NEW x \in Ctxs, DequeueData(w, x) PROVE ConnectionsConserved'
    <3>1. ov[x].conn \in Conns /\ \A u \in Threads \ {w} : th'[u] = th[u]
      BY <1>0, <2>6 DEF DequeueData, RecordsInv
    <3>2. phase'[ov[x].conn] # "idle" /\ \A d \in Conns \ {ov[x].conn} : phase'[d] = phase[d]
      BY <2>6, <3>1 DEF DequeueData
    <3> QED BY <1>0, <1>3, <2>6, <3>1, <3>2 DEF DequeueData, accVars
  <2>7. ASSUME NEW x \in Ctxs, DequeueEof(w, x) \/ DequeueSent(w, x) PROVE ConnectionsConserved'
    BY <1>0, <1>2, <2>7 DEF DequeueEof, DequeueSent, connVars, accVars
  <2>8. ASSUME NEW c \in Conns, DequeueDisconnect(w, c) PROVE ConnectionsConserved'
    <3>1. phase'[c] # "idle" /\ \A d \in Conns \ {c} : phase'[d] = phase[d]
      BY <2>8 DEF DequeueDisconnect
    <3> QED BY <1>3, <2>8, <3>1 DEF DequeueDisconnect, accVars, ctxVars
  <2> QED BY <1>7, <2>1, <2>2, <2>3, <2>4, <2>5, <2>6, <2>7, <2>8 DEF WorkerNext
<1>8. CASE AppNext
  <2>1. CASE AppSendOversize \/ AppSendOverLimit \/ AppSendWithinLimit \/ AppSendUnref
    BY <1>0, <1>2, <2>1
       DEF AppSendOversize, AppSendOverLimit, AppSendWithinLimit, AppSendUnref, connVars, accVars
  <2>2. CASE AppSendPost
    BY <1>0, <1>2, <2>2 DEF AppSendPost, Post, PostFails, accVars
  <2>3. ASSUME NEW c \in Conns, AppSend(c) \/ AppDisconnect(c) PROVE ConnectionsConserved'
    BY <1>0, <1>1, <1>2, <2>3 DEF AppSend, AppDisconnect, connVars, accVars, ctxVars
  <2>4. ASSUME NEW c \in Conns, AppClose(c) PROVE ConnectionsConserved'
    <3>1. phase[c] = "lost" /\ c \notin Listed /\ Quiet(c)
      BY <2>4, LifeClosesQuiet DEF AppClose, LifeInv, FreeInv, CloseAssertion
    <3>2. Listed' = Listed \cup {c}
      BY <2>4, <3>1, PushedFree DEF AppClose, Listed
    <3>3. UNCHANGED <<sock, acc, th>> /\ \A d \in Conns \ {c} : phase'[d] = phase[d]
      BY <2>4 DEF AppClose, ctxVars
    <3> QED BY <3>2, <3>3, FoundStep DEF Found
  <2> QED BY <1>8, <2>1, <2>2, <2>3, <2>4 DEF AppNext
<1>9. CASE KernelNext \/ UNCHANGED vars
  <2>1. CASE ConnectionArrives
    <3>1. /\ acc'.conn = acc.conn /\ UNCHANGED <<phase, freeConnection, th>>
          /\ \A d \in Conns \ {acc.conn} : sock'[d] = sock[d]
      BY <2>1 DEF ConnectionArrives, ctxVars, RequestRecords
    <3>2. Listed' = Listed
      BY <3>1, ListKept
    <3> QED BY <3>1, <3>2, FoundStep DEF Found
  <2>2. ASSUME NEW c \in Conns, DisconnectCompletes(c) PROVE ConnectionsConserved'
    <3>1. /\ phase[c] # "idle" /\ UNCHANGED <<phase, freeConnection, acc, th>>
          /\ \A d \in Conns \ {c} : sock'[d] = sock[d]
      BY <2>2 DEF DisconnectCompletes, accVars, ctxVars, LifeInv, PhasesInv, ConnPhase
    <3>2. Listed' = Listed
      BY <3>1, ListKept
    <3> QED BY <3>1, <3>2, FoundStep DEF Found
  <2>3. CASE AcceptExFails
    BY <1>1, <2>3 DEF AcceptExFails, connVars, ctxVars, RequestRecords
  <2> QED
    BY <1>1, <1>9, <2>1, <2>2, <2>3 DEF KernelNext, RequestSucceeds, RequestFails, vars,
                                        connVars, accVars
<1> QED BY <1>6, <1>7, <1>8, <1>9 DEF Next

(* When only DisconnectEx may fail and sends may be oversized, the life of *)
(* a connection is a cycle: nothing is accepted on, or closed, before its  *)
(* last use is over, and none is forgotten by EasyWorker, by EasyAcceptor  *)
(* and by the application together.                                        *)
THEOREM ConnectionsRecycled ==
  Patient /\ "AcceptDone" \notin Faults /\ "UpdateAccept" \notin Faults => (Spec => []Recycled)
<1>1. ASSUME Patient, "AcceptDone" \notin Faults, "UpdateAccept" \notin Faults PROVE Spec => []Recycled
  <2> DEFINE Inv == TypeOK /\ RecordsInv /\ PlacesInv /\ IoRefsExact /\ LifeInv /\ ~Refusing
             Good == AccInv /\ acc.st # "bad"
  <2>1. Spec => []Inv
    BY <1>1, LifeOfSpec
  <2>2. Init => Good /\ ConnectionsConserved
    BY InitAccInv DEF Init, ConnectionsConserved, Fresh
  <2>3. Inv /\ Good /\ [Next]_vars => Good'
    <3> SUFFICES ASSUME Inv, Good, [Next]_vars PROVE AccInv' /\ acc'.st # "bad"
      OBVIOUS
    <3>1. \A w \in Workers : ~DequeueFailedAccept(w)
      BY DEF DequeueFailedAccept
    <3> QED BY <1>1, <3>1, NextAccStep, NextAccInv DEF AccStep
  <2>4. Inv /\ Inv' /\ Good /\ ConnectionsConserved /\ [Next]_vars => ConnectionsConserved'
    BY <1>1, NextConserved
  <2>5. Inv /\ ConnectionsConserved => Recycled
    BY LifeIsQuiescent, LifeClosesQuiet DEF Recycled
  <2> HIDE DEF Inv, Good
  <2> QED BY <2>1, <2>2, <2>3, <2>4, <2>5, PTL DEF Spec
<1> QED BY <1>1


------------------------------------------------------------------------------
(* Any failure: a connection given back twice, and nothing else, ends the  *)
(* cycle                                                                   *)

Endless(l) == From(l, l.head) # {} /\ \A d \in From(l, l.head) : l.next[d] \in Conns

LEMMA FromNull ==
  ASSUME NEW l, NEW c, c \notin Conns
  PROVE  From(l, c) = {}
<1>1. Closed(l, {})
  BY DEF Closed
<1> QED BY <1>1, FromIsLeast

LEMMA EndlessIs ==
  ASSUME NEW l \in FreeLists
  PROVE  Endless(l) <=> ~(From(l, l.head) # {} => \E c \in From(l, l.head) : l.next[c] = NoConn)
<1>1. \A d \in From(l, l.head) : l.next[d] \in Conns \cup {NoConn}
  BY FromIsClosed DEF FreeLists, MaybeConn
<1> QED BY <1>1, SetsAssumption DEF Endless

LEMMA EndlessPopped ==
  ASSUME NEW l \in FreeLists, Endless(l)
  PROVE  l.head \in Conns /\ Endless(SPop(l))
<1> DEFINE m == SPop(l)
<1>1. m.head = l.next[l.head] /\ m.next = l.next
  BY DEF SPop, FreeLists
<1>2. l.head \in Conns
  BY FromNull DEF Endless
<1>3. l.next[l.head] \in From(l, l.head) /\ l.next[l.head] \in Conns
  BY <1>2, FromIsClosed DEF Endless, Closed
<1>4. From(l, l.next[l.head]) \subseteq From(l, l.head)
  BY <1>3, FromIsClosed, FromIsLeast
<1>5. From(m, m.head) = From(l, l.next[l.head])
  BY <1>1, FromSame
<1>6. l.next[l.head] \in From(l, l.next[l.head])
  BY <1>3, FromIsClosed
<1> HIDE DEF m
<1>7. Endless(m)
  BY <1>1, <1>4, <1>5, <1>6 DEF Endless
<1> QED BY <1>2, <1>7 DEF m

LEMMA EndlessPushed ==
  ASSUME NEW l \in FreeLists, Endless(l), NEW c \in Conns
  PROVE  Endless(SPush(l, c))
<1> DEFINE m == SPush(l, c)  S == From(l, l.head) \cup {c}
<1>1. m.head = c /\ m.next[c] = l.head /\ \A d \in Conns \ {c} : m.next[d] = l.next[d]
  BY DEF SPush, FreeLists
<1>2. l.head \in Conns /\ l.head \in From(l, l.head)
  BY FromNull, FromIsClosed DEF Endless
<1>3. S \in SUBSET Conns /\ c \in S /\ \A d \in S : m.next[d] \in S
  BY <1>1, <1>2, FromIsClosed DEF Endless, Closed
<1> HIDE DEF m, S
<1>4. From(m, c) \subseteq S
  BY <1>3, FromIsLeast DEF Closed
<1>5. c \in From(m, c)
  BY FromIsClosed
<1>6. Endless(m)
  BY <1>1, <1>3, <1>4, <1>5 DEF Endless
<1> QED BY <1>6 DEF m

(* A connection pushed while it is listed comes after itself.              *)
LEMMA TwicePushed ==
  ASSUME NEW l \in FreeLists, NEW c \in From(l, l.head)
  PROVE  Endless(SPush(l, c))
<1> DEFINE m == SPush(l, c)  S == {d \in From(l, l.head) : c \in From(l, d)}
<1>0. c \in Conns /\ l.head \in Conns /\ S \in SUBSET Conns
  BY FromIsClosed, FromNull
<1>1. m.head = c /\ m.next[c] = l.head /\ \A d \in Conns \ {c} : m.next[d] = l.next[d]
  BY <1>0 DEF SPush, FreeLists
<1>2. c \in S /\ l.head \in S
  BY <1>0, FromIsClosed
<1>3. ASSUME NEW d \in S PROVE m.next[d] \in S
  <2>1. CASE d = c
    BY <1>1, <1>2, <2>1
  <2>2. CASE d # c
    <3>1. d \in Conns /\ d \in From(l, l.head) /\ c \in From(l, l.next[d])
      BY <1>0, <2>2, FromNext
    <3>2. l.next[d] \in Conns
      BY <3>1, FromNull
    <3>3. l.next[d] \in From(l, l.head)
      BY <3>1, <3>2, FromIsClosed DEF Closed
    <3> QED BY <1>1, <2>2, <3>1, <3>3
  <2> QED BY <2>1, <2>2
<1> HIDE DEF m, S
<1>4. From(m, c) \subseteq S
  BY <1>0, <1>2, <1>3, FromIsLeast DEF Closed
<1>5. c \in From(m, c)
  BY <1>0, FromIsClosed
<1>6. Endless(m)
  BY <1>0, <1>1, <1>3, <1>4, <1>5 DEF Endless
<1> QED BY <1>6 DEF m

(* At most one accept is refused at a time, with a connection.             *)
RefusedInv ==
  \A t \in Threads :
    th[t].pc = "refused" => acc.conn \in Conns /\ \A u \in Threads : th[u].pc = "refused" => u = t

(* A connection has been given back twice, or once and again soon.         *)
Twice == ~ListEnds \/ (Refusing /\ acc.conn \in Listed)

LEMMA NobodyRefused ==
  ASSUME TypeOK, AccInv, NEW t \in Threads, NEW r, Accepts(t, r)
  PROVE  ~Refusing
<1>1. CASE accIorefs = 0
  <2>1. AccCount(acc, th) = 0
    BY <1>1, AccCountType DEF AccInv
  <2> QED BY <2>1, AccCountType DEF Refused, Refusing
<1>2. CASE acc.st = "ok"
  BY <1>2 DEF AccInv, Refused, Refusing
<1> QED BY <1>1, <1>2 DEF Accepts

LEMMA NextRefusedInv ==
  ASSUME TypeOK, AccInv, RefusedInv, [Next]_vars
  PROVE  RefusedInv'
<1> USE LifeTypes
<1>1. CASE GoesOn
  BY <1>1 DEF GoesOn, RefusedInv, AccInv, Refused
<1>2. ASSUME NEW c \in Conns, AppClose(c) PROVE RefusedInv'
  BY <1>2 DEF AppClose, RefusedInv
<1>3. ASSUME NEW t \in Threads, AcceptGivesUp(t) PROVE RefusedInv'
  BY <1>3 DEF AcceptGivesUp, RefusedInv, Return, Goto, Idle, At
<1>4. ASSUME NEW t \in Threads, NEW r, Accepts(t, r) PROVE RefusedInv'
  <2>1. ~Refusing /\ r.pc # "refused"
    BY <1>4, NobodyRefused DEF Accepts
  <2>2. CASE AcceptPosted(t, r) \/ AcceptWithout(t, r)
    BY <2>1, <2>2 DEF AcceptPosted, AcceptWithout, Refusing, RefusedInv
  <2>3. CASE AcceptRefused(t, r)
    BY <2>1, <2>3, CandidatesAndRemaining DEF AcceptRefused, Goto, Off, Refusing, RefusedInv
  <2> QED BY <1>4, <2>2, <2>3 DEF Accepts, Accept
<1> QED BY <1>1, <1>2, <1>3, <1>4, AcceptorSteps

(* Close, and Accept when AcceptEx fails at once, both push the connection.*)
LEMMA RefusedTwice ==
  ASSUME TypeOK, RecordsInv, IoRefsExact, LifeInv, ~Refusing, [Next]_vars, Refusing'
  PROVE  Twice'
<1> USE LifeTypes
<1>1. ~GoesOn
  BY DEF GoesOn, Refusing
<1>2. \A c \in Conns : ~AppClose(c)
  BY DEF AppClose, Refusing
<1>3. \A t \in Threads : ~AcceptGivesUp(t)
  BY DEF AcceptGivesUp, Refusing
<1>4. PICK t \in Threads : \E r : Accepts(t, r)
  BY <1>1, <1>2, <1>3, AcceptorSteps
<1>5. PICK r : Accepts(t, r)
  BY <1>4
<1>6. ~AcceptPosted(t, r) /\ ~AcceptWithout(t, r)
  BY <1>5 DEF Accepts, AcceptPosted, AcceptWithout, Refusing
<1>7. PICK c \in Candidates :
        /\ TakeConnection(c, IF Quiet(c) THEN SPush(Remaining, c) ELSE Remaining)
        /\ acc' = [Off EXCEPT !.conn = c]
  BY <1>5, <1>6 DEF Accepts, Accept, AcceptRefused
<1>8. c \in Conns /\ Remaining \in FreeLists
  BY CandidatesAndRemaining
<1>9. Quiet(c)
  <2>1. CASE Reusing
    <3>1. c \in Listed
      BY <1>8, <2>1, FromIsClosed DEF Candidates, Listed
    <3> QED BY <3>1, LifeIsQuiescent DEF FreeIsQuiescent
  <2>2. CASE ~Reusing
    <3>1. sock[c] = "none" /\ phase[c] = "idle"
      BY <1>8, <2>2 DEF Candidates, Fresh, LifeInv, PhasesInv, ConnPhase
    <3>2. /\ connected[c] = 0
          /\ \A x \in Ctxs : ov[x].st # "off" => ov[x].conn # c
          /\ \A u \in Threads : th[u].conn # c
      BY <1>8, <3>1, IdleIsUnused
    <3> QED BY <1>8, <3>2, NoReference DEF Quiet
  <2> QED BY <2>1, <2>2
<1>10. freeConnection' = SPush(Remaining, c) /\ acc'.conn = c
  BY <1>7, <1>9 DEF TakeConnection, Off
<1>11. freeConnection'.head = c
  BY <1>10 DEF SPush
<1>12. c \in Listed'
  BY <1>8, <1>11, FromIsClosed DEF Listed
<1> QED BY <1>10, <1>12 DEF Twice

LEMMA StaysTwice ==
  ASSUME TypeOK, TypeOK', AccInv, RefusedInv, Twice, [Next]_vars
  PROVE  Twice'
<1> USE LifeTypes
<1>0. /\ Endless(freeConnection) <=> ~ListEnds
      /\ Endless(freeConnection') => ~ListEnds'
  <2>1. freeConnection' \in FreeLists
    BY DEF TypeOK, FreeLists
  <2>2. Endless(freeConnection) <=> ~ListEnds
    BY EndlessIs DEF ListEnds, Listed
  <2>3. Endless(freeConnection') => ~ListEnds'
    BY <2>1, EndlessIs DEF ListEnds, Listed
  <2> QED BY <2>2, <2>3
<1>1. CASE GoesOn
  BY <1>1, ListKept DEF GoesOn, Twice, ListEnds, Refusing, AccInv, Refused
<1>2. ASSUME NEW c \in Conns, AppClose(c) PROVE Twice'
  <2>1. CASE freeConnection' = freeConnection
    BY <1>2, <2>1, ListKept DEF AppClose, Twice, ListEnds, Refusing
  <2>2. CASE freeConnection' = SPush(freeConnection, c)
    <3>1. CASE ~ListEnds
      BY <1>0, <2>2, <3>1, EndlessPushed DEF Twice
    <3>2. CASE c \in Listed
      BY <1>0, <2>2, <3>2, TwicePushed DEF Twice, Listed
    <3>3. CASE Refusing /\ acc.conn \in Listed /\ c \notin Listed
      <4>1. Listed' = Listed \cup {c}
        BY <2>2, <3>3, PushedFree DEF Listed
      <4> QED BY <1>2, <3>3, <4>1 DEF AppClose, Twice, Refusing
    <3> QED BY <3>1, <3>2, <3>3 DEF Twice
  <2> QED BY <1>2, <2>1, <2>2 DEF AppClose
<1>3. ASSUME NEW t \in Threads, AcceptGivesUp(t) PROVE Twice'
  <2>1. acc.conn \in Conns /\ freeConnection' = SPush(freeConnection, acc.conn)
    BY <1>3 DEF AcceptGivesUp, RefusedInv
  <2>2. Endless(freeConnection')
    BY <1>0, <2>1, EndlessPushed, TwicePushed DEF Twice, Listed
  <2> QED BY <1>0, <2>2 DEF Twice
<1>4. ASSUME NEW t \in Threads, NEW r, Accepts(t, r) PROVE Twice'
  <2>1. Endless(freeConnection)
    BY <1>0, <1>4, NobodyRefused DEF Twice
  <2>2. freeConnection.head \in Conns /\ Endless(SPop(freeConnection))
    BY <2>1, EndlessPopped
  <2>3. Endless(Remaining) /\ Remaining \in FreeLists /\ Candidates \subseteq Conns
    BY <2>1, <2>2, CandidatesAndRemaining DEF Remaining
  <2>4. \/ freeConnection' \in {freeConnection, Remaining}
        \/ \E c \in Conns : freeConnection' = SPush(Remaining, c)
    BY <1>4, <2>3 DEF Accepts, Accept, AcceptPosted, AcceptRefused, AcceptWithout, TakeConnection
  <2>5. Endless(freeConnection')
    BY <2>1, <2>3, <2>4, EndlessPushed
  <2> QED BY <1>0, <2>5 DEF Twice
<1> QED BY <1>1, <1>2, <1>3, <1>4, AcceptorSteps

(* Whatever accepts, socket updates, requests and disconnects fail: as     *)
(* long as no connection has been given back twice, by EasyConnection::    *)
(* Close and by EasyAcceptor::Accept, what ReusedWhenQuiescent,            *)
(* ReceivesInOrder and CallbacksInOrder say of a server without such       *)
(* failures holds of this one.                                             *)
THEOREM SoundUntilGivenBackTwice == ~Eager => (Spec => PartialSound)
<1> DEFINE Inv == TypeOK /\ RecordsInv /\ PlacesInv /\ IoRefsExact
           Lives == LifeInv \/ Twice
           Refusal == AccInv /\ RefusedInv
<1>1. Init => Inv /\ Refusal /\ Lives
  <2>1. Init => RefusedInv
    BY DEF Init, RefusedInv, Idle
  <2> QED
    BY <2>1, InitTypeOK, InitRecordsInv, InitPlacesInv, InitIoRefsExact, InitAccInv, InitLife
<1>2. Inv /\ [Next]_vars => Inv'
  BY NextTypeOK, NextRecordsInv, NextPlacesInv, NextIoRefsExact
<1>3. Inv /\ Refusal /\ [Next]_vars => Refusal'
  BY NextAccInv, NextRefusedInv
<1>4. LifeInv => ~Refusing
  BY SetsAssumption
     DEF LifeInv, KindsInv, KindOK, Refusing, Threads, AcceptPcs, HandlingPcs, TalkPcs
<1>5. ASSUME ~Eager, Inv, Inv', Refusal, Lives, [Next]_vars PROVE Lives'
  <2>1. CASE Twice
    BY <1>5, <2>1, StaysTwice
  <2>2. CASE LifeInv /\ Refusing'
    BY <1>4, <1>5, <2>2, RefusedTwice
  <2>3. CASE LifeInv /\ ~Refusing'
    <3>1. CASE Next
      BY <1>5, <2>3, <3>1, NextLife
    <3>2. CASE UNCHANGED vars
      BY <2>3, <3>2, LifeKept DEF vars, connVars, accVars, ctxVars
    <3> QED BY <1>5, <3>1, <3>2
  <2> QED BY <1>5, <2>1, <2>2, <2>3
<1>6. Lives /\ ~GivenBackTwice => LifeInv /\ ~Refusing
  BY DEF GivenBackTwice, Twice, Refusing
<1>7. Inv /\ Lives => (~GivenBackTwice => FreeIsQuiescent /\ CloseAssertion /\ OneReceive)
  BY <1>6, LifeIsQuiescent, LifeClosesQuiet, LifeReceivesOnce
<1>8. ASSUME ~Eager PROVE Inv /\ Lives /\ [Next]_vars => [~GivenBackTwice => Protocol!Next]_phase
  BY <1>6, <1>8, ProtocolStep
<1> HIDE DEF Inv, Lives, Refusal
<1>9. ASSUME ~Eager PROVE Spec => PartialSound
  <2>1. Inv /\ Inv' /\ Refusal /\ Lives /\ [Next]_vars => Lives'
    BY <1>5, <1>9
  <2>2. Inv /\ Lives /\ [Next]_vars => [~GivenBackTwice => Protocol!Next]_phase
    BY <1>8, <1>9
  <2> QED BY <1>1, <1>2, <1>3, <1>7, <2>1, <2>2, PTL DEF Spec, PartialSound
<1> QED BY <1>9
====
