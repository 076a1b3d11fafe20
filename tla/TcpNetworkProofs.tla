------------------------------ MODULE TcpNetworkProofs ------------------------------
(***************************************************************************)
(* Proofs about TcpNetwork: its callbacks, and that nothing is used that   *)
(* was freed, for any number of connections and workers, any sizes of the  *)
(* pools, any failures and a program that tears down at any time; for an   *)
(* application that uses a connection only after its first data (~Eager).  *)
(***************************************************************************)
EXTENDS TcpNetwork, FiniteSetTheorems, TLAPS

OneIf(b) == IF b THEN 1 ELSE 0

------------------------------------------------------------------------------
(* The inductive invariant                                                 *)

Records == [connected : {0, 1}, iorefs : Int, peer : BOOLEAN,
            own : {"off", "connecting", "connectok", "connectbad",
                   "disconnecting", "disconnected"},
            recv : {"off", "kernel", "data", "eof"}, sends : Nat, sent : Nat]
ThreadRecords == [pc : {"idle", "update", "firstrecv", "reject", "firstunref", "accepted",
                        "failed", "unref", "left"},
                  conn : Conns \cup {NoConn}]
Accepts == [req : {"off", "kernel", "ok"}, conn : Conns \cup {NoConn}, iorefs : Int,
            running : {0, 1}]
FreeLists == [head : Conns \cup {NoConn}, next : [Conns -> Conns \cup {NoConn}],
              depth : Int, total : 0 .. TotalMod - 1]
Pools == [made : Nat, listed : Nat]

(* Types, without the signs of what is counted down.                       *)
Types ==
  /\ life \in [Conns -> {"none", "alive", "deleted"}]
  /\ conn \in [Conns -> Records]
  /\ phase \in [Conns -> {"idle", "rejected", "open", "talking", "lost", "failed"}]
  /\ acc \in Accepts /\ free \in FreeLists /\ closes \in 0 .. CloseMax
  /\ inPool \in Pools /\ outPool \in Pools
  /\ th \in [Workers -> ThreadRecords]
  /\ main \in {"created", "serving", "waitaccepts", "waitlist", "drain", "delworker",
               "waitin", "waitout", "done"}

(* What the application was told of a connection fits its life, its flag,  *)
(* its own overlapped request and the requests on it.                      *)
In(r) == OneIf(r.recv # "off")
Out(r) == r.sends + r.sent

Connecting == {"connecting", "connectok", "connectbad"}
Fits(c, l, r, s) ==
  /\ l # "alive" => r.connected = 0 /\ r.own = "off" /\ s \in {"idle", "failed"}
  /\ l = "none" => s = "idle"
  /\ r.connected = 1 =>
       r.own = "off" /\ s \notin {"lost", "failed"} /\ (s = "idle" => c \in Clients)
  /\ r.own \in Connecting => c \in Clients /\ s = "idle"
  /\ r.own \in {"disconnecting", "disconnected"} => s \in {"rejected", "open", "talking"}
  /\ In(r) + Out(r) > 0 => s \in {"open", "talking"}
  /\ s = "failed" => c \in Clients

ConnOK(c) == Fits(c, life[c], conn[c], phase[c])

(* A thread has a connection in hand that nobody else deals with, as it is *)
(* for instance when OnConnection was called and nothing was posted yet,   *)
(* or one that it still counts down.                                       *)
Counting == {"unref", "firstunref"}
Held == {"firstrecv", "reject"}
Alone == {"update", "failed"} \cup Held

Unused(r) == r.connected = 1 /\ In(r) = 0 /\ Out(r) = 0
Told(pc) == IF pc = "firstrecv" THEN "open" ELSE "rejected"

ThreadOK(w) ==
  /\ th[w].pc \in {"idle", "accepted", "left"} => th[w].conn = NoConn
  /\ th[w].pc = "update" =>
       /\ th[w].conn \in Servers /\ life[th[w].conn] = "alive" /\ phase[th[w].conn] = "idle"
       /\ th[w].conn # acc.conn
  /\ th[w].pc = "failed" =>
       /\ th[w].conn \in Clients /\ life[th[w].conn] = "alive" /\ phase[th[w].conn] = "failed"
  /\ th[w].pc \in Held =>
       /\ th[w].conn \in Conns /\ phase[th[w].conn] = Told(th[w].pc)
       /\ Unused(conn[th[w].conn])
  /\ th[w].pc \in Counting => th[w].conn \in Conns /\ phase[th[w].conn] \in {"open", "talking"}
  /\ th[w].pc \in Alone => \A u \in Workers : th[u].conn = th[w].conn => u = w

AccOK ==
  /\ acc.req = "off" => acc.conn = NoConn
  /\ acc.req # "off" =>
       acc.conn \in Servers /\ life[acc.conn] = "alive" /\ phase[acc.conn] = "idle"
  /\ main = "created" => acc.req = "off"

(* As long as an accept may be posted the free list is a stack of depth_   *)
(* connections that nobody deals with.                                     *)
Stack(f) ==
  /\ free.head = IF free.depth = 0 THEN NoConn ELSE f[free.depth]
  /\ \A i \in 1 .. free.depth :
       /\ free.next[f[i]] = IF i = 1 THEN NoConn ELSE f[i - 1]
       /\ \A j \in 1 .. free.depth : f[i] = f[j] => i = j
       /\ life[f[i]] = "alive" /\ phase[f[i]] = "idle"
       /\ f[i] # acc.conn /\ \A w \in Workers : th[w].conn # f[i]

FreeOK ==
  /\ free.depth >= 0
  /\ main = "created" \/ acc.req # "off" => \E f \in [1 .. free.depth -> Servers] : Stack(f)

(* The application waits for the first data of a connection.               *)
Patient == ~Eager

LifeInv ==
  /\ Patient
  /\ (\A c \in Conns : ConnOK(c)) /\ (\A w \in Workers : ThreadOK(w)) /\ AccOK /\ FreeOK

(* iorefs_ of a connection and of the acceptor count what is outstanding.  *)
Unreffing(f, c) == {w \in Workers : f[w].pc \in Counting /\ f[w].conn = c}
Balance(r) == r.iorefs - In(r) - Out(r)
Accepting(f) == {w \in Workers : HandlesAccept(f[w])}

RefsInv ==
  /\ \A c \in Conns : Balance(conn[c]) = Cardinality(Unreffing(th, c))
  /\ acc.iorefs = OneIf(acc.req # "off") + Cardinality(Accepting(th))

(* What a pool has made and not listed is what the requests use, or more   *)
(* when oversized sends have lost some; and who frees it is alone.         *)
Receiving(g) == {c \in Conns : g[c].recv # "off"}
Sending(g) == UNION {{<<c, k>> : k \in 1 .. Out(g[c])} : c \in Conns}

PoolsInv ==
  /\ IF main \in {"waitout", "done"} THEN Receiving(conn) = {} /\ inPool.listed = 0
     ELSE inPool.made = inPool.listed + Cardinality(Receiving(conn))
  /\ IsFiniteSet(Sending(conn))
  /\ IF main = "done" THEN Sending(conn) = {} /\ outPool.listed = 0
     ELSE outPool.made >= outPool.listed + Cardinality(Sending(conn))

EndInv ==
  /\ AcceptorFreedUnused
  /\ main \in {"waitin", "waitout", "done"} => \A w \in Workers : th[w].pc = "left"

Inv == Types /\ LifeInv /\ RefsInv /\ PoolsInv /\ EndInv

------------------------------------------------------------------------------
(* Types                                                                   *)

LEMMA ModRange == TotalMod \in Nat \ {0} /\ \A n \in Int : n % TotalMod \in 0 .. TotalMod - 1
<1>1. TotalMod \in Nat /\ TotalMod > 0
  BY TcpAssumption
<1> QED BY <1>1

LEMMA ActionRecords ==
  /\ Idle \in ThreadRecords
  /\ \A pc \in Alone \cup Counting \cup {"accepted", "left"}, c \in Conns \cup {NoConn} :
       At(pc, c) \in ThreadRecords
  /\ \A c : After(c) \in ThreadRecords
  BY DEF Idle, At, After, ThreadRecords, Alone, Held, Counting

(* r with other counts and another state of the receive.                  *)
Made(d, r, i, v, s, t) ==
  /\ d \in Records /\ d.iorefs = i /\ d.recv = v /\ d.sends = s /\ d.sent = t
  /\ d.connected = r.connected /\ d.own = r.own /\ d.peer = r.peer

LEMMA CountingUp ==
  ASSUME NEW r \in Records
  PROVE  /\ Made([r EXCEPT !.iorefs = @ + 1, !.recv = "kernel"], r, r.iorefs + 1, "kernel", r.sends, r.sent)
         /\ Made([r EXCEPT !.iorefs = @ + 1, !.sends = @ + 1], r, r.iorefs + 1, r.recv, r.sends + 1, r.sent)
         /\ r.sends > 0 => Made([r EXCEPT !.sends = @ - 1, !.sent = @ + 1], r, r.iorefs, r.recv, r.sends - 1, r.sent + 1)
<1>1. PICK i \in Int, s \in Nat, u \in Nat : i = r.iorefs + 1 /\ s = r.sends + 1 /\ u = r.sent + 1
  BY DEF Records
<1>2. [r EXCEPT !.iorefs = @ + 1, !.recv = "kernel"] = [r EXCEPT !.iorefs = i, !.recv = "kernel"]
  BY <1>1
<1>3. [r EXCEPT !.iorefs = @ + 1, !.sends = @ + 1] = [r EXCEPT !.iorefs = i, !.sends = s]
  BY <1>1
<1>5. Made([r EXCEPT !.iorefs = i, !.recv = "kernel"], r, i, "kernel", r.sends, r.sent)
  BY DEF Records, Made
<1>6. Made([r EXCEPT !.iorefs = i, !.sends = s], r, i, r.recv, s, r.sent)
  BY DEF Records, Made
<1>8. ASSUME r.sends > 0
      PROVE  Made([r EXCEPT !.sends = @ - 1, !.sent = @ + 1], r, r.iorefs, r.recv, r.sends - 1, r.sent + 1)
  <2>1. PICK n \in Nat : n = r.sends - 1
    BY <1>8 DEF Records
  <2>2. [r EXCEPT !.sends = @ - 1, !.sent = @ + 1] = [r EXCEPT !.sends = n, !.sent = u]
    BY <1>1, <2>1
  <2>3. Made([r EXCEPT !.sends = n, !.sent = u], r, r.iorefs, r.recv, n, u)
    BY DEF Records, Made
  <2> QED BY <1>1, <2>1, <2>2, <2>3
<1> QED BY <1>1, <1>2, <1>3, <1>5, <1>6, <1>8

(* What AsyncDisconnect makes of a connection.                             *)
LEMMA Disconnected ==
  ASSUME NEW r \in Records, NEW d \in AsyncDisconnect(r)
  PROVE  /\ d \in Records /\ d.connected = 0
         /\ d.own = r.own \/ (r.connected = 1 /\ d.own = "disconnecting")
         /\ d.iorefs = r.iorefs /\ d.recv = r.recv /\ d.sends = r.sends /\ d.sent = r.sent
<1>1. CASE r.connected = 0
  BY <1>1 DEF AsyncDisconnect, Records
<1>2. CASE r.connected # 0
  <2>1. \/ d = [r EXCEPT !.connected = 0, !.own = "disconnecting"]
        \/ d = [r EXCEPT !.connected = 0]
    BY <1>2 DEF AsyncDisconnect
  <2> QED BY <1>2, <2>1 DEF Records
<1> QED BY <1>1, <1>2

(* How many contexts a pool lacks, and after one was popped or pushed.     *)
Lacks(p) == p.made - p.listed

LEMMA PoolSteps ==
  ASSUME NEW p \in Pools
  PROVE  /\ Lacks(p) \in Int
         /\ Pushed(p) \in Pools /\ Lacks(Pushed(p)) = Lacks(p) - 1
         /\ \A max : \A q \in Pops(p, max) : q \in Pools /\ Lacks(q) = Lacks(p) + 1
<1>1. p.made \in Nat /\ p.listed \in Nat
  BY DEF Pools
<1>2. /\ Pushed(p) = [made |-> p.made, listed |-> p.listed + 1]
      /\ \A max, q : q \in Pops(p, max) =>
           \/ q = [made |-> p.made, listed |-> p.listed - 1] /\ p.listed > 0
           \/ q = [made |-> p.made + 1, listed |-> p.listed]
  BY DEF Pools, Pushed, Pops
<1> QED BY <1>1, <1>2 DEF Pools, Lacks

(* r is what a connection is, d what a call makes of it.                   *)
Becomes(r, d) ==
  /\ d \in Records /\ d.sends = r.sends /\ d.sent = r.sent
  /\ \/ d.connected = r.connected /\ d.own = r.own
     \/ d.connected = 0 /\ d.own = r.own
     \/ d.connected = 0 /\ r.connected = 1 /\ d.own = "disconnecting"
  /\ d.recv \in {"off", "kernel"} /\ d.iorefs = r.iorefs + OneIf(d.recv # "off")

AsyncRecv(c, r, pool) == RecvPends(c, r, pool) \/ RecvRefused(c, r, pool)

LEMMA Received ==
  ASSUME NEW c, NEW r \in Records, r.recv = "off", NEW p \in Pools, AsyncRecv(c, r, p)
  PROVE  /\ inPool' \in Pools
         /\ \E d : /\ Becomes(r, d) /\ conn' = [conn EXCEPT ![c] = d]
                   /\ Lacks(inPool') = Lacks(p) - 1 + OneIf(d.recv # "off")
<1>1. ASSUME conn' = [conn EXCEPT ![c] = [r EXCEPT !.iorefs = @ + 1, !.recv = "kernel"]], inPool' = p
      PROVE  \E d : /\ Becomes(r, d) /\ conn' = [conn EXCEPT ![c] = d]
                    /\ Lacks(inPool') = Lacks(p) - 1 + OneIf(d.recv # "off")
  <2> DEFINE d == [r EXCEPT !.iorefs = @ + 1, !.recv = "kernel"]
  <2>1. Made(d, r, r.iorefs + 1, "kernel", r.sends, r.sent)
    BY CountingUp
  <2>2. conn' = [conn EXCEPT ![c] = d]
    BY <1>1
  <2>3. Lacks(inPool') = Lacks(p) - 1 + 1
    BY <1>1, PoolSteps
  <2> HIDE DEF d
  <2> QED BY <2>1, <2>2, <2>3 DEF OneIf, Becomes, Made
<1>2. ASSUME NEW d \in AsyncDisconnect(r), conn' = [conn EXCEPT ![c] = d], inPool' = Pushed(p)
      PROVE  /\ Becomes(r, d) /\ conn' = [conn EXCEPT ![c] = d]
             /\ Lacks(inPool') = Lacks(p) - 1 + OneIf(d.recv # "off")
  <2>1. Becomes(r, d) /\ d.recv = "off"
    BY Disconnected DEF Becomes, OneIf, Records
  <2>2. Lacks(inPool') = Lacks(p) - 1 + 0
    BY <1>2, PoolSteps
  <2> QED BY <1>2, <2>1, <2>2 DEF OneIf
<1>3. inPool' \in Pools
  BY PoolSteps DEF AsyncRecv, RecvPends, RecvRefused
<1> QED BY <1>1, <1>2, <1>3 DEF AsyncRecv, RecvPends, RecvRefused

------------------------------------------------------------------------------
(* What every action does to the record of a connection and to the pools   *)

(* c becomes d; b threads more have to count it down; what the pools lack  *)
(* is still what the requests use, or more of the output contexts.         *)
Step(c, d, b) ==
  /\ conn' = [conn EXCEPT ![c] = d] /\ d \in Records
  /\ Balance(d) = Balance(conn[c]) + b
  /\ inPool' \in Pools /\ outPool' \in Pools
  /\ Lacks(inPool') - In(d) = Lacks(inPool) - In(conn[c])
  /\ Lacks(outPool') - Out(d) >= Lacks(outPool) - Out(conn[c])
  /\ Out(d) - Out(conn[c]) \in {-1, 0, 1}

(* The application and the threads may end a connection, nothing else.     *)
Ends(r, d) ==
  \/ d.connected = r.connected /\ d.own = r.own
  \/ d.connected = 0 /\ d.own = r.own
  \/ r.connected = 1 /\ d.connected = 0 /\ d.own = "disconnecting"

SameRequests(r, d) == In(d) = In(r) /\ Out(d) = Out(r)

LEMMA Numbers ==
  /\ \A r \in Records : /\ r.iorefs \in Int /\ r.sends \in Nat /\ r.sent \in Nat
                        /\ In(r) \in {0, 1} /\ Out(r) \in Nat /\ Balance(r) \in Int
                        /\ In(r) = 0 <=> r.recv = "off"
  /\ \A p \in Pools : Lacks(p) \in Int
BY DEF Records, Pools, Lacks, In, Out, Balance, OneIf

LEMMA SendStep ==
  ASSUME Types, NEW c \in Conns, Send(c)
  PROVE  \E d : Step(c, d, 0) /\ Ends(conn[c], d) /\ In(d) = In(conn[c])
<1> DEFINE r == conn[c]
<1>1. r \in Records /\ inPool \in Pools /\ outPool \in Pools
  BY DEF Types
<1>2. PICK p \in Pops(outPool, OutMax) : AsyncSend(c, r, p)
  BY DEF Send
<1>3. p \in Pools /\ Lacks(p) = Lacks(outPool) + 1 /\ Pushed(p) \in Pools /\ Lacks(Pushed(p)) = Lacks(outPool)
  BY <1>1, PoolSteps, Numbers
<1>4. inPool' = inPool
  BY DEF Send
<1>5. CASE conn' = [conn EXCEPT ![c] = [r EXCEPT !.iorefs = @ + 1, !.sends = @ + 1]] /\ outPool' = p
  <2> DEFINE d == [r EXCEPT !.iorefs = @ + 1, !.sends = @ + 1]
  <2>1. Made(d, r, r.iorefs + 1, r.recv, r.sends + 1, r.sent)
    BY <1>1, CountingUp
  <2>2. conn' = [conn EXCEPT ![c] = d]
    BY <1>5
  <2> HIDE DEF d, r
  <2>3. In(d) = In(r) /\ Out(d) = Out(r) + 1 /\ Balance(d) = Balance(r)
    BY <1>1, <2>1, Numbers DEF Made, In, Out, Balance, Records
  <2>4. Lacks(outPool') - Out(d) >= Lacks(outPool) - Out(r) /\ Out(d) - Out(r) = 1
    BY <1>1, <1>3, <1>5, <2>3, Numbers
  <2>5. Balance(d) = Balance(r) + 0 /\ inPool' \in Pools /\ outPool' \in Pools
    BY <1>1, <1>3, <1>4, <1>5, <2>3, Numbers
  <2>6. Lacks(inPool') - In(d) = Lacks(inPool) - In(r)
    BY <1>4, <2>3
  <2>7. Step(c, d, 0)
    BY <2>1, <2>2, <2>4, <2>5, <2>6 DEF Step, Made, r
  <2> QED BY <2>1, <2>3, <2>7 DEF Ends, Made, r
<1>6. ASSUME NEW d \in AsyncDisconnect(r), conn' = [conn EXCEPT ![c] = d], outPool' = Pushed(p)
      PROVE  Step(c, d, 0) /\ Ends(conn[c], d) /\ In(d) = In(conn[c])
  <2>1. /\ d \in Records /\ Ends(r, d) /\ In(d) = In(r) /\ Out(d) = Out(r) /\ Balance(d) = Balance(r)
    BY <1>1, Disconnected DEF Ends, In, Out, Balance
  <2> QED BY <1>1, <1>3, <1>4, <1>6, <2>1, Numbers DEF Step
<1>7. CASE conn' = conn /\ outPool' = p
  <2>1. conn' = [conn EXCEPT ![c] = r]
    BY <1>7 DEF Types
  <2>2. Lacks(outPool') - Out(r) >= Lacks(outPool) - Out(r)
    BY <1>1, <1>3, <1>7, Numbers
  <2>3. /\ Balance(r) = Balance(r) + 0 /\ inPool' \in Pools /\ outPool' \in Pools
        /\ Lacks(inPool') - In(r) = Lacks(inPool) - In(r) /\ Out(r) - Out(r) = 0
    BY <1>1, <1>3, <1>4, <1>7, Numbers
  <2>4. Step(c, r, 0)
    BY <1>1, <2>1, <2>2, <2>3 DEF Step
  <2> QED BY <2>4 DEF Ends
<1> QED BY <1>2, <1>5, <1>6, <1>7 DEF AsyncSend

LEMMA DisconnectStep ==
  ASSUME Types, NEW c \in Conns, NEW r \in Records, r.recv = conn[c].recv, Out(r) = Out(conn[c]),
         Balance(r) = Balance(conn[c]), NEW d \in AsyncDisconnect(r), conn' = [conn EXCEPT ![c] = d],
         UNCHANGED poolVars
  PROVE  Step(c, d, 0) /\ Ends(r, d) /\ SameRequests(r, d)
<1>1. d \in Records /\ Ends(r, d) /\ In(d) = In(r) /\ Out(d) = Out(r) /\ Balance(d) = Balance(r)
  BY Disconnected DEF Ends, In, Out, Balance
<1> QED BY <1>1, Numbers DEF Step, SameRequests, Types, poolVars, In

LEMMA RecvStep ==
  ASSUME Types, NEW w \in Workers, NEW c \in Conns, DequeueRecv(w, c)
  PROVE  \E d : Step(c, d, 1) /\ Ends(conn[c], d)
<1> DEFINE r == [conn[c] EXCEPT !.recv = "off"]
<1>1. conn[c] \in Records /\ inPool \in Pools /\ outPool \in Pools /\ outPool' = outPool
  BY DEF Types, DequeueRecv
<1>2. /\ r \in Records /\ r.recv = "off" /\ r.iorefs = conn[c].iorefs /\ r.own = conn[c].own
      /\ r.connected = conn[c].connected /\ r.sends = conn[c].sends /\ r.sent = conn[c].sent
  BY <1>1 DEF Records
<1>3. In(conn[c]) = 1 /\ In(r) = 0
  BY <1>2 DEF In, OneIf, DequeueRecv
<1>4. \/ AsyncRecv(c, r, inPool)
      \/ (\E d \in AsyncDisconnect(r) : conn' = [conn EXCEPT ![c] = d]) /\ inPool' = Pushed(inPool)
  BY DEF DequeueRecv, AsyncRecv
<1> HIDE DEF r
<1>5. CASE AsyncRecv(c, r, inPool)
  <2>1. PICK d : /\ Becomes(r, d) /\ conn' = [conn EXCEPT ![c] = d]
                 /\ Lacks(inPool') = Lacks(inPool) - 1 + OneIf(d.recv # "off")
    BY <1>1, <1>2, <1>5, Received
  <2>2. inPool' \in Pools
    BY <1>1, <1>2, <1>5, Received
  <2>3. Out(d) = Out(conn[c]) /\ Balance(d) = Balance(conn[c]) + 1 /\ Ends(conn[c], d)
    BY <1>1, <1>2, <1>3, <2>1, Numbers DEF Becomes, Out, Balance, In, Ends
  <2>4. Step(c, d, 1)
    BY <1>1, <1>3, <2>1, <2>2, <2>3, Numbers DEF Step, Becomes, In
  <2> QED BY <2>3, <2>4
<1>6. ASSUME NEW d \in AsyncDisconnect(r), conn' = [conn EXCEPT ![c] = d], inPool' = Pushed(inPool)
      PROVE  Step(c, d, 1) /\ Ends(conn[c], d)
  <2>1. d \in Records /\ Ends(conn[c], d) /\ In(d) = 0 /\ Out(d) = Out(conn[c])
        /\ Balance(d) = Balance(conn[c]) + 1
    BY <1>1, <1>2, <1>3, Disconnected, Numbers DEF Ends, In, Out, Balance
  <2>2. inPool' \in Pools /\ Lacks(inPool') = Lacks(inPool) - 1
    BY <1>1, <1>6, PoolSteps
  <2> QED BY <1>1, <1>3, <1>6, <2>1, <2>2, Numbers DEF Step
<1> QED BY <1>4, <1>5, <1>6

LEMMA SentStep ==
  ASSUME Types, NEW w \in Workers, NEW c \in Conns, DequeueSent(w, c)
  PROVE  \E d : /\ Step(c, d, 1) /\ d.connected = conn[c].connected /\ d.own = conn[c].own
                /\ In(d) = In(conn[c])
<1> DEFINE r == conn[c] d == [r EXCEPT !.sent = @ - 1]
<1>1. r \in Records /\ inPool \in Pools /\ outPool \in Pools /\ inPool' = inPool /\ r.sent > 0
  BY DEF Types, DequeueSent
<1>2. PICK n \in Nat : n = r.sent - 1
  BY <1>1, Numbers
<1>3. d = [r EXCEPT !.sent = n]
  BY <1>2
<1>4. /\ d \in Records /\ d.sent = n /\ d.recv = r.recv /\ d.iorefs = r.iorefs /\ d.sends = r.sends
      /\ d.connected = r.connected /\ d.own = r.own
  BY <1>1, <1>3 DEF Records
<1>5. conn' = [conn EXCEPT ![c] = d] /\ outPool' = Pushed(outPool)
  BY DEF DequeueSent
<1> HIDE DEF d, r
<1>6. In(d) = In(r) /\ Out(d) = Out(r) - 1 /\ Balance(d) = Balance(r) + 1
  BY <1>1, <1>2, <1>4, Numbers DEF In, Out, Balance
<1>7. outPool' \in Pools /\ Lacks(outPool') = Lacks(outPool) - 1
  BY <1>1, <1>5, PoolSteps
<1>8. Step(c, d, 1)
  BY <1>1, <1>4, <1>5, <1>6, <1>7, Numbers DEF Step, r
<1> QED BY <1>4, <1>6, <1>8 DEF r

(* A step that touches neither the counts nor the pools.                   *)
LEMMA PlainStep ==
  ASSUME Types, NEW c \in Conns, NEW d \in Records, conn' = [conn EXCEPT ![c] = d],
         d.iorefs = conn[c].iorefs, d.recv = "off" <=> conn[c].recv = "off",
         Out(d) = Out(conn[c]), UNCHANGED poolVars
  PROVE  Step(c, d, 0) /\ SameRequests(conn[c], d)
<1>1. In(d) = In(conn[c]) /\ Balance(d) = Balance(conn[c])
  BY DEF In, Balance
<1> QED BY <1>1, Numbers DEF Step, SameRequests, Types, poolVars

LEMMA UnrefStep ==
  ASSUME Types, LifeInv, NEW w \in Workers, Unref(w) \/ FirstUnref(w)
  PROVE  /\ th[w].conn \in Conns
         /\ \E d : /\ Step(th[w].conn, d, -1) /\ SameRequests(conn[th[w].conn], d)
                   /\ d.connected = conn[th[w].conn].connected /\ d.own = conn[th[w].conn].own
<1> DEFINE c == th[w].conn r == conn[c] d == [r EXCEPT !.iorefs = @ - 1]
<1>1. c \in Conns
  BY DEF LifeInv, ThreadOK, Counting, Unref, FirstUnref
<1>2. r \in Records /\ inPool \in Pools /\ outPool \in Pools /\ inPool' = inPool /\ outPool' = outPool
  BY <1>1 DEF Types, Unref, FirstUnref, poolVars
<1>3. /\ d \in Records /\ d.sent = r.sent /\ d.recv = r.recv /\ d.iorefs = r.iorefs - 1
      /\ d.sends = r.sends /\ d.connected = r.connected /\ d.own = r.own
  BY <1>2 DEF Records
<1>4. conn' = [conn EXCEPT ![c] = d]
  BY DEF Unref, FirstUnref
<1> HIDE DEF d, r
<1>5. In(d) = In(r) /\ Out(d) = Out(r) /\ Balance(d) = Balance(r) - 1
  BY <1>2, <1>3, Numbers DEF In, Out, Balance
<1>6. Step(c, d, -1)
  BY <1>2, <1>3, <1>4, <1>5, Numbers DEF Step, r
<1> QED BY <1>1, <1>3, <1>5, <1>6 DEF r, SameRequests

(* What a thread announces: c is open or rejected, or (a failed update)    *)
(* not announced at all; nothing is posted yet.                            *)
AnnounceStep(c, r) ==
  /\ Step(c, r, 0) /\ SameRequests(conn[c], r)
  /\ \E s \in {"idle", "open", "rejected"} :
       /\ phase' = [phase EXCEPT ![c] = s]
       /\ s = "idle" => phase' = phase

LEMMA AnnounceSteps ==
  ASSUME Types, NEW w, NEW c \in Conns, NEW r \in Records, Announce(w, c, r), phase[c] = "idle",
         conn[c].recv = "off", r.recv = "off", Out(r) = Out(conn[c]), r.iorefs = conn[c].iorefs,
         UNCHANGED poolVars
  PROVE  AnnounceStep(c, r) /\ phase' # phase
<1>1. Step(c, r, 0) /\ SameRequests(conn[c], r)
  BY PlainStep DEF Announce
<1>2. PICK s \in {"open", "rejected"} : phase' = [phase EXCEPT ![c] = s]
  BY DEF Announce
<1>3. phase' # phase
  BY <1>2 DEF Types
<1> QED BY <1>1, <1>2, <1>3 DEF AnnounceStep

LEMMA AcceptedStep ==
  ASSUME Types, LifeInv, NEW w \in Workers, UpdateAccept(w)
  PROVE  /\ th[w].conn \in Servers
         /\ \/ /\ AnnounceStep(th[w].conn, [conn[th[w].conn] EXCEPT !.connected = 1])
               /\ phase' # phase
            \/ UNCHANGED <<conn, phase, poolVars>>
<1> DEFINE c == th[w].conn r == [conn[c] EXCEPT !.connected = 1]
<1>1. c \in Servers /\ c \in Conns /\ phase[c] = "idle" /\ ConnOK(c)
  BY DEF LifeInv, ThreadOK, UpdateAccept, Conns
<1>2. conn[c] \in Records /\ In(conn[c]) + Out(conn[c]) <= 0
  BY <1>1, Numbers DEF Types, ConnOK, Fits
<1>3. /\ r \in Records /\ conn[c].recv = "off" /\ r.recv = conn[c].recv /\ r.iorefs = conn[c].iorefs
      /\ r.sends = conn[c].sends /\ r.sent = conn[c].sent
  BY <1>2, Numbers DEF Records
<1>4. \/ Announce(w, c, r)
      \/ UNCHANGED <<conn, phase>>
  BY DEF UpdateAccept
<1>5. UNCHANGED poolVars
  BY DEF UpdateAccept
<1> HIDE DEF r, c
<1>6. Out(r) = Out(conn[c])
  BY <1>3 DEF Out
<1>7. CASE Announce(w, c, r)
  BY <1>1, <1>3, <1>5, <1>6, <1>7, AnnounceSteps DEF r, c
<1>8. CASE UNCHANGED <<conn, phase>>
  BY <1>1, <1>5, <1>8 DEF c
<1> QED BY <1>4, <1>7, <1>8

LEMMA ConnectedStep ==
  ASSUME Types, LifeInv, NEW w \in Workers, NEW c \in Clients, DequeueConnect(w, c)
  PROVE  AnnounceStep(c, [conn[c] EXCEPT !.own = "off", !.connected = 1])
<1> DEFINE r == [conn[c] EXCEPT !.own = "off", !.connected = 1]
<1>1. c \in Conns /\ ConnOK(c) /\ conn[c] \in Records /\ conn[c].own = "connectok"
  BY DEF LifeInv, DequeueConnect, Conns, Types
<1>2. phase[c] = "idle" /\ In(conn[c]) + Out(conn[c]) <= 0 /\ conn[c].recv = "off"
  BY <1>1, Numbers DEF ConnOK, Fits, Connecting
<1>3. /\ r \in Records /\ r.recv = conn[c].recv /\ r.iorefs = conn[c].iorefs
      /\ r.sends = conn[c].sends /\ r.sent = conn[c].sent
  BY <1>1 DEF Records
<1>4. \/ Announce(w, c, r)
      \/ conn' = [conn EXCEPT ![c] = r] /\ UNCHANGED phase
  BY DEF DequeueConnect
<1>5. UNCHANGED poolVars
  BY DEF DequeueConnect
<1> HIDE DEF r
<1>6. Out(r) = Out(conn[c])
  BY <1>3 DEF Out
<1>7. CASE Announce(w, c, r)
  BY <1>1, <1>2, <1>3, <1>5, <1>6, <1>7, AnnounceSteps DEF r
<1>8. CASE conn' = [conn EXCEPT ![c] = r] /\ UNCHANGED phase
  <2>1. Step(c, r, 0) /\ SameRequests(conn[c], r)
    BY <1>1, <1>3, <1>5, <1>6, <1>8, PlainStep
  <2>2. phase' = [phase EXCEPT ![c] = "idle"]
    BY <1>2, <1>8 DEF Types
  <2> QED BY <1>8, <2>1, <2>2 DEF AnnounceStep, r
<1> QED BY <1>4, <1>7, <1>8

(* The first receive of a connection, and its end instead; b is 1 when the *)
(* thread has to count down a receive that was refused.                    *)
FirstStep(w, d, b) ==
  LET c == th[w].conn IN
  /\ Step(c, d, b) /\ Ends(conn[c], d) /\ Out(d) = Out(conn[c])
  /\ th[w].pc = "reject" => In(d) = In(conn[c])
  /\ \/ b = 0 /\ th' = [th EXCEPT ![w] = After(c)]
     \/ b = 1 /\ th' = [th EXCEPT ![w] = At("firstunref", c)] /\ th[w].pc = "firstrecv"

LEMMA FirstSteps ==
  ASSUME Types, LifeInv, NEW w \in Workers, FirstRecv(w) \/ Reject(w)
  PROVE  /\ th[w].conn \in Conns /\ phase[th[w].conn] = Told(th[w].pc)
         /\ \E b \in {0, 1} : \E d : FirstStep(w, d, b)
<1> DEFINE c == th[w].conn r == conn[c]
<1>1. th[w].pc \in Held /\ ThreadOK(w) /\ outPool' = outPool
  BY DEF FirstRecv, Reject, Held, LifeInv
<1>2. /\ c \in Conns /\ phase[c] = Told(th[w].pc) /\ Unused(r) /\ r \in Records
      /\ inPool \in Pools /\ outPool \in Pools
  BY <1>1 DEF ThreadOK, Types
<1>3. r.recv = "off" /\ In(r) = 0
  BY <1>2, Numbers DEF Unused
<1>4. ASSUME Drop(w, c) PROVE \E d : FirstStep(w, d, 0)
  <2>1. PICK d \in AsyncDisconnect(r) : conn' = [conn EXCEPT ![c] = d]
    BY <1>4 DEF Drop
  <2>2. UNCHANGED poolVars /\ th' = [th EXCEPT ![w] = After(c)]
    BY <1>1, <1>4 DEF Drop, poolVars
  <2>3. Step(c, d, 0) /\ Ends(r, d) /\ SameRequests(r, d)
    BY <1>2, <2>1, <2>2, DisconnectStep
  <2> QED BY <2>2, <2>3 DEF FirstStep, SameRequests
<1>5. ASSUME FirstRecv(w), ~Drop(w, c) PROVE \E b \in {0, 1} : \E d : FirstStep(w, d, b)
  <2>1. PICK p \in Pops(inPool, InMax) :
          \/ RecvPends(c, r, p) /\ th' = [th EXCEPT ![w] = After(c)]
          \/ /\ RecvRefused(c, [r EXCEPT !.iorefs = @ + 1], p)
             /\ th' = [th EXCEPT ![w] = At("firstunref", c)]
    BY <1>5 DEF FirstRecv
  <2>2. p \in Pools /\ Lacks(p) = Lacks(inPool) + 1 /\ Lacks(inPool) \in Int /\ th[w].pc = "firstrecv"
    BY <1>2, <1>5, PoolSteps DEF FirstRecv
  <2>3. CASE RecvPends(c, r, p) /\ th' = [th EXCEPT ![w] = After(c)]
    <3>1. AsyncRecv(c, r, p)
      BY <2>3 DEF AsyncRecv
    <3> HIDE DEF c, r
    <3>7. r \in Records /\ r.recv = "off" /\ p \in Pools
      BY <1>2, <1>3, <2>2
    <3>2. PICK d : /\ Becomes(r, d) /\ conn' = [conn EXCEPT ![c] = d]
                   /\ Lacks(inPool') = Lacks(p) - 1 + OneIf(d.recv # "off")
      BY <3>1, <3>7, Received
    <3>3. inPool' \in Pools
      BY <3>1, <3>7, Received
    <3>4. /\ d \in Records /\ Out(d) = Out(r) /\ Ends(r, d) /\ Balance(d) = Balance(r)
          /\ In(d) = OneIf(d.recv # "off")
      BY <1>2, <1>3, <3>2, Numbers DEF Becomes, Out, Balance, In, Ends
    <3>5. Lacks(inPool') - In(d) = Lacks(inPool) - In(r)
      BY <1>3, <2>2, <3>2, <3>4, Numbers
    <3>6. Step(c, d, 0)
      BY <1>1, <1>2, <3>2, <3>3, <3>4, <3>5, Numbers DEF Step, r
    <3> QED BY <2>2, <2>3, <3>4, <3>6 DEF FirstStep, c, r
  <2>4. CASE /\ RecvRefused(c, [r EXCEPT !.iorefs = @ + 1], p)
             /\ th' = [th EXCEPT ![w] = At("firstunref", c)]
    <3> DEFINE q == [r EXCEPT !.iorefs = @ + 1]
    <3>1. /\ q \in Records /\ q.recv = r.recv /\ q.iorefs = r.iorefs + 1 /\ q.own = r.own
          /\ q.connected = r.connected /\ q.sends = r.sends /\ q.sent = r.sent
      BY <1>2 DEF Records
    <3>2. PICK d \in AsyncDisconnect(q) : conn' = [conn EXCEPT ![c] = d]
      BY <2>4 DEF RecvRefused
    <3>3. inPool' = Pushed(p)
      BY <2>4 DEF RecvRefused
    <3> HIDE DEF q
    <3>4. /\ d \in Records /\ d.iorefs = q.iorefs /\ d.recv = r.recv /\ d.sends = r.sends
          /\ d.sent = r.sent /\ Ends(r, d)
      BY <3>1, Disconnected DEF Ends
    <3>5. In(d) = In(r) /\ Out(d) = Out(r) /\ Balance(d) = Balance(r) + 1
      BY <1>2, <3>1, <3>4, Numbers DEF In, Out, Balance
    <3>6. inPool' \in Pools /\ Lacks(inPool') = Lacks(inPool)
      BY <2>2, <3>3, PoolSteps
    <3>7. Step(c, d, 1)
      BY <1>1, <1>2, <3>2, <3>4, <3>5, <3>6, Numbers DEF Step
    <3> QED BY <2>2, <2>4, <3>4, <3>5, <3>7 DEF FirstStep
  <2> QED BY <2>1, <2>3, <2>4
<1> QED BY <1>2, <1>4, <1>5 DEF Reject

(* What the kernel and a Connect change, and the last packet of a          *)
(* connection: only own, and what a request is.                            *)
LEMMA KernelSteps ==
  ASSUME Types, LifeInv, NEW c \in Conns
  PROVE  /\ DataArrives(c) \/ RecvEnds(c) \/ SendCompletes(c) =>
              \E d : /\ Step(c, d, 0) /\ SameRequests(conn[c], d)
                     /\ d.own = conn[c].own /\ d.connected = conn[c].connected
         /\ DisconnectCompletes(c) =>
              \E d : /\ Step(c, d, 0) /\ SameRequests(conn[c], d)
                     /\ d.own = "disconnected" /\ d.connected = conn[c].connected
         /\ ConnectCompletes(c) =>
              \E d : /\ Step(c, d, 0) /\ SameRequests(conn[c], d)
                     /\ d.own \in {"connectok", "connectbad"} /\ d.connected = conn[c].connected
<1>1. conn[c] \in Records
  BY DEF Types
<1>2. ASSUME DataArrives(c) \/ RecvEnds(c)
      PROVE  \E d : /\ Step(c, d, 0) /\ SameRequests(conn[c], d)
                    /\ d.own = conn[c].own /\ d.connected = conn[c].connected
  <2>1. PICK v \in {"data", "eof"} : conn' = [conn EXCEPT ![c] = [conn[c] EXCEPT !.recv = v]]
    BY <1>2 DEF DataArrives, RecvEnds, Completes
  <2> DEFINE d == [conn[c] EXCEPT !.recv = v]
  <2>2. /\ d \in Records /\ d.iorefs = conn[c].iorefs /\ d.recv = v /\ d.sends = conn[c].sends
        /\ d.sent = conn[c].sent /\ d.own = conn[c].own /\ d.connected = conn[c].connected
    BY <1>1 DEF Records
  <2>3. conn[c].recv # "off" /\ UNCHANGED poolVars
    BY <1>2 DEF DataArrives, RecvEnds, Completes
  <2>4. conn' = [conn EXCEPT ![c] = d]
    BY <2>1
  <2> HIDE DEF d
  <2> QED BY <2>2, <2>3, <2>4, PlainStep DEF Out
<1>3. ASSUME SendCompletes(c)
      PROVE  \E d : /\ Step(c, d, 0) /\ SameRequests(conn[c], d)
                    /\ d.own = conn[c].own /\ d.connected = conn[c].connected
  <2> DEFINE r == conn[c] d == [r EXCEPT !.sends = @ - 1, !.sent = @ + 1]
  <2>1. conn' = [conn EXCEPT ![c] = d] /\ r.sends > 0 /\ UNCHANGED poolVars
    BY <1>3 DEF SendCompletes, Completes
  <2>2. Made(d, r, r.iorefs, r.recv, r.sends - 1, r.sent + 1)
    BY <1>1, <2>1, CountingUp
  <2> HIDE DEF d
  <2>3. Out(d) = Out(r)
    BY <1>1, <2>2, Numbers DEF Made, Out
  <2> QED BY <2>1, <2>2, <2>3, PlainStep DEF Made
<1>4. ASSUME DisconnectCompletes(c)
      PROVE  \E d : /\ Step(c, d, 0) /\ SameRequests(conn[c], d)
                    /\ d.own = "disconnected" /\ d.connected = conn[c].connected
  <2> DEFINE d == [conn[c] EXCEPT !.own = "disconnected", !.peer = FALSE]
  <2>1. /\ d \in Records /\ d.iorefs = conn[c].iorefs /\ d.recv = conn[c].recv /\ d.sends = conn[c].sends
        /\ d.sent = conn[c].sent /\ d.own = "disconnected" /\ d.connected = conn[c].connected
    BY <1>1 DEF Records
  <2>2. conn' = [conn EXCEPT ![c] = d] /\ UNCHANGED poolVars
    BY <1>4 DEF DisconnectCompletes, Completes
  <2> HIDE DEF d
  <2> QED BY <2>1, <2>2, PlainStep DEF Out
<1>5. ASSUME ConnectCompletes(c)
      PROVE  \E d : /\ Step(c, d, 0) /\ SameRequests(conn[c], d)
                    /\ d.own \in {"connectok", "connectbad"} /\ d.connected = conn[c].connected
  <2>1. PICK o \in {"connectok", "connectbad"}, p \in BOOLEAN :
           conn' = [conn EXCEPT ![c] = [conn[c] EXCEPT !.own = o, !.peer = p]]
    <3>1. CASE Completes(c, [conn[c] EXCEPT !.own = "connectok", !.peer = TRUE])
      BY <3>1 DEF Completes
    <3>2. CASE Completes(c, [conn[c] EXCEPT !.own = "connectbad"])
      <4>1. [conn[c] EXCEPT !.own = "connectbad"] = [conn[c] EXCEPT !.own = "connectbad", !.peer = conn[c].peer]
        BY <1>1 DEF Records
      <4> QED BY <1>1, <3>2, <4>1 DEF Completes, Records
    <3> QED BY <1>5, <3>1, <3>2 DEF ConnectCompletes
  <2> DEFINE d == [conn[c] EXCEPT !.own = o, !.peer = p]
  <2>2. /\ d \in Records /\ d.iorefs = conn[c].iorefs /\ d.recv = conn[c].recv /\ d.sends = conn[c].sends
        /\ d.sent = conn[c].sent /\ d.own = o /\ d.connected = conn[c].connected
    BY <1>1 DEF Records
  <2>3. conn' = [conn EXCEPT ![c] = d] /\ UNCHANGED poolVars
    BY <1>5, <2>1 DEF ConnectCompletes, Completes
  <2> HIDE DEF d
  <2> QED BY <2>2, <2>3, PlainStep DEF Out
<1> QED BY <1>2, <1>3, <1>4, <1>5

LEMMA OwnStep ==
  ASSUME Types, NEW c \in Conns, NEW o \in {"off", "connecting"}, UNCHANGED poolVars,
         conn' = [conn EXCEPT ![c].own = o]
  PROVE  \E d : /\ Step(c, d, 0) /\ SameRequests(conn[c], d)
                /\ d.own = o /\ d.connected = conn[c].connected
<1> DEFINE d == [conn[c] EXCEPT !.own = o]
<1>1. /\ d \in Records /\ d.iorefs = conn[c].iorefs /\ d.recv = conn[c].recv /\ d.sends = conn[c].sends
      /\ d.sent = conn[c].sent /\ d.own = o /\ d.connected = conn[c].connected
  BY DEF Types, Records
<1>2. conn' = [conn EXCEPT ![c] = d]
  BY DEF Types
<1> HIDE DEF d
<1> QED BY <1>1, <1>2, PlainStep DEF Out

LEMMA ArrivalStep ==
  ASSUME Types, LifeInv, ClientArrives
  PROVE  /\ acc.conn \in Servers
         /\ \E d : /\ Step(acc.conn, d, 0) /\ SameRequests(conn[acc.conn], d)
                   /\ d.own = conn[acc.conn].own /\ d.connected = conn[acc.conn].connected
<1> DEFINE c == acc.conn d == [conn[c] EXCEPT !.peer = TRUE]
<1>1. c \in Servers /\ c \in Conns /\ UNCHANGED poolVars /\ conn[c] \in Records
  BY DEF LifeInv, AccOK, ClientArrives, Conns, Types
<1>2. /\ d \in Records /\ d.iorefs = conn[c].iorefs /\ d.recv = conn[c].recv /\ d.sends = conn[c].sends
      /\ d.sent = conn[c].sent /\ d.own = conn[c].own /\ d.connected = conn[c].connected
  BY <1>1 DEF Records
<1>3. conn' = [conn EXCEPT ![c] = d]
  BY <1>1 DEF Types, ClientArrives
<1> HIDE DEF d, c
<1> QED BY <1>1, <1>2, <1>3, PlainStep DEF Out, c

------------------------------------------------------------------------------
(* Every step keeps types and what a connection is told                    *)

ConnTypes ==
  /\ life \in [Conns -> {"none", "alive", "deleted"}]
  /\ conn \in [Conns -> Records]
  /\ phase \in [Conns -> {"idle", "rejected", "open", "talking", "lost", "failed"}]
  /\ inPool \in Pools /\ outPool \in Pools

ConnsOK == ConnTypes /\ \A c \in Conns : ConnOK(c)

LEMMA OneChanges ==
  ASSUME ConnsOK, NEW c \in Conns, NEW d, NEW b, Step(c, d, b),
         NEW l \in {"none", "alive", "deleted"}, life' = [life EXCEPT ![c] = l],
         NEW s \in {"idle", "rejected", "open", "talking", "lost", "failed"},
         phase' = [phase EXCEPT ![c] = s], Fits(c, l, d, s)
  PROVE  ConnsOK'
<1>1. ConnTypes'
  BY DEF ConnTypes, ConnsOK, Step
<1>2. life'[c] = l /\ conn'[c] = d /\ phase'[c] = s
  BY DEF ConnTypes, ConnsOK, Step
<1>3. \A u \in Conns \ {c} : life'[u] = life[u] /\ conn'[u] = conn[u] /\ phase'[u] = phase[u]
  BY DEF ConnTypes, ConnsOK, Step
<1>4. ASSUME NEW u \in Conns PROVE ConnOK(u)'
  <2>1. CASE u = c
    BY <1>2, <2>1 DEF ConnOK
  <2>2. CASE u # c
    BY <1>3, <2>2 DEF ConnOK, ConnsOK
  <2> QED BY <2>1, <2>2
<1> QED BY <1>1, <1>4 DEF ConnsOK

LEMMA LivesOn ==
  ASSUME ConnTypes, NEW c \in Conns
  PROVE  /\ life[c] \in {"none", "alive", "deleted"} /\ life = [life EXCEPT ![c] = life[c]]
         /\ phase[c] \in {"idle", "rejected", "open", "talking", "lost", "failed"}
         /\ phase = [phase EXCEPT ![c] = phase[c]] /\ conn[c] \in Records
BY DEF ConnTypes

LEMMA TypesOfConns == Types /\ LifeInv => ConnsOK
BY DEF Types, LifeInv, ConnsOK, ConnTypes

(* An open connection may be ended, and its requests may change.           *)
LEMMA FitsOpen ==
  ASSUME NEW c, NEW l, NEW r \in Records, NEW s \in {"open", "talking"}, Fits(c, l, r, s),
         NEW d \in Records, Ends(r, d), NEW t \in {"open", "talking"}
  PROVE  Fits(c, l, d, t)
<1>1. l = "alive" /\ r.own \notin Connecting /\ d.own \notin Connecting
  BY DEF Fits, Ends, Connecting
<1>2. d.connected = 1 => d.own = "off"
  BY DEF Fits, Ends, Records
<1> QED BY <1>1, <1>2 DEF Fits

(* Only the kind of a request changes.                                     *)
LEMMA FitsSame ==
  ASSUME NEW c, NEW l, NEW r \in Records, NEW s, Fits(c, l, r, s), NEW d \in Records,
         SameRequests(r, d), d.own = r.own, d.connected = r.connected
  PROVE  Fits(c, l, d, s)
BY DEF Fits, SameRequests

OnConn(c) ==
  \/ Send(c) \/ Disconnect(c) \/ DataArrives(c) \/ RecvEnds(c) \/ SendCompletes(c)
  \/ \E w \in Workers : DequeueRecv(w, c) \/ DequeueSent(w, c)

LEMMA OnConnOK ==
  ASSUME Types, LifeInv, NEW c \in Conns, OnConn(c)
  PROVE  ConnsOK'
<1>1. ConnsOK /\ ConnTypes /\ ConnOK(c) /\ conn[c] \in Records
  BY TypesOfConns, LivesOn DEF ConnsOK
<1>2. life' = life
  BY DEF OnConn, Send, Disconnect, DataArrives, RecvEnds, SendCompletes, Completes,
         DequeueRecv, DequeueSent
<1>3. phase' = phase \/ phase' = [phase EXCEPT ![c] = "talking"]
  BY DEF OnConn, Send, Disconnect, DataArrives, RecvEnds, SendCompletes, Completes,
         DequeueRecv, DequeueSent
<1>4. phase[c] \in {"open", "talking"}
  <2>1. CASE Send(c) \/ Disconnect(c)
    BY <2>1 DEF Send, Disconnect, Open, LifeInv, Patient
  <2>2. CASE ~(Send(c) \/ Disconnect(c))
    <3>1. conn[c].recv # "off" \/ conn[c].sends > 0 \/ conn[c].sent > 0
      BY <2>2 DEF OnConn, DataArrives, RecvEnds, SendCompletes, DequeueRecv, DequeueSent
    <3>2. In(conn[c]) + Out(conn[c]) > 0
      BY <1>1, <3>1, Numbers DEF Out
    <3> QED BY <1>1, <3>2 DEF ConnOK, Fits
  <2> QED BY <2>1, <2>2
<1>5. \E d, b : Step(c, d, b) /\ Ends(conn[c], d)
  <2>1. CASE Send(c)
    BY <2>1, SendStep
  <2>2. CASE Disconnect(c)
    <3>1. PICK d \in AsyncDisconnect(conn[c]) : conn' = [conn EXCEPT ![c] = d]
      BY <2>2 DEF Disconnect
    <3>2. UNCHANGED poolVars
      BY <2>2 DEF Disconnect
    <3> QED BY <1>1, <3>1, <3>2, DisconnectStep
  <2>3. CASE DataArrives(c) \/ RecvEnds(c) \/ SendCompletes(c)
    BY <2>3, KernelSteps DEF Ends
  <2>4. CASE \E w \in Workers : DequeueRecv(w, c)
    BY <2>4, RecvStep
  <2>5. CASE \E w \in Workers : DequeueSent(w, c)
    BY <2>5, SentStep DEF Ends
  <2> QED BY <2>1, <2>2, <2>3, <2>4, <2>5 DEF OnConn
<1>6. PICK d, b : Step(c, d, b) /\ Ends(conn[c], d)
  BY <1>5
<1>7. PICK t \in {"open", "talking"} : phase' = [phase EXCEPT ![c] = t]
  BY <1>1, <1>3, <1>4, LivesOn
<1>8. Fits(c, life[c], d, t)
  BY <1>1, <1>4, <1>6, <1>7, FitsOpen DEF ConnOK, Step
<1> QED BY <1>1, <1>2, <1>6, <1>7, <1>8, OneChanges, LivesOn

(* A connection is announced that was idle, with r of its record.          *)
LEMMA AnnouncedOK ==
  ASSUME ConnsOK, NEW c \in Conns, NEW r \in Records, AnnounceStep(c, r), phase[c] = "idle",
         life[c] = "alive", r.own = "off", c \in Clients \/ r.connected = 0 \/ phase' # phase,
         life' = life
  PROVE  ConnsOK'
<1>1. ConnTypes /\ ConnOK(c) /\ conn[c] \in Records
  BY LivesOn DEF ConnsOK
<1>2. PICK s \in {"idle", "open", "rejected"} :
        /\ phase' = [phase EXCEPT ![c] = s]
        /\ s = "idle" => phase' = phase
  BY DEF AnnounceStep
<1>3. Step(c, r, 0) /\ ~(In(r) + Out(r) > 0)
  BY <1>1 DEF AnnounceStep, SameRequests, ConnOK, Fits
<1>4. s = "idle" => c \in Clients \/ r.connected = 0
  BY <1>2
<1>5. Fits(c, "alive", r, s)
  <2>1. r.own \notin Connecting /\ r.own \notin {"disconnecting", "disconnected"}
    BY DEF Connecting
  <2>2. s \notin {"lost", "failed"}
    BY <1>2
  <2>3. r.connected = 1 /\ s = "idle" => c \in Clients
    BY <1>4
  <2> QED BY <1>3, <2>1, <2>2, <2>3 DEF Fits
<1>6. life' = [life EXCEPT ![c] = "alive"]
  BY <1>1, LivesOn
<1>7. s \in {"idle", "rejected", "open", "talking", "lost", "failed"}
  BY <1>2
<1>8. PICK l \in {"none", "alive", "deleted"} : l = "alive"
  OBVIOUS
<1> HIDE DEF Fits
<1> QED BY <1>2, <1>3, <1>5, <1>6, <1>7, <1>8, OneChanges

(* A connection that is received from for the first time, or ended.        *)
LEMMA FirstOK ==
  ASSUME Types, LifeInv, NEW w \in Workers, FirstRecv(w) \/ Reject(w)
  PROVE  ConnsOK'
<1> DEFINE c == th[w].conn
<1>1. PICK b \in {0, 1} : \E d : FirstStep(w, d, b)
  BY FirstSteps
<1>2. PICK d : FirstStep(w, d, b)
  BY <1>1
<1>3. /\ c \in Conns /\ phase[c] = Told(th[w].pc) /\ ConnsOK /\ ConnTypes /\ ConnOK(c)
      /\ conn[c] \in Records /\ Step(c, d, b) /\ Ends(conn[c], d) /\ Out(d) = Out(conn[c])
  BY <1>2, FirstSteps, TypesOfConns, LivesOn DEF ConnsOK, FirstStep
<1>4. UNCHANGED <<life, phase>> /\ d \in Records
  BY <1>3 DEF FirstRecv, Reject, Step
<1>5. Fits(c, life[c], d, phase[c])
  <2>1. CASE th[w].pc = "firstrecv"
    <3>1. phase[c] \in {"open", "talking"}
      BY <1>3, <2>1 DEF Told
    <3> HIDE DEF Fits
    <3> QED BY <1>3, <1>4, <3>1, FitsOpen DEF ConnOK
  <2>2. CASE th[w].pc = "reject"
    <3>1. phase[c] = "rejected" /\ In(d) = In(conn[c])
      BY <1>2, <1>3, <2>2 DEF Told, FirstStep
    <3>2. life[c] = "alive" /\ ~(In(d) + Out(d) > 0) /\ conn[c].own \notin Connecting
      BY <1>3, <3>1 DEF ConnOK, Fits
    <3>3. d.own \notin Connecting /\ (d.connected = 1 => d.own = "off" /\ c \in Conns)
      BY <1>3, <1>4, <3>1, <3>2 DEF ConnOK, Fits, Ends, Connecting, Records
    <3> QED BY <3>1, <3>2, <3>3 DEF Fits
  <2> QED BY <2>1, <2>2 DEF FirstRecv, Reject
<1> HIDE DEF Fits
<1> QED BY <1>3, <1>4, <1>5, OneChanges, LivesOn

(* A disconnect is only told when nothing counts on the connection.        *)
LEMMA CountedOut ==
  ASSUME Types, RefsInv, NEW c \in Conns, conn[c].iorefs = 0
  PROVE  /\ In(conn[c]) = 0 /\ Out(conn[c]) = 0
         /\ \A w \in Workers : th[w].conn = c => th[w].pc \notin Counting
<1>1. conn[c] \in Records /\ Balance(conn[c]) = Cardinality(Unreffing(th, c))
  BY DEF Types, RefsInv
<1>2. IsFiniteSet(Unreffing(th, c))
  BY TcpAssumption, FS_Subset DEF Unreffing
<1>3. Cardinality(Unreffing(th, c)) \in Nat
  BY <1>2, FS_CardinalityType
<1>4. Cardinality(Unreffing(th, c)) = 0 /\ In(conn[c]) = 0 /\ Out(conn[c]) = 0
  BY <1>1, <1>3, Numbers DEF Balance
<1>5. Unreffing(th, c) = {}
  BY <1>2, <1>4, FS_EmptySet
<1> QED BY <1>4, <1>5 DEF Unreffing

(* A connection that was lost is in nobody's use when Close is called.     *)
LEMMA LostQuiet ==
  ASSUME Types, LifeInv, RefsInv, NEW c \in Conns, phase[c] = "lost"
  PROVE  Quiet(conn[c])
<1>1. conn[c] \in Records /\ ConnOK(c) /\ Balance(conn[c]) = Cardinality(Unreffing(th, c))
  BY DEF Types, LifeInv, RefsInv
<1>2. conn[c].connected = 0 /\ In(conn[c]) = 0 /\ Out(conn[c]) = 0
  BY <1>1, Numbers DEF ConnOK, Fits, Records
<1>3. Unreffing(th, c) = {}
  BY DEF Unreffing, LifeInv, ThreadOK
<1>4. Cardinality({}) = 0
  BY FS_EmptySet
<1>5. conn[c].iorefs = 0
  BY <1>1, <1>2, <1>3, <1>4, Numbers DEF Balance
<1> QED BY <1>2, <1>5 DEF Quiet

(* Accept may create a connection, or takes one that is idle.              *)
LEMMA AcceptedOK ==
  ASSUME Types, LifeInv, NEW a, Accept(a), main = "created" \/ acc.req # "off",
         UNCHANGED <<conn, phase, poolVars>>
  PROVE  ConnsOK'
<1>1. ConnsOK /\ ConnTypes
  BY TypesOfConns DEF ConnsOK
<1>2. CASE life' = life
  BY <1>1, <1>2 DEF ConnsOK, ConnTypes, ConnOK, poolVars
<1>3. ASSUME NEW c \in Candidates, life' = [life EXCEPT ![c] = "alive"]
      PROVE  ConnsOK'
  <2>1. c \in Servers /\ (life[c] = "none" \/ life[c] = "alive") /\ phase[c] = "idle"
    <3>1. CASE c \in Fresh
      BY <3>1, <1>1 DEF Fresh, ConnOK, Fits, ConnsOK, Conns
    <3>2. CASE c \notin Fresh
      <4>1. c = free.head /\ c # NoConn
        BY <3>2 DEF Candidates
      <4>2. PICK f \in [1 .. free.depth -> Servers] : Stack(f)
        BY DEF LifeInv, FreeOK
      <4>3. free.depth \in Int /\ free.depth >= 0 /\ free.depth # 0
        BY <4>1, <4>2 DEF Stack, Types, FreeLists, LifeInv, FreeOK
      <4> QED BY <4>1, <4>2, <4>3 DEF Stack
    <3> QED BY <3>1, <3>2
  <2>2. c \in Conns /\ conn[c] \in Records /\ ConnOK(c)
    BY <1>1, <2>1 DEF Conns, ConnsOK, ConnTypes
  <2>3. Fits(c, "alive", conn[c], "idle")
    BY <2>1, <2>2 DEF ConnOK, Fits
  <2>4. conn' = [conn EXCEPT ![c] = conn[c]] /\ phase' = [phase EXCEPT ![c] = "idle"]
    BY <1>1, <2>1, <2>2 DEF ConnTypes
  <2>5. Step(c, conn[c], 0)
    BY <1>1, <2>2, <2>4, PlainStep
  <2> HIDE DEF Fits
  <2> QED BY <1>1, <1>3, <2>2, <2>3, <2>4, <2>5, OneChanges
<1> QED BY <1>2, <1>3 DEF Accept

LEMMA NextConnsOK ==
  ASSUME Types, LifeInv, RefsInv, [Next]_vars
  PROVE  ConnsOK' \/ InputFreed \/ OutputFreed
<1>1. ConnsOK /\ ConnTypes
  BY TypesOfConns DEF ConnsOK
<1>2. \A c \in Conns : ConnOK(c) /\ conn[c] \in Records
  BY <1>1, LivesOn DEF ConnsOK
<1>3. ASSUME UNCHANGED <<life, conn, phase, poolVars>>
      PROVE  ConnsOK'
  BY <1>1, <1>3 DEF ConnsOK, ConnTypes, ConnOK, poolVars
<1>4. CASE Start
  BY <1>4, AcceptedOK DEF Start
<1>5. CASE UNCHANGED vars \/ Stop \/ Destructors
  <2>1. UNCHANGED <<life, conn, phase, poolVars>> \/ InputFreed \/ OutputFreed
    BY <1>5 DEF vars, poolVars, Stop, Destructors, AcceptsDone, ListComplete, Drained,
                WorkerDeleted
  <2> QED BY <2>1, <1>3
<1>6. ASSUME NEW c \in Clients, Connect(c) PROVE ConnsOK'
  <2>1. c \in Conns /\ life[c] = "none" /\ UNCHANGED <<phase, poolVars>>
    BY <1>6 DEF Connect, Conns
  <2>2. phase[c] = "idle" /\ conn[c].connected = 0 /\ conn[c].own = "off" /\ ~(In(conn[c]) + Out(conn[c]) > 0)
    BY <1>2, <2>1 DEF ConnOK, Fits
  <2>3. CASE life' = [life EXCEPT ![c] = "alive"] /\ conn' = [conn EXCEPT ![c].own = "connecting"]
    <3>1. PICK d : /\ Step(c, d, 0) /\ SameRequests(conn[c], d)
                   /\ d.own = "connecting" /\ d.connected = conn[c].connected
      BY <2>1, <2>3, OwnStep
    <3>2. Fits(c, "alive", d, "idle")
      BY <1>6, <2>2, <3>1 DEF Fits, Connecting, SameRequests
    <3>3. phase' = [phase EXCEPT ![c] = "idle"]
      BY <1>1, <2>1, <2>2 DEF ConnTypes
    <3> HIDE DEF Fits
    <3> QED BY <1>1, <2>1, <2>3, <3>1, <3>2, <3>3, OneChanges
  <2>4. CASE life' = [life EXCEPT ![c] = "deleted"] /\ conn' = conn
    <3>1. conn' = [conn EXCEPT ![c] = conn[c]] /\ phase' = [phase EXCEPT ![c] = "idle"]
      BY <1>1, <2>1, <2>2, <2>4 DEF ConnTypes
    <3>2. Step(c, conn[c], 0)
      BY <1>2, <2>1, <3>1, PlainStep
    <3>3. Fits(c, "deleted", conn[c], "idle")
      BY <2>1, <2>2 DEF Fits, Connecting
    <3> HIDE DEF Fits
    <3> QED BY <1>1, <2>1, <2>4, <3>1, <3>2, <3>3, OneChanges
  <2> QED BY <1>6, <2>3, <2>4 DEF Connect
<1>7. ASSUME NEW c \in Conns, OnConn(c) PROVE ConnsOK'
  BY <1>7, OnConnOK
<1>8. ASSUME NEW c \in Conns, Close(c) PROVE ConnsOK'
  <2>1. /\ UNCHANGED <<conn, poolVars>> /\ phase' = [phase EXCEPT ![c] = "idle"]
        /\ phase[c] = "lost" /\ conn[c].connected = 0 /\ Quiet(conn[c])
    BY <1>8, LostQuiet DEF Close, Quiet
  <2>2. conn[c].own = "off" /\ ~(In(conn[c]) + Out(conn[c]) > 0) /\ life[c] = "alive"
    BY <1>1, <1>2, <2>1 DEF ConnOK, Fits, Connecting, ConnTypes, Records
  <2>3. conn' = [conn EXCEPT ![c] = conn[c]]
    BY <1>1, <2>1 DEF ConnTypes
  <2>4. Step(c, conn[c], 0)
    BY <1>2, <2>1, <2>3, PlainStep
  <2>5. PICK l \in {"alive", "deleted"} : life' = [life EXCEPT ![c] = l]
    BY <1>1, <1>8, <2>1, <2>2, LivesOn DEF Close, ClosePushes, Delete
  <2>6. Fits(c, l, conn[c], "idle")
    BY <2>1, <2>2 DEF Fits, Connecting
  <2> HIDE DEF Fits
  <2> QED BY <1>1, <2>1, <2>4, <2>5, <2>6, OneChanges
<1>9. ASSUME NEW w \in Workers, DequeueAccept(w) PROVE ConnsOK'
  BY <1>9, AcceptedOK DEF DequeueAccept
<1>10. ASSUME NEW w \in Workers, UpdateAccept(w) PROVE ConnsOK'
  <2> DEFINE c == th[w].conn r == [conn[c] EXCEPT !.connected = 1]
  <2>1. /\ c \in Conns /\ c \in Servers /\ life[c] = "alive" /\ phase[c] = "idle"
        /\ c \notin Clients
    BY <1>10, TcpAssumption DEF LifeInv, ThreadOK, UpdateAccept, Conns
  <2>2. conn[c].own = "off"
    BY <1>1, <1>2, <2>1 DEF ConnOK, Fits, Connecting, ConnTypes, Records
  <2>3. r \in Records /\ r.own = "off"
    BY <1>2, <2>1, <2>2 DEF Records
  <2>4. \/ AnnounceStep(c, r) /\ phase' # phase
        \/ UNCHANGED <<conn, phase, poolVars>>
    BY <1>10, AcceptedStep
  <2>5. life' = life
    BY <1>10 DEF UpdateAccept
  <2>6. CASE AnnounceStep(c, r) /\ phase' # phase
    BY <1>1, <2>1, <2>3, <2>5, <2>6, AnnouncedOK
  <2>8. CASE UNCHANGED <<conn, phase, poolVars>>
    BY <1>3, <2>5, <2>8
  <2> QED BY <2>4, <2>6, <2>8
<1>11. ASSUME NEW w \in Workers, NEW c \in Clients, DequeueConnect(w, c) PROVE ConnsOK'
  <2> DEFINE r == [conn[c] EXCEPT !.own = "off", !.connected = 1]
  <2>1. c \in Conns /\ conn[c].own = "connectok" /\ life' = life
    BY <1>11 DEF DequeueConnect, Conns
  <2>2. life[c] = "alive" /\ phase[c] = "idle"
    BY <1>2, <2>1 DEF ConnOK, Fits, Connecting
  <2>3. r \in Records /\ r.own = "off"
    BY <1>2, <2>1 DEF Records
  <2>4. AnnounceStep(c, r)
    BY <1>11, ConnectedStep
  <2> QED BY <1>1, <2>1, <2>2, <2>3, <2>4, AnnouncedOK
<1>12. ASSUME NEW w \in Workers, NEW c \in Conns,
              \/ DequeueDisconnect(w, c)
              \/ c \in Clients /\ DequeueConnectFailed(w, c)
       PROVE  ConnsOK'
  <2>1. PICK s \in {"lost", "failed"} :
          /\ phase' = [phase EXCEPT ![c] = s]
          /\ s = "lost" => conn[c].own = "disconnected" /\ conn[c].iorefs = 0
          /\ s = "failed" => conn[c].own = "connectbad" /\ c \in Clients
    BY <1>12 DEF DequeueDisconnect, DequeueConnectFailed
  <2>2. conn' = [conn EXCEPT ![c].own = "off"] /\ UNCHANGED <<life, poolVars>>
    BY <1>12 DEF DequeueDisconnect, DequeueConnectFailed, poolVars
  <2>3. PICK d : /\ Step(c, d, 0) /\ SameRequests(conn[c], d)
                 /\ d.own = "off" /\ d.connected = conn[c].connected
    BY <2>2, OwnStep
  <2>4. conn[c].connected = 0 /\ life[c] = "alive"
    BY <1>1, <1>2, <2>1 DEF ConnOK, Fits, Records
  <2>5. ~(In(conn[c]) + Out(conn[c]) > 0)
    <3>1. CASE s = "lost"
      BY <2>1, <3>1, CountedOut
    <3>2. CASE s = "failed"
      BY <1>2, <2>1, <3>2 DEF ConnOK, Fits, Connecting
    <3> QED BY <3>1, <3>2
  <2>6. Fits(c, "alive", d, s)
    BY <2>1, <2>3, <2>4, <2>5 DEF Fits, Connecting, SameRequests
  <2>7. life' = [life EXCEPT ![c] = "alive"]
    BY <1>1, <2>2, <2>4, LivesOn
  <2> HIDE DEF Fits
  <2> QED BY <1>1, <2>1, <2>3, <2>6, <2>7, OneChanges
<1>13. ASSUME NEW w \in Workers, CloseFailed(w) PROVE ConnsOK'
  <2> DEFINE c == th[w].conn
  <2>1. c \in Clients /\ c \in Conns /\ phase[c] = "failed"
    BY <1>13 DEF LifeInv, ThreadOK, CloseFailed, Conns
  <2>2. /\ life' = [life EXCEPT ![c] = "deleted"] /\ UNCHANGED <<conn, phase, poolVars>>
    BY <1>13 DEF CloseFailed, Delete
  <2>3. conn[c].connected = 0 /\ conn[c].own = "off" /\ ~(In(conn[c]) + Out(conn[c]) > 0)
    BY <1>1, <1>2, <2>1 DEF ConnOK, Fits, Connecting, Records
  <2>4. conn' = [conn EXCEPT ![c] = conn[c]] /\ phase' = [phase EXCEPT ![c] = "failed"]
    BY <1>1, <2>1, <2>2 DEF ConnTypes
  <2>5. Step(c, conn[c], 0)
    BY <1>2, <2>1, <2>2, <2>4, PlainStep
  <2>6. Fits(c, "deleted", conn[c], "failed")
    BY <2>1, <2>3 DEF Fits, Connecting
  <2> HIDE DEF Fits
  <2> QED BY <1>1, <2>1, <2>2, <2>4, <2>5, <2>6, OneChanges
<1>14. ASSUME NEW c \in Conns, NEW d, NEW b, Step(c, d, b), SameRequests(conn[c], d),
              d.connected = conn[c].connected, UNCHANGED <<life, phase>>,
              \/ d.own = conn[c].own
              \/ conn[c].own = "disconnecting" /\ d.own = "disconnected"
              \/ conn[c].own = "connecting" /\ d.own \in {"connectok", "connectbad"}
       PROVE  ConnsOK'
  <2>1. Fits(c, life[c], d, phase[c])
    BY <1>2, <1>14 DEF ConnOK, Fits, Connecting, SameRequests
  <2> HIDE DEF Fits
  <2> QED BY <1>1, <1>14, <2>1, OneChanges, LivesOn
<1>15. ASSUME NEW w \in Workers, Unref(w) \/ FirstUnref(w) PROVE ConnsOK'
  BY <1>14, <1>15, UnrefStep DEF Unref, FirstUnref
<1>16. ASSUME ClientArrives PROVE ConnsOK'
  BY <1>14, <1>16, ArrivalStep DEF ClientArrives, Conns
<1>17. ASSUME NEW c \in Conns, DisconnectCompletes(c) \/ ConnectCompletes(c) PROVE ConnsOK'
  <2>1. UNCHANGED <<life, phase>>
    BY <1>17 DEF DisconnectCompletes, ConnectCompletes, Completes
  <2>2. CASE DisconnectCompletes(c)
    <3>1. conn[c].own = "disconnecting"
      BY <2>2 DEF DisconnectCompletes
    <3> QED BY <1>14, <2>1, <2>2, <3>1, KernelSteps
  <2>3. CASE ConnectCompletes(c)
    <3>1. conn[c].own = "connecting"
      BY <2>3 DEF ConnectCompletes
    <3> QED BY <1>14, <2>1, <2>3, <3>1, KernelSteps
  <2> QED BY <1>17, <2>2, <2>3
<1>18. ASSUME NEW w \in Workers, EndAccept(w) \/ TakeEmptyPacket(w) PROVE ConnsOK'
  BY <1>3, <1>18 DEF EndAccept, TakeEmptyPacket, poolVars
<1>19. ASSUME KernelNext PROVE ConnsOK'
  BY <1>7, <1>16, <1>17, <1>19 DEF KernelNext, OnConn, Conns
<1>20. ASSUME AppNext PROVE ConnsOK'
  BY <1>6, <1>7, <1>8, <1>20 DEF AppNext, OnConn
<1>21. ASSUME NEW w \in Workers, WorkerNext(w) PROVE ConnsOK'
  <2>1. ASSUME NEW c \in Conns, OfConn(w, c) PROVE ConnsOK'
    <3>1. CASE DequeueDisconnect(w, c)
      BY <1>12, <3>1
    <3>2. CASE DequeueRecv(w, c) \/ DequeueSent(w, c)
      BY <1>7, <3>2 DEF OnConn
    <3> QED BY <2>1, <3>1, <3>2 DEF OfConn
  <2>2. ASSUME NEW c \in Clients, OfConnect(w, c) PROVE ConnsOK'
    BY <1>11, <1>12, <2>2 DEF OfConnect, Conns
  <2> QED BY <1>9, <1>10, <1>13, <1>15, <1>18, <1>21, <2>1, <2>2, FirstOK DEF WorkerNext, InHandler
<1> QED BY <1>4, <1>5, <1>19, <1>20, <1>21 DEF Next

------------------------------------------------------------------------------
(* Every step keeps the other types, and what threads have in hand         *)

OtherTypes ==
  /\ acc \in Accepts /\ free \in FreeLists /\ closes \in 0 .. CloseMax
  /\ th \in [Workers -> ThreadRecords]
  /\ main \in {"created", "serving", "waitaccepts", "waitlist", "drain", "delworker",
               "waitin", "waitout", "done"}

LEMMA FreeListSteps ==
  ASSUME NEW f \in FreeLists, NEW c \in Conns
  PROVE  /\ SPush(f, c) \in FreeLists /\ SPush(f, c).depth = f.depth + 1 /\ SPush(f, c).head = c
         /\ SPush(f, c).next = [f.next EXCEPT ![c] = f.head] /\ SPush(f, c).total = f.total
         /\ f.head \in Conns => /\ SPop(f) \in FreeLists /\ SPop(f).depth = f.depth - 1
                                /\ SPop(f).head = f.next[f.head] /\ SPop(f).next = f.next
         /\ \A n \in 0 .. TotalMod - 1 : /\ [f EXCEPT !.total = n] \in FreeLists
                                         /\ [f EXCEPT !.total = n].depth = f.depth
                                         /\ [f EXCEPT !.total = n].head = f.head
                                         /\ [f EXCEPT !.total = n].next = f.next
<1>1. PICK n \in Int, m \in Int : n = f.depth + 1 /\ m = f.depth - 1
  BY DEF FreeLists
<1>2. SPush(f, c) = [f EXCEPT !.head = c, !.next[c] = f.head, !.depth = n]
  BY <1>1 DEF SPush
<1>3. SPop(f) = [f EXCEPT !.head = f.next[f.head], !.depth = m]
  BY <1>1 DEF SPop
<1>4. /\ SPush(f, c) \in FreeLists /\ SPush(f, c).depth = n /\ SPush(f, c).head = c
      /\ SPush(f, c).next = [f.next EXCEPT ![c] = f.head] /\ SPush(f, c).total = f.total
  BY <1>2 DEF FreeLists
<1>5. ASSUME f.head \in Conns
      PROVE  /\ SPop(f) \in FreeLists /\ SPop(f).depth = m
             /\ SPop(f).head = f.next[f.head] /\ SPop(f).next = f.next
  BY <1>3, <1>5 DEF FreeLists
<1>6. ASSUME NEW t \in 0 .. TotalMod - 1
      PROVE  /\ [f EXCEPT !.total = t] \in FreeLists
             /\ [f EXCEPT !.total = t].depth = f.depth
             /\ [f EXCEPT !.total = t].head = f.head
             /\ [f EXCEPT !.total = t].next = f.next
  BY DEF FreeLists
<1> QED BY <1>1, <1>4, <1>5, <1>6

(* Accept() takes the list without its head, or as it is.                  *)
LEMMA TakenList ==
  ASSUME Types
  PROVE  /\ Taken \in FreeLists
         /\ free.head = NoConn => Taken = free
         /\ free.head # NoConn => /\ Taken.head = free.next[free.head] /\ Taken.next = free.next
                                  /\ Taken.depth = free.depth - 1
<1>1. free \in FreeLists /\ free.head \in Conns \cup {NoConn} /\ free.total \in Int
  BY DEF Types, FreeLists
<1>2. CASE free.head = NoConn
  BY <1>1, <1>2 DEF Taken
<1>3. CASE free.head # NoConn
  <2>1. free.head \in Conns
    BY <1>1, <1>3
  <2>2. /\ SPop(free) \in FreeLists /\ SPop(free).depth = free.depth - 1
        /\ SPop(free).head = free.next[free.head] /\ SPop(free).next = free.next
    BY <1>1, <2>1, FreeListSteps
  <2>3. SPop(free).total \in Int
    BY <2>2 DEF FreeLists
  <2>4. PICK n \in 0 .. TotalMod - 1 : n = (SPop(free).total - 1) % TotalMod
    BY <2>3, ModRange
  <2>5. Taken = [SPop(free) EXCEPT !.total = n]
    BY <1>3, <2>4 DEF Taken
  <2> QED BY <1>3, <2>1, <2>2, <2>5, FreeListSteps
<1> QED BY <1>2, <1>3

(* What the phase and the life of a connection say of who has it in hand.  *)
LEMMA InHand ==
  ASSUME Types, LifeInv, NEW w \in Workers, NEW c \in Conns, th[w].conn = c
  PROVE  \/ /\ th[w].pc = "update" /\ c \in Servers /\ c \notin Clients /\ life[c] = "alive"
            /\ phase[c] = "idle" /\ c # acc.conn /\ conn[c].own = "off"
         \/ /\ th[w].pc = "failed" /\ c \in Clients /\ c \notin Servers /\ life[c] = "alive"
            /\ phase[c] = "failed" /\ conn[c].own = "off"
         \/ /\ th[w].pc \in Held /\ life[c] = "alive" /\ phase[c] = Told(th[w].pc)
            /\ phase[c] \in {"open", "rejected"} /\ conn[c].own = "off" /\ Unused(conn[c])
            /\ \A u \in Workers : th[u].conn = c => u = w
         \/ th[w].pc \in Counting /\ life[c] = "alive" /\ phase[c] \in {"open", "talking"}
<1>1. ThreadOK(w) /\ ConnOK(c) /\ c # NoConn /\ th[w] \in ThreadRecords /\ conn[c] \in Records
  BY TcpAssumption DEF LifeInv, Types
<1>2. c \in Servers <=> c \notin Clients
  BY TcpAssumption DEF Conns
<1>3. th[w].pc \in Alone \cup Counting
  BY <1>1 DEF ThreadOK, ThreadRecords, Alone, Held, Counting
<1>4. CASE th[w].pc = "update"
  <2>1. c \in Servers /\ life[c] = "alive" /\ phase[c] = "idle" /\ c # acc.conn
    BY <1>1, <1>4 DEF ThreadOK
  <2> QED BY <1>1, <1>2, <1>4, <2>1 DEF ConnOK, Fits, Connecting, Records
<1>5. CASE th[w].pc = "failed"
  <2>1. c \in Clients /\ life[c] = "alive" /\ phase[c] = "failed"
    BY <1>1, <1>5 DEF ThreadOK
  <2> QED BY <1>1, <1>2, <1>5, <2>1 DEF ConnOK, Fits, Connecting, Records
<1>6. CASE th[w].pc \in Held
  <2>1. /\ phase[c] = Told(th[w].pc) /\ Unused(conn[c])
        /\ \A u \in Workers : th[u].conn = c => u = w
    BY <1>1, <1>6 DEF ThreadOK, Alone
  <2>2. life[c] = "alive" /\ conn[c].own = "off" /\ phase[c] \in {"open", "rejected"}
    BY <1>1, <2>1 DEF ConnOK, Fits, Unused, Told
  <2> QED BY <1>6, <2>1, <2>2
<1>7. CASE th[w].pc \in Counting
  <2>1. phase[c] \in {"open", "talking"}
    BY <1>1, <1>7 DEF ThreadOK
  <2>2. life[c] = "alive"
    BY <1>1, <2>1 DEF ConnOK, Fits
  <2> QED BY <1>7, <2>1, <2>2
<1> QED BY <1>3, <1>4, <1>5, <1>6, <1>7 DEF Alone

(* Nobody deals with a connection that an accept can take.                 *)
LEMMA CandidateIdle ==
  ASSUME Types, LifeInv, main = "created" \/ acc.req # "off", NEW c \in Candidates
  PROVE  /\ c \in Servers /\ (life[c] = "none" \/ life[c] = "alive") /\ phase[c] = "idle"
         /\ c # acc.conn /\ \A w \in Workers : th[w].conn # c
         /\ free.head # NoConn => c = free.head
<1>1. \A u \in Conns : ConnOK(u)
  BY DEF LifeInv
<1>2. CASE free.head = NoConn
  <2>1. c \in Servers /\ c \in Conns /\ life[c] = "none" /\ phase[c] = "idle"
    BY <1>1, <1>2 DEF Candidates, Fresh, Conns, ConnOK, Fits
  <2>2. c # acc.conn
    BY <2>1, TcpAssumption DEF LifeInv, AccOK, Types, Accepts
  <2>3. ASSUME NEW w \in Workers PROVE th[w].conn # c
    BY <2>1, InHand
  <2> QED BY <1>2, <2>1, <2>2, <2>3
<1>3. CASE free.head # NoConn
  <2>1. c = free.head
    BY <1>3 DEF Candidates
  <2>2. PICK f \in [1 .. free.depth -> Servers] : Stack(f)
    BY DEF LifeInv, FreeOK
  <2>3. free.depth \in Int /\ free.depth >= 0 /\ free.depth # 0
    BY <1>3, <2>2 DEF Stack, Types, FreeLists, LifeInv, FreeOK
  <2> QED BY <2>1, <2>2, <2>3 DEF Stack
<1> QED BY <1>2, <1>3

LEMMA AcceptTypes ==
  ASSUME Types, LifeInv, NEW a \in Accepts, Accept(a), main = "created" \/ acc.req # "off"
  PROVE  acc' \in Accepts /\ free' \in FreeLists
<1>1. [a EXCEPT !.running = 0] \in Accepts
  BY DEF Accepts
<1>2. ASSUME NEW c \in Candidates, AcceptPosted(c, a) \/ AcceptRefused(c, a)
      PROVE  acc' \in Accepts /\ free' \in FreeLists
  <2>1. c \in Conns /\ Taken \in FreeLists
    BY CandidateIdle, TakenList DEF Conns
  <2>2. CASE AcceptPosted(c, a)
    <3>1. PICK n \in Int : n = a.iorefs + 1
      BY DEF Accepts
    <3>2. acc' = [a EXCEPT !.req = "kernel", !.conn = c, !.iorefs = n]
      BY <2>2, <3>1 DEF AcceptPosted
    <3>3. acc' \in Accepts
      BY <2>1, <3>2 DEF Accepts
    <3> QED BY <2>1, <2>2, <3>3 DEF AcceptPosted
  <2>3. CASE AcceptRefused(c, a)
    <3> DEFINE g == SPush(IF Quiet(conn[c]) THEN SPush(Taken, c) ELSE Taken, c)
    <3>1. g \in FreeLists
      BY <2>1, FreeListSteps
    <3>2. PICK n \in 0 .. TotalMod - 1 : n = (g.total + 1) % TotalMod
      <4>1. g.total + 1 \in Int
        BY <3>1 DEF FreeLists
      <4> QED BY <4>1, ModRange
    <3>3. free' = [g EXCEPT !.total = n] /\ acc' = [a EXCEPT !.running = 0]
      BY <2>3, <3>2 DEF AcceptRefused
    <3> HIDE DEF g
    <3> QED BY <1>1, <2>1, <3>1, <3>3, FreeListSteps
  <2> QED BY <1>2, <2>2, <2>3
<1> QED BY <1>1, <1>2 DEF Accept, Types

LEMMA NoRequestAccepts == acc \in Accepts => /\ NoRequest \in Accepts /\ NoRequest.conn = NoConn
                                             /\ NoRequest.req = "off" /\ NoRequest.iorefs = acc.iorefs
BY DEF NoRequest, Accepts

LEMMA NextOtherTypes ==
  ASSUME Types, LifeInv, [Next]_vars
  PROVE  OtherTypes'
<1>1. OtherTypes
  BY DEF Types, OtherTypes
<1>2. ASSUME UNCHANGED <<accVars, th, main>> PROVE OtherTypes'
  BY <1>1, <1>2 DEF OtherTypes, accVars
<1>3. CASE UNCHANGED vars
  BY <1>2, <1>3 DEF vars
<1>4. CASE Start
  <2>1. [acc EXCEPT !.running = 1] \in Accepts
    BY <1>1 DEF OtherTypes, Accepts
  <2>2. acc' \in Accepts /\ free' \in FreeLists
    BY <1>4, <2>1, AcceptTypes DEF Start
  <2> QED BY <1>1, <1>4, <2>2 DEF Start, OtherTypes
<1>5. CASE Stop
  BY <1>1, <1>5 DEF Stop, OtherTypes, Accepts
<1>6. CASE Destructors
  BY <1>1, <1>6 DEF OtherTypes, accVars, Destructors, AcceptsDone, ListComplete, Drained,
                    WorkerDeleted, InputFreed, OutputFreed
<1>7. ASSUME AppNext PROVE OtherTypes'
  <2>1. ASSUME NEW c \in Conns, Close(c) PROVE OtherTypes'
    <3>1. SPush(free, c) \in FreeLists
      BY <1>1, FreeListSteps DEF OtherTypes
    <3>2. closes' \in 0 .. CloseMax /\ free' \in FreeLists
      BY <1>1, <2>1, <3>1, TcpAssumption DEF Close, ClosePushes, Delete, OtherTypes
    <3> QED BY <1>1, <2>1, <3>2 DEF Close, OtherTypes
  <2>2. ASSUME NEW c \in Conns, Connect(c) \/ Send(c) \/ Disconnect(c) PROVE OtherTypes'
    BY <1>2, <2>2 DEF Connect, Send, Disconnect
  <2> QED BY <1>7, <2>1, <2>2 DEF AppNext, Conns
<1>8. ASSUME KernelNext PROVE OtherTypes'
  <2>1. CASE ClientArrives
    BY <1>1, <2>1 DEF ClientArrives, OtherTypes, Accepts
  <2>2. CASE ~ClientArrives
    BY <1>2, <1>8, <2>2 DEF KernelNext, DisconnectCompletes, DataArrives, RecvEnds, SendCompletes,
                            ConnectCompletes, Completes
  <2> QED BY <2>1, <2>2
<1>9. ASSUME NEW w \in Workers, NEW v \in ThreadRecords, th' = [th EXCEPT ![w] = v]
      PROVE  th' \in [Workers -> ThreadRecords]
  BY <1>1, <1>9 DEF OtherTypes
<1>10. ASSUME NEW w \in Workers, WorkerNext(w) PROVE OtherTypes'
  <2>1. CASE DequeueAccept(w)
    <3>1. acc.conn \in Conns \cup {NoConn} /\ NoRequest \in Accepts
      BY <1>1, NoRequestAccepts DEF OtherTypes, Accepts
    <3>2. acc' \in Accepts /\ free' \in FreeLists
      BY <2>1, <3>1, AcceptTypes DEF DequeueAccept
    <3>3. th' \in [Workers -> ThreadRecords]
      BY <1>9, <2>1, <3>1, ActionRecords DEF DequeueAccept, Alone
    <3> QED BY <1>1, <2>1, <3>2, <3>3 DEF DequeueAccept, OtherTypes
  <2>2. CASE UpdateAccept(w)
    <3>1. th[w].conn \in Conns \cup {NoConn}
      BY <1>1 DEF OtherTypes, ThreadRecords
    <3>2. th' \in [Workers -> ThreadRecords]
      BY <1>9, <2>2, <3>1, ActionRecords DEF UpdateAccept, Announce, Alone, Held
    <3> QED BY <1>1, <2>2, <3>2 DEF UpdateAccept, OtherTypes, accVars
  <2>8. CASE FirstRecv(w) \/ Reject(w)
    <3>1. th[w].conn \in Conns \cup {NoConn}
      BY <1>1 DEF OtherTypes, ThreadRecords
    <3>2. \E b \in {0, 1} : \E d : FirstStep(w, d, b)
      BY <2>8, FirstSteps
    <3>3. th' \in [Workers -> ThreadRecords]
      BY <1>9, <3>1, <3>2, ActionRecords DEF FirstStep, Counting
    <3> QED BY <1>1, <2>8, <3>3 DEF FirstRecv, Reject, OtherTypes, accVars
  <2>9. CASE FirstUnref(w)
    <3>1. th' \in [Workers -> ThreadRecords]
      BY <1>9, <2>9, ActionRecords DEF FirstUnref
    <3> QED BY <1>1, <2>9, <3>1 DEF FirstUnref, OtherTypes, accVars
  <2>3. CASE EndAccept(w)
    <3>1. th' \in [Workers -> ThreadRecords]
      BY <1>9, <2>3, ActionRecords DEF EndAccept
    <3>2. acc' \in Accepts
      BY <1>1, <2>3 DEF EndAccept, OtherTypes, Accepts
    <3> QED BY <1>1, <2>3, <3>1, <3>2 DEF EndAccept, OtherTypes
  <2>4. CASE CloseFailed(w)
    <3>1. th' \in [Workers -> ThreadRecords]
      BY <1>9, <2>4, ActionRecords DEF CloseFailed
    <3> QED BY <1>1, <2>4, <3>1 DEF CloseFailed, Delete, OtherTypes
  <2>5. CASE Unref(w) \/ TakeEmptyPacket(w)
    <3>1. th' \in [Workers -> ThreadRecords]
      BY <1>9, <2>5, ActionRecords DEF Unref, TakeEmptyPacket
    <3> QED BY <1>1, <2>5, <3>1 DEF Unref, TakeEmptyPacket, OtherTypes, accVars
  <2>6. ASSUME NEW c \in Conns, OfConn(w, c) PROVE OtherTypes'
    <3>1. CASE DequeueDisconnect(w, c)
      BY <1>2, <3>1 DEF DequeueDisconnect
    <3>2. CASE DequeueRecv(w, c) \/ DequeueSent(w, c)
      <4>1. th' \in [Workers -> ThreadRecords]
        BY <1>9, <3>2, ActionRecords DEF DequeueRecv, DequeueSent, Counting
      <4> QED BY <1>1, <3>2, <4>1 DEF DequeueRecv, DequeueSent, OtherTypes, accVars
    <3> QED BY <2>6, <3>1, <3>2 DEF OfConn
  <2>7. ASSUME NEW c \in Clients, OfConnect(w, c) PROVE OtherTypes'
    <3>1. CASE DequeueConnect(w, c)
      <4>1. th' = th \/ th' \in [Workers -> ThreadRecords]
        BY <1>9, <3>1, ActionRecords DEF DequeueConnect, Announce, Conns, Alone, Held
      <4> QED BY <1>1, <3>1, <4>1 DEF DequeueConnect, OtherTypes, accVars
    <3>2. CASE DequeueConnectFailed(w, c)
      <4>1. th' \in [Workers -> ThreadRecords]
        BY <1>9, <3>2, ActionRecords DEF DequeueConnectFailed, Conns, Alone
      <4> QED BY <1>1, <3>2, <4>1 DEF DequeueConnectFailed, OtherTypes, accVars
    <3> QED BY <2>7, <3>1, <3>2 DEF OfConnect
  <2> QED BY <1>10, <2>1, <2>2, <2>3, <2>4, <2>5, <2>6, <2>7, <2>8, <2>9 DEF WorkerNext, InHandler
<1> QED BY <1>3, <1>4, <1>5, <1>6, <1>7, <1>8, <1>10 DEF Next

LEMMA NextTypes ==
  ASSUME Types, LifeInv, RefsInv, [Next]_vars
  PROVE  Types' /\ \A c \in Conns : ConnOK(c)'
<1>1. ConnsOK'
  <2>1. CASE InputFreed \/ OutputFreed
    <3>1. ConnsOK /\ UNCHANGED <<life, conn, phase>>
      BY <2>1, TypesOfConns DEF InputFreed, OutputFreed
    <3>2. inPool' \in Pools /\ outPool' \in Pools
      BY <2>1, <3>1 DEF InputFreed, OutputFreed, ConnsOK, ConnTypes, Pools
    <3> QED BY <3>1, <3>2 DEF ConnsOK, ConnTypes, ConnOK
  <2> QED BY <2>1, NextConnsOK
<1>2. OtherTypes'
  BY NextOtherTypes
<1> QED BY <1>1, <1>2 DEF ConnsOK, ConnTypes, OtherTypes, Types

(* What Accept leaves: no request, or one with a connection that nobody    *)
(* has in hand.                                                            *)
LEMMA AcceptOutcome ==
  ASSUME Types, LifeInv, NEW a \in Accepts, Accept(a), main = "created" \/ acc.req # "off",
         a.req = "off", a.conn = NoConn
  PROVE  /\ \/ acc'.req = "off" /\ acc'.conn = NoConn
            \/ /\ acc'.req = "kernel" /\ acc'.conn \in Servers /\ life'[acc'.conn] = "alive"
               /\ phase[acc'.conn] = "idle" /\ acc'.conn # acc.conn
               /\ \A w \in Workers : th[w].conn # acc'.conn
         /\ \A c \in Conns : life[c] = "alive" => life'[c] = "alive"
<1>1. life \in [Conns -> {"none", "alive", "deleted"}]
  BY DEF Types
<1>2. CASE acc' = [a EXCEPT !.running = 0] /\ UNCHANGED <<life, free>>
  BY <1>2 DEF Accepts
<1>3. ASSUME NEW c \in Candidates, life' = [life EXCEPT ![c] = "alive"],
             AcceptPosted(c, a) \/ AcceptRefused(c, a)
      PROVE  /\ \/ acc'.req = "off" /\ acc'.conn = NoConn
                \/ /\ acc'.req = "kernel" /\ acc'.conn \in Servers /\ life'[acc'.conn] = "alive"
                   /\ phase[acc'.conn] = "idle" /\ acc'.conn # acc.conn
                   /\ \A w \in Workers : th[w].conn # acc'.conn
             /\ \A u \in Conns : life[u] = "alive" => life'[u] = "alive"
  <2>1. c \in Servers /\ c \in Conns /\ phase[c] = "idle" /\ c # acc.conn /\ \A w \in Workers : th[w].conn # c
    BY CandidateIdle DEF Conns
  <2>2. life'[c] = "alive" /\ \A u \in Conns : life[u] = "alive" => life'[u] = "alive"
    BY <1>1, <1>3, <2>1
  <2>3. \/ acc'.req = "kernel" /\ acc'.conn = c
        \/ acc'.req = "off" /\ acc'.conn = NoConn
    BY <1>3 DEF AcceptPosted, AcceptRefused, Accepts
  <2> QED BY <2>1, <2>2, <2>3
<1> QED BY <1>2, <1>3 DEF Accept

(* A connection at rest stays so until an accept that took it completes.   *)
AtRest(c) ==
  /\ c \in Servers /\ life[c] = "alive" /\ phase[c] = "idle"
  /\ \A w \in Workers : th[w].conn # c

LEMMA RestStays ==
  ASSUME Types, LifeInv, RefsInv, [Next]_vars, NEW c, AtRest(c)
  PROVE  /\ life'[c] = "alive" /\ phase'[c] = "idle"
         /\ c # acc.conn => AtRest(c)'
<1>1. c \in Servers /\ life[c] = "alive" /\ phase[c] = "idle" /\ \A w \in Workers : th[w].conn # c
  BY DEF AtRest
<1>2. c \in Conns /\ c \notin Clients /\ ConnOK(c) /\ conn[c] \in Records
  BY <1>1, TcpAssumption DEF Conns, LifeInv, Types
<1>3. ~(In(conn[c]) + Out(conn[c]) > 0) /\ conn[c].own = "off"
  BY <1>1, <1>2 DEF ConnOK, Fits, Connecting, Records
<1>4. conn[c].recv = "off" /\ conn[c].sent = 0 /\ conn[c].sends = 0
  BY <1>2, <1>3, Numbers DEF Out
<1>5. /\ life \in [Conns -> {"none", "alive", "deleted"}] /\ th \in [Workers -> ThreadRecords]
      /\ phase \in [Conns -> {"idle", "rejected", "open", "talking", "lost", "failed"}]
  BY DEF Types
<1>6. ASSUME UNCHANGED <<life, phase, th>> PROVE AtRest(c)'
  BY <1>1, <1>6 DEF AtRest
<1>7. ASSUME UNCHANGED vars \/ Stop \/ Destructors PROVE AtRest(c)'
  BY <1>6, <1>7 DEF vars, Stop, Destructors, AcceptsDone, ListComplete, Drained, WorkerDeleted,
                    InputFreed, OutputFreed
<1>8. CASE Start
  <2>1. \A u \in Conns : life[u] = "alive" => life'[u] = "alive"
    <3>1. [acc EXCEPT !.running = 1] \in Accepts /\ [acc EXCEPT !.running = 1].req = acc.req
          /\ [acc EXCEPT !.running = 1].conn = acc.conn
      BY DEF Types, Accepts
    <3>2. acc.req = "off" /\ acc.conn = NoConn
      BY <1>8 DEF LifeInv, AccOK, Start
    <3> QED BY <1>8, <3>1, <3>2, AcceptOutcome DEF Start
  <2> QED BY <1>1, <1>2, <1>8, <2>1 DEF Start, AtRest
<1>9. ASSUME AppNext PROVE AtRest(c)'
  <2>1. ASSUME NEW u \in Clients, Connect(u) PROVE AtRest(c)'
    BY <1>1, <1>2, <1>5, <2>1 DEF Connect, AtRest
  <2>2. ASSUME NEW u \in Conns, Send(u) \/ Disconnect(u) PROVE AtRest(c)'
    BY <1>6, <2>2 DEF Send, Disconnect
  <2>3. ASSUME NEW u \in Conns, Close(u) PROVE AtRest(c)'
    <3>1. u # c
      BY <1>1, <2>3 DEF Close
    <3> QED BY <1>1, <1>2, <1>5, <2>3, <3>1 DEF Close, ClosePushes, Delete, AtRest
  <2> QED BY <1>9, <2>1, <2>2, <2>3 DEF AppNext
<1>10. ASSUME KernelNext PROVE AtRest(c)'
  BY <1>6, <1>10 DEF KernelNext, ClientArrives, DisconnectCompletes, DataArrives, RecvEnds,
                     SendCompletes, ConnectCompletes, Completes
<1>11. ASSUME NEW w \in Workers, NEW v, th' = [th EXCEPT ![w] = v], v.conn # c
       PROVE  \A u \in Workers : th'[u].conn # c
  BY <1>1, <1>5, <1>11
<1>12. Idle.conn # c /\ \A pc : At(pc, NoConn).conn # c
  BY <1>2, TcpAssumption DEF Idle, At
<1>13. ASSUME NEW w \in Workers, WorkerNext(w)
       PROVE  /\ life'[c] = "alive" /\ phase'[c] = "idle"
              /\ c # acc.conn => AtRest(c)'
  <2>1. CASE DequeueAccept(w)
    <3>1. life'[c] = "alive" /\ phase'[c] = "idle"
      <4>1. acc.req # "off" /\ NoRequest \in Accepts /\ NoRequest.req = "off" /\ NoRequest.conn = NoConn
        BY <2>1, NoRequestAccepts DEF Types, DequeueAccept
      <4> QED BY <1>1, <1>2, <2>1, <4>1, AcceptOutcome DEF DequeueAccept
    <3>2. ASSUME c # acc.conn PROVE \A u \in Workers : th'[u].conn # c
      <4>1. At("update", acc.conn).conn # c
        BY <3>2 DEF At
      <4> QED BY <1>11, <2>1, <4>1 DEF DequeueAccept
    <3> QED BY <1>1, <3>1, <3>2 DEF AtRest
  <2>2. CASE UpdateAccept(w)
    <3>1. phase'[c] = "idle"
      BY <1>1, <1>2, <1>5, <2>2 DEF UpdateAccept, Announce
    <3>2. \A pc : At(pc, th[w].conn).conn # c
      BY <1>1 DEF At
    <3>3. \A u \in Workers : th'[u].conn # c
      BY <1>11, <1>12, <2>2, <3>2 DEF UpdateAccept, Announce
    <3> QED BY <1>1, <2>2, <3>1, <3>3 DEF AtRest, UpdateAccept
  <2>8. CASE FirstRecv(w) \/ Reject(w) \/ FirstUnref(w)
    <3>1. \A pc : At(pc, th[w].conn).conn # c
      BY <1>1 DEF At
    <3>2. After(th[w].conn).conn # c
      BY <1>12 DEF After
    <3>3. \A u \in Workers : th'[u].conn # c
      <4>1. CASE FirstUnref(w)
        BY <1>11, <3>2, <4>1 DEF FirstUnref
      <4>2. CASE FirstRecv(w) \/ Reject(w)
        <5>1. \E b \in {0, 1} : \E d : FirstStep(w, d, b)
          BY <4>2, FirstSteps
        <5> QED BY <1>11, <3>1, <3>2, <5>1 DEF FirstStep
      <4> QED BY <2>8, <4>1, <4>2
    <3> QED BY <1>1, <2>8, <3>3 DEF AtRest, FirstRecv, Reject, FirstUnref
  <2>3. CASE EndAccept(w) \/ Unref(w) \/ TakeEmptyPacket(w)
    <3>1. \A u \in Workers : th'[u].conn # c
      BY <1>11, <1>12, <2>3 DEF EndAccept, Unref, TakeEmptyPacket
    <3> QED BY <1>1, <2>3, <3>1 DEF AtRest, EndAccept, Unref, TakeEmptyPacket
  <2>4. CASE CloseFailed(w)
    <3>1. \A u \in Workers : th'[u].conn # c
      BY <1>11, <1>12, <2>4 DEF CloseFailed
    <3>2. life'[c] = "alive"
      BY <1>1, <1>2, <1>5, <2>4 DEF CloseFailed, Delete
    <3> QED BY <1>1, <2>4, <3>1, <3>2 DEF AtRest, CloseFailed
  <2>5. ASSUME NEW u \in Conns, OfConn(w, u) PROVE AtRest(c)'
    <3>1. u # c
      BY <1>3, <1>4, <2>5 DEF OfConn, DequeueDisconnect, DequeueRecv, DequeueSent
    <3>2. phase'[c] = "idle" /\ life' = life
      BY <1>1, <1>2, <1>5, <2>5, <3>1 DEF OfConn, DequeueDisconnect, DequeueRecv, DequeueSent
    <3>3. \A x \in Workers : th'[x].conn # c
      <4>1. CASE th' = th
        BY <1>1, <4>1
      <4>2. CASE th' = [th EXCEPT ![w] = At("unref", u)]
        <5>1. \A pc : At(pc, u).conn # c
          BY <3>1 DEF At
        <5> QED BY <1>11, <4>2, <5>1
      <4> QED BY <2>5, <4>1, <4>2 DEF OfConn, DequeueDisconnect, DequeueRecv, DequeueSent
    <3> QED BY <1>1, <3>2, <3>3 DEF AtRest
  <2>6. ASSUME NEW u \in Clients, OfConnect(w, u) PROVE AtRest(c)'
    <3>1. u # c
      BY <1>2, <2>6
    <3>2. phase'[c] = "idle" /\ life' = life
      BY <1>1, <1>2, <1>5, <2>6, <3>1 DEF OfConnect, DequeueConnect, DequeueConnectFailed,
                                          Announce
    <3>3. \A x \in Workers : th'[x].conn # c
      <4>1. CASE th' = th
        BY <1>1, <4>1
      <4>2. CASE \E pc : th' = [th EXCEPT ![w] = At(pc, u)]
        <5>1. \A pc : At(pc, u).conn # c
          BY <3>1 DEF At
        <5> QED BY <1>11, <4>2, <5>1
      <4> QED BY <2>6, <4>1, <4>2 DEF OfConnect, DequeueConnect, DequeueConnectFailed, Announce
    <3> QED BY <1>1, <3>2, <3>3 DEF AtRest
  <2>7. AtRest(c)' => life'[c] = "alive" /\ phase'[c] = "idle"
    BY DEF AtRest
  <2> QED BY <1>13, <2>1, <2>2, <2>3, <2>4, <2>5, <2>6, <2>7, <2>8 DEF WorkerNext, InHandler
<1>14. AtRest(c)' => life'[c] = "alive" /\ phase'[c] = "idle"
  BY DEF AtRest
<1> QED BY <1>7, <1>8, <1>9, <1>10, <1>13, <1>14 DEF Next

(* What a step that is not theirs may do to the connections of threads.    *)
Spared(c) ==
  /\ life'[c] = "alive"
  /\ phase'[c] = phase[c] \/ {phase[c], phase'[c]} \subseteq {"open", "talking"}
  /\ acc'.conn # c \/ acc'.conn = acc.conn

(* Nobody but its thread uses a connection between OnConnection and the    *)
(* first receive: the application waits for OnData.                        *)
LEMMA HeldKept ==
  ASSUME Types, LifeInv, [Next]_vars, NEW u \in Workers, th[u].pc \in Held, th'[u] = th[u]
  PROVE  conn'[th[u].conn] = conn[th[u].conn] /\ phase'[th[u].conn] = phase[th[u].conn]
<1> DEFINE c == th[u].conn
<1>1. /\ c \in Conns /\ life[c] = "alive" /\ phase[c] \in {"open", "rejected"}
      /\ conn[c].own = "off" /\ Unused(conn[c]) /\ \A x \in Workers : th[x].conn = c => x = u
      /\ conn[c] \in Records /\ conn \in [Conns -> Records] /\ th \in [Workers -> ThreadRecords]
      /\ phase \in [Conns -> {"idle", "rejected", "open", "talking", "lost", "failed"}]
  <2>1. ThreadOK(u) /\ c \in Conns
    BY DEF LifeInv, ThreadOK
  <2> QED BY <2>1, InHand DEF Types, Held, Counting
<1>2. conn[c].recv = "off" /\ conn[c].sends = 0 /\ conn[c].sent = 0
  BY <1>1, Numbers DEF Unused, Out
<1>3. ASSUME NEW x, x # c, \E e : conn' = [conn EXCEPT ![x] = e],
             phase' = phase \/ \E e : phase' = [phase EXCEPT ![x] = e]
      PROVE  conn'[c] = conn[c] /\ phase'[c] = phase[c]
  BY <1>1, <1>3
<1>4. CASE UNCHANGED <<conn, phase>>
  BY <1>4
<1>5. CASE UNCHANGED vars \/ Start \/ Stop \/ Destructors
  BY <1>4, <1>5 DEF vars, Start, Stop, Destructors, AcceptsDone, ListComplete, Drained,
                    WorkerDeleted, InputFreed, OutputFreed
<1>6. CASE AppNext
  <2>1. ASSUME NEW x \in Clients, Connect(x) PROVE conn'[c] = conn[c] /\ phase'[c] = phase[c]
    <3>1. x # c /\ phase' = phase
      BY <1>1, <2>1 DEF Connect
    <3> QED BY <1>1, <2>1, <3>1 DEF Connect
  <2>2. ASSUME NEW x \in Conns, Send(x) \/ Disconnect(x)
        PROVE  conn'[c] = conn[c] /\ phase'[c] = phase[c]
    <3>1. x # c /\ phase' = phase
      BY <1>1, <2>2 DEF Send, Disconnect, Open, LifeInv, Patient
    <3>2. CASE conn' = conn
      BY <3>1, <3>2
    <3>3. CASE \E e : conn' = [conn EXCEPT ![x] = e]
      BY <1>3, <3>1, <3>3
    <3> QED BY <2>2, <3>2, <3>3 DEF Send, AsyncSend, Disconnect
  <2>3. ASSUME NEW x \in Conns, Close(x) PROVE conn'[c] = conn[c] /\ phase'[c] = phase[c]
    <3>1. x # c /\ conn' = conn
      BY <1>1, <2>3 DEF Close
    <3> QED BY <1>1, <2>3, <3>1 DEF Close
  <2> QED BY <1>6, <2>1, <2>2, <2>3 DEF AppNext
<1>7. CASE KernelNext
  <2>1. CASE ClientArrives
    <3>1. acc.conn # c
      BY <1>1, <2>1 DEF ClientArrives, LifeInv, AccOK
    <3> QED BY <1>1, <2>1, <3>1 DEF ClientArrives
  <2>2. ASSUME NEW x \in Conns, \/ DataArrives(x) \/ RecvEnds(x) \/ SendCompletes(x)
                                \/ DisconnectCompletes(x) \/ ConnectCompletes(x)
        PROVE  conn'[c] = conn[c] /\ phase'[c] = phase[c]
    <3>1. x # c
      BY <1>1, <1>2, <2>2 DEF DataArrives, RecvEnds, SendCompletes, DisconnectCompletes,
                              ConnectCompletes
    <3>2. phase' = phase /\ \E e : conn' = [conn EXCEPT ![x] = e]
      BY <2>2 DEF DataArrives, RecvEnds, SendCompletes, DisconnectCompletes, ConnectCompletes,
                  Completes
    <3> QED BY <1>3, <3>1, <3>2
  <2> QED BY <1>7, <2>1, <2>2 DEF KernelNext, Conns
<1>8. ASSUME NEW w \in Workers, WorkerNext(w) PROVE conn'[c] = conn[c] /\ phase'[c] = phase[c]
  <2>1. CASE DequeueAccept(w) \/ EndAccept(w) \/ CloseFailed(w) \/ TakeEmptyPacket(w)
    BY <1>4, <2>1 DEF DequeueAccept, EndAccept, CloseFailed, TakeEmptyPacket
  <2>2. ASSUME th[w].pc \in {"update", "unref", "firstunref"} PROVE th[w].conn # c
    BY <1>1, <2>2 DEF Held
  <2>3. CASE UpdateAccept(w)
    <3>1. th[w].conn # c
      BY <2>2, <2>3 DEF UpdateAccept
    <3> QED BY <1>1, <2>3, <3>1 DEF UpdateAccept, Announce
  <2>4. CASE Unref(w) \/ FirstUnref(w)
    <3>1. th[w].conn # c /\ phase' = phase
      BY <2>2, <2>4 DEF Unref, FirstUnref
    <3> QED BY <1>1, <2>4, <3>1 DEF Unref, FirstUnref
  <2>5. CASE FirstRecv(w) \/ Reject(w)
    <3>1. PICK b \in {0, 1} : \E d : FirstStep(w, d, b)
      BY <2>5, FirstSteps
    <3>2. th'[w].pc \notin Held
      BY <1>1, <3>1 DEF FirstStep, After, At, Idle, Held
    <3>3. th[w].conn # c /\ phase' = phase
      BY <1>1, <2>5, <3>2 DEF FirstRecv, Reject
    <3> QED BY <1>3, <3>1, <3>3 DEF FirstStep, Step
  <2>6. ASSUME NEW x \in Conns, OfConn(w, x) PROVE conn'[c] = conn[c] /\ phase'[c] = phase[c]
    <3>1. x # c
      BY <1>1, <1>2, <2>6 DEF OfConn, DequeueDisconnect, DequeueRecv, DequeueSent
    <3>2. /\ \E e : conn' = [conn EXCEPT ![x] = e]
          /\ phase' = phase \/ \E e : phase' = [phase EXCEPT ![x] = e]
      BY <2>6 DEF OfConn, DequeueDisconnect, DequeueRecv, DequeueSent, RecvPends, RecvRefused
    <3> QED BY <1>3, <3>1, <3>2
  <2>7. ASSUME NEW x \in Clients, OfConnect(w, x) PROVE conn'[c] = conn[c] /\ phase'[c] = phase[c]
    <3>1. x # c
      BY <1>1, <2>7 DEF OfConnect, DequeueConnect, DequeueConnectFailed
    <3>2. /\ \E e : conn' = [conn EXCEPT ![x] = e]
          /\ phase' = phase \/ \E e : phase' = [phase EXCEPT ![x] = e]
      BY <2>7 DEF OfConnect, DequeueConnect, DequeueConnectFailed, Announce
    <3> QED BY <1>3, <3>1, <3>2
  <2> QED BY <1>8, <2>1, <2>3, <2>4, <2>5, <2>6, <2>7 DEF WorkerNext, InHandler
<1> QED BY <1>5, <1>6, <1>7, <1>8 DEF Next

LEMMA ThreadsKept ==
  ASSUME Types, LifeInv, [Next]_vars, NEW W \in SUBSET Workers, \A u \in W : th'[u] = th[u],
         \A u \in W : th[u].conn \in Conns => Spared(th[u].conn),
         \A x \in Workers \ W : \A u \in W :
            th[u].pc \in Alone => th'[x].conn # th[u].conn
  PROVE  \A u \in W : ThreadOK(u)'
<1> SUFFICES ASSUME NEW u \in W PROVE ThreadOK(u)'
  OBVIOUS
<1>1. ThreadOK(u) /\ th'[u] = th[u] /\ u \in Workers
  BY DEF LifeInv
<1>2. CASE th[u].pc \in {"idle", "accepted", "left"}
  BY <1>1, <1>2 DEF ThreadOK, Alone, Held, Counting
<1>3. CASE th[u].pc \in Counting
  <2>1. th[u].conn \in Conns /\ phase[th[u].conn] \in {"open", "talking"}
    BY <1>1, <1>3 DEF ThreadOK
  <2>2. phase'[th[u].conn] \in {"open", "talking"}
    BY <2>1 DEF Spared
  <2> QED BY <1>1, <1>3, <2>1, <2>2 DEF ThreadOK, Alone, Held, Counting
<1>4. CASE th[u].pc \in Alone
  <2> DEFINE c == th[u].conn
  <2>1. c \in Conns
    BY <1>1, <1>4 DEF ThreadOK, Conns, Alone
  <2>2. life'[c] = "alive" /\ (acc'.conn # c \/ acc'.conn = acc.conn)
    BY <2>1 DEF Spared
  <2>3. \A x \in Workers : th'[x].conn = c => x = u
    <3> SUFFICES ASSUME NEW x \in Workers, th'[x].conn = c PROVE x = u
      OBVIOUS
    <3>1. x \in W
      BY <1>4
    <3>2. th[x].conn = c
      BY <3>1
    <3> QED BY <1>1, <1>4, <3>2 DEF ThreadOK
  <2>4. th'[u].pc = th[u].pc /\ th'[u].conn = c
    BY <1>1
  <2>5. CASE th[u].pc = "update"
    <3>1. c \in Servers /\ phase[c] = "idle" /\ c # acc.conn
      BY <1>1, <2>5 DEF ThreadOK
    <3>2. phase'[c] = "idle"
      BY <2>1, <3>1 DEF Spared
    <3> QED BY <2>2, <2>3, <2>4, <2>5, <3>1, <3>2 DEF ThreadOK, Held, Counting
  <2>6. CASE th[u].pc = "failed"
    <3>1. c \in Clients /\ phase[c] = "failed"
      BY <1>1, <2>6 DEF ThreadOK
    <3>2. phase'[c] = "failed"
      BY <2>1, <3>1 DEF Spared
    <3> QED BY <2>2, <2>3, <2>4, <2>6, <3>1, <3>2 DEF ThreadOK, Held, Counting
  <2>7. CASE th[u].pc \in Held
    <3>1. phase[c] = Told(th[u].pc) /\ Unused(conn[c])
      BY <1>1, <2>7 DEF ThreadOK
    <3>2. conn'[c] = conn[c] /\ phase'[c] = phase[c]
      BY <1>1, <2>7, HeldKept
    <3> QED BY <2>1, <2>3, <2>4, <2>7, <3>1, <3>2 DEF ThreadOK, Held, Counting
  <2> QED BY <1>4, <2>5, <2>6, <2>7 DEF Alone
<1>5. th[u].pc \in {"idle", "accepted", "left"} \cup Alone \cup Counting
  BY <1>1 DEF Types, ThreadRecords, Alone, Held, Counting
<1> QED BY <1>2, <1>3, <1>4, <1>5

(* A step of w that leaves it a connection, or none, that it can deal with.*)
LEMMA OneThread ==
  ASSUME Types, LifeInv, [Next]_vars, NEW w \in Workers, NEW v, th' = [th EXCEPT ![w] = v],
         \A u \in Workers \ {w} : th[u].conn \in Conns => Spared(th[u].conn),
         \A u \in Workers \ {w} :
            v.conn \in Conns => th[u].conn # v.conn \/ (v.pc \in Counting /\ th[u].pc \in Counting),
         \/ v.pc \in {"idle", "accepted", "left"} /\ v.conn = NoConn
         \/ v.pc = "update" /\ v.conn \in Servers /\ life'[v.conn] = "alive" /\ phase'[v.conn] = "idle"
            /\ v.conn # acc'.conn
         \/ v.pc = "failed" /\ v.conn \in Clients /\ life'[v.conn] = "alive" /\ phase'[v.conn] = "failed"
         \/ v.pc \in Held /\ v.conn \in Conns /\ phase'[v.conn] = Told(v.pc) /\ Unused(conn'[v.conn])
         \/ v.pc \in Counting /\ v.conn \in Conns /\ phase'[v.conn] \in {"open", "talking"}
  PROVE  \A u \in Workers : ThreadOK(u)'
<1>1. th'[w] = v /\ \A u \in Workers \ {w} : th'[u] = th[u]
  BY DEF Types
<1>2. \A u \in Workers \ {w} : ThreadOK(u)'
  <2>1. ASSUME NEW u \in Workers \ {w}, th[u].pc \in Alone PROVE v.conn # th[u].conn
    <3>1. th[u].conn \in Conns /\ th[u].pc \notin Counting
      BY <2>1 DEF LifeInv, ThreadOK, Conns, Alone, Held, Counting
    <3> QED BY <2>1, <3>1
  <2> DEFINE W == Workers \ {w}
  <2>2. /\ W \in SUBSET Workers /\ \A u \in W : th'[u] = th[u]
        /\ \A u \in W : th[u].conn \in Conns => Spared(th[u].conn)
    BY <1>1
  <2>3. \A x \in Workers \ W : \A u \in W :
           th[u].pc \in Alone => th'[x].conn # th[u].conn
    BY <1>1, <2>1
  <2> HIDE DEF W
  <2>4. \A u \in W : ThreadOK(u)'
    BY <2>2, <2>3, ThreadsKept
  <2> QED BY <2>4 DEF W
<1>3. ASSUME v.pc \in Alone, NEW u \in Workers, th'[u].conn = v.conn PROVE u = w
  <2>1. v.conn \in Conns /\ v.pc \notin Counting
    BY <1>3 DEF Conns, Alone, Held, Counting
  <2> QED BY <1>1, <1>3, <2>1
<1>4. ThreadOK(w)'
  BY <1>1, <1>3 DEF ThreadOK, Alone, Held, Counting
<1> QED BY <1>2, <1>4

LEMMA NextThreads ==
  ASSUME Types, LifeInv, RefsInv, [Next]_vars
  PROVE  \A u \in Workers : ThreadOK(u)'
<1>1. /\ life \in [Conns -> {"none", "alive", "deleted"}] /\ th \in [Workers -> ThreadRecords]
      /\ phase \in [Conns -> {"idle", "rejected", "open", "talking", "lost", "failed"}]
      /\ \A c \in Conns : ConnOK(c) /\ conn[c] \in Records
      /\ acc \in Accepts /\ NoConn \notin Conns /\ AccOK
  BY TcpAssumption DEF Types, LifeInv
<1>2. \A c \in Clients : c \in Conns /\ c \notin Servers
  BY TcpAssumption DEF Conns
<1>3. ASSUME th' = th, \A u \in Workers : th[u].conn \in Conns => Spared(th[u].conn)
      PROVE  \A u \in Workers : ThreadOK(u)'
  BY <1>3, ThreadsKept
<1>4. ASSUME UNCHANGED <<life, phase>>, acc'.conn = acc.conn, NEW u \in Workers, th[u].conn \in Conns
      PROVE  Spared(th[u].conn)
  BY <1>4, InHand DEF Spared
<1>5. ASSUME UNCHANGED <<life, phase, th>>, acc'.conn = acc.conn PROVE \A u \in Workers : ThreadOK(u)'
  BY <1>3, <1>4, <1>5
<1>6. ASSUME UNCHANGED vars \/ Stop \/ Destructors \/ KernelNext PROVE \A u \in Workers : ThreadOK(u)'
  <2>1. UNCHANGED <<life, phase, th>>
    BY <1>6 DEF vars, Stop, Destructors, AcceptsDone, ListComplete, Drained, WorkerDeleted,
                InputFreed, OutputFreed, KernelNext, ClientArrives, DisconnectCompletes,
                DataArrives, RecvEnds, SendCompletes, ConnectCompletes, Completes
  <2>2. acc'.conn = acc.conn
    <3>1. CASE acc' = acc
      BY <3>1
    <3>2. CASE Stop \/ ClientArrives
      BY <1>1, <3>2 DEF Stop, ClientArrives, Accepts
    <3> QED BY <1>6, <3>1, <3>2
            DEF vars, accVars, Destructors, AcceptsDone, ListComplete, Drained, WorkerDeleted,
                InputFreed, OutputFreed, KernelNext, DisconnectCompletes,
                DataArrives, RecvEnds, SendCompletes, ConnectCompletes, Completes
  <2> QED BY <1>5, <2>1, <2>2
<1>7. ASSUME NEW a \in Accepts, Accept(a), main = "created" \/ acc.req # "off", phase' = phase,
             a.req = "off", a.conn = NoConn, NEW u \in Workers, th[u].conn \in Conns
      PROVE  Spared(th[u].conn)
  <2>1. life[th[u].conn] = "alive"
    BY <1>7, InHand
  <2>2. life'[th[u].conn] = "alive" /\ acc'.conn # th[u].conn
    BY <1>1, <1>7, <2>1, AcceptOutcome
  <2> QED BY <1>7, <2>2 DEF Spared
<1>8. ASSUME Start PROVE \A u \in Workers : ThreadOK(u)'
  <2>1. /\ [acc EXCEPT !.running = 1] \in Accepts /\ [acc EXCEPT !.running = 1].req = "off"
        /\ [acc EXCEPT !.running = 1].conn = NoConn
    BY <1>1, <1>8 DEF Accepts, Start, AccOK
  <2> QED BY <1>3, <1>7, <1>8, <2>1 DEF Start
<1>9. ASSUME AppNext PROVE \A u \in Workers : ThreadOK(u)'
  <2>1. ASSUME NEW c \in Clients, Connect(c) PROVE \A u \in Workers : ThreadOK(u)'
    <3>1. ASSUME NEW u \in Workers, th[u].conn \in Conns PROVE Spared(th[u].conn)
      <4>1. life[th[u].conn] = "alive"
        BY <3>1, InHand
      <4>2. life'[th[u].conn] = "alive" /\ phase' = phase /\ acc' = acc
        BY <1>1, <2>1, <3>1, <4>1 DEF Connect, accVars
      <4> QED BY <4>2 DEF Spared
    <3> QED BY <1>3, <2>1, <3>1 DEF Connect
  <2>2. ASSUME NEW c \in Conns, Send(c) \/ Disconnect(c) PROVE \A u \in Workers : ThreadOK(u)'
    BY <1>5, <2>2 DEF Send, Disconnect, accVars
  <2>3. ASSUME NEW c \in Conns, Close(c) PROVE \A u \in Workers : ThreadOK(u)'
    <3>1. ASSUME NEW u \in Workers, th[u].conn \in Conns PROVE Spared(th[u].conn)
      <4>1. life[th[u].conn] = "alive" /\ phase[th[u].conn] # "lost"
        BY <3>1, InHand
      <4>2. th[u].conn # c
        BY <2>3, <4>1 DEF Close
      <4>3. life'[th[u].conn] = "alive" /\ phase'[th[u].conn] = phase[th[u].conn] /\ acc' = acc
        BY <1>1, <2>3, <3>1, <4>1, <4>2 DEF Close, ClosePushes, Delete
      <4> QED BY <4>3 DEF Spared
    <3> QED BY <1>3, <2>3, <3>1 DEF Close
  <2> QED BY <1>9, <2>1, <2>2, <2>3 DEF AppNext
<1>10. ASSUME NEW w \in Workers, DequeueAccept(w) PROVE \A u \in Workers : ThreadOK(u)'
  <2> DEFINE c == acc.conn v == At("update", c)
  <2>1. c \in Servers /\ c \in Conns /\ life[c] = "alive" /\ phase[c] = "idle" /\ c \notin Clients
    BY <1>1, <1>10, TcpAssumption DEF AccOK, DequeueAccept, Conns
  <2>2. /\ acc.req # "off" /\ NoRequest \in Accepts /\ NoRequest.req = "off" /\ NoRequest.conn = NoConn
        /\ Accept(NoRequest) /\ phase' = phase
    BY <1>1, <1>10, NoRequestAccepts DEF DequeueAccept
  <2>3. c # acc'.conn /\ life'[c] = "alive"
    BY <2>1, <2>2, <1>1, AcceptOutcome
  <2>4. \A u \in Workers : th[u].conn \in Conns => Spared(th[u].conn)
    BY <1>7, <2>2
  <2>5. ASSUME NEW u \in Workers PROVE th[u].conn # c
    BY <2>1, InHand
  <2>6. v.pc = "update" /\ v.conn = c /\ th' = [th EXCEPT ![w] = v]
    BY <1>10 DEF At, DequeueAccept
  <2>7. phase'[c] = "idle"
    BY <2>1, <2>2
  <2> HIDE DEF v, c
  <2>8. \A u \in Workers \ {w} : th[u].conn # v.conn
    BY <2>5, <2>6
  <2>9. \A u \in Workers \ {w} : th[u].conn \in Conns => Spared(th[u].conn)
    BY <2>4
  <2>10. v.conn \in Servers /\ life'[v.conn] = "alive" /\ phase'[v.conn] = "idle" /\ v.conn # acc'.conn
    BY <2>1, <2>3, <2>6, <2>7
  <2> QED BY <2>6, <2>8, <2>9, <2>10, OneThread
<1>11. Idle.pc = "idle" /\ Idle.conn = NoConn /\ \A pc, c : At(pc, c).pc = pc /\ At(pc, c).conn = c
  BY DEF Idle, At
<1>12. ASSUME NEW w \in Workers, UpdateAccept(w) PROVE \A u \in Workers : ThreadOK(u)'
  <2> DEFINE c == th[w].conn
  <2>1. c \in Conns /\ acc' = acc /\ life' = life
    BY <1>12 DEF LifeInv, ThreadOK, UpdateAccept, Conns, accVars
  <2>2. ASSUME NEW u \in Workers \ {w}, th[u].conn \in Conns PROVE Spared(th[u].conn)
    <3>1. th[u].conn # c /\ life[th[u].conn] = "alive"
      BY <1>12, <2>2, InHand DEF LifeInv, ThreadOK, UpdateAccept, Alone
    <3>2. phase'[th[u].conn] = phase[th[u].conn]
      BY <1>1, <1>12, <2>2, <3>1 DEF UpdateAccept, Announce
    <3> QED BY <2>1, <3>1, <3>2 DEF Spared
  <2>3. CASE th' = [th EXCEPT ![w] = At("accepted", NoConn)]
    <3>1. PICK v : v.pc = "accepted" /\ v.conn = NoConn /\ th' = [th EXCEPT ![w] = v]
      BY <1>11, <2>3
    <3> QED BY <1>1, <2>2, <3>1, OneThread
  <2>4. CASE Announce(w, c, [conn[c] EXCEPT !.connected = 1])
    <3>1. phase[c] = "idle" /\ th[w].pc = "update" /\ \A u \in Workers \ {w} : th[u].conn # c
      BY <1>12 DEF LifeInv, ThreadOK, UpdateAccept, Alone
    <3>2. Unused(conn'[c])
      <4>1. In(conn[c]) = 0 /\ Out(conn[c]) = 0
        BY <1>1, <2>1, <3>1, Numbers DEF ConnOK, Fits
      <4>2. conn'[c] = [conn[c] EXCEPT !.connected = 1]
        BY <2>1, <2>4 DEF Announce, Types
      <4>3. [conn[c] EXCEPT !.connected = 1].connected = 1
        BY <1>1, <2>1 DEF Records
      <4> QED BY <4>1, <4>2, <4>3 DEF Unused, In, Out
    <3>3. PICK v : /\ v.pc \in Held /\ v.conn = c /\ phase'[c] = Told(v.pc)
                   /\ th' = [th EXCEPT ![w] = v]
      BY <1>1, <1>11, <2>1, <2>4 DEF Announce, Held, Told
    <3>4. \A u \in Workers \ {w} : th[u].conn # v.conn
      BY <3>1, <3>3
    <3>5. v.conn \in Conns /\ phase'[v.conn] = Told(v.pc) /\ Unused(conn'[v.conn])
      BY <2>1, <3>2, <3>3
    <3> HIDE DEF c
    <3> QED BY <2>2, <3>3, <3>4, <3>5, OneThread
  <2> QED BY <1>12, <2>3, <2>4 DEF UpdateAccept
<1>21. ASSUME NEW w \in Workers, FirstRecv(w) \/ Reject(w) PROVE \A u \in Workers : ThreadOK(u)'
  <2> DEFINE c == th[w].conn
  <2>1. PICK b \in {0, 1} : \E d : FirstStep(w, d, b)
    BY <1>21, FirstSteps
  <2>2. /\ c \in Conns /\ phase[c] = Told(th[w].pc) /\ UNCHANGED <<life, phase, acc>>
        /\ \A u \in Workers \ {w} : th[u].conn # c
    BY <1>21, FirstSteps DEF LifeInv, ThreadOK, FirstRecv, Reject, accVars, Alone, Held
  <2>3. ASSUME NEW u \in Workers \ {w}, th[u].conn \in Conns PROVE Spared(th[u].conn)
    BY <1>4, <2>2, <2>3
  <2>4. CASE th' = [th EXCEPT ![w] = After(c)]
    <3>1. PICK v : v = After(c)
      OBVIOUS
    <3>2. v.pc \in {"idle", "accepted"} /\ v.conn = NoConn /\ th' = [th EXCEPT ![w] = v]
      BY <1>11, <2>4, <3>1 DEF After
    <3> QED BY <1>1, <2>3, <3>2, OneThread
  <2>5. CASE th' = [th EXCEPT ![w] = At("firstunref", c)] /\ th[w].pc = "firstrecv"
    <3>1. PICK v : v.pc = "firstunref" /\ v.conn = c /\ th' = [th EXCEPT ![w] = v]
      BY <1>11, <2>5
    <3>2. phase'[v.conn] = "open" /\ v.conn \in Conns /\ v.pc \in Counting
      BY <2>2, <2>5, <3>1 DEF Told, Counting
    <3>3. \A u \in Workers \ {w} : th[u].conn # v.conn
      BY <2>2, <3>1
    <3> QED BY <2>3, <3>1, <3>2, <3>3, OneThread
  <2> QED BY <2>1, <2>4, <2>5 DEF FirstStep
<1>13. ASSUME NEW w \in Workers, \/ EndAccept(w) \/ Unref(w) \/ FirstUnref(w)
                                 \/ TakeEmptyPacket(w) \/ CloseFailed(w)
       PROVE  \A u \in Workers : ThreadOK(u)'
  <2>1. phase' = phase /\ acc'.conn = acc.conn
    BY <1>1, <1>13 DEF EndAccept, Unref, FirstUnref, TakeEmptyPacket, CloseFailed, Delete,
                       accVars,
                       Accepts
  <2>2. ASSUME NEW u \in Workers \ {w}, th[u].conn \in Conns PROVE Spared(th[u].conn)
    <3>1. life[th[u].conn] = "alive"
      BY <2>2, InHand
    <3>2. CASE CloseFailed(w)
      <4>1. th[u].conn # th[w].conn
        BY <2>2, <3>2 DEF LifeInv, ThreadOK, CloseFailed, Alone
      <4>2. life'[th[u].conn] = "alive"
        BY <1>1, <2>2, <3>1, <3>2, <4>1 DEF CloseFailed, Delete
      <4> QED BY <2>1, <4>2 DEF Spared
    <3>3. CASE life' = life
      BY <2>1, <3>1, <3>3 DEF Spared
    <3> QED BY <1>13, <3>2, <3>3 DEF EndAccept, Unref, FirstUnref, TakeEmptyPacket
  <2>3. PICK v : /\ v.pc \in {"idle", "accepted", "left"} /\ v.conn = NoConn
                 /\ th' = [th EXCEPT ![w] = v]
    BY <1>11, <1>13 DEF EndAccept, Unref, FirstUnref, TakeEmptyPacket, CloseFailed, After
  <2> QED BY <1>1, <2>2, <2>3, OneThread
<1>14. ASSUME NEW w \in Workers, NEW c \in Conns, DequeueDisconnect(w, c)
       PROVE  \A u \in Workers : ThreadOK(u)'
  <2>1. /\ conn[c].own = "disconnected" /\ conn[c].iorefs = 0 /\ phase' = [phase EXCEPT ![c] = "lost"]
        /\ UNCHANGED <<life, acc, th>>
    BY <1>14 DEF DequeueDisconnect, accVars
  <2>2. ASSUME NEW u \in Workers, th[u].conn \in Conns PROVE Spared(th[u].conn)
    <3>1. th[u].conn # c
      <4>1. th[u].conn = c => th[u].pc \notin Counting
        BY <2>1, CountedOut
      <4> QED BY <2>1, <4>1, InHand
    <3>2. phase'[th[u].conn] = phase[th[u].conn] /\ life[th[u].conn] = "alive"
      BY <1>1, <2>1, <2>2, <3>1, InHand
    <3> QED BY <2>1, <3>2 DEF Spared
  <2> QED BY <1>3, <2>1, <2>2
<1>15. ASSUME NEW c \in Conns, conn[c].recv # "off" \/ conn[c].sent > 0
       PROVE  phase[c] \in {"open", "talking"} /\ \A u \in Workers : th[u].conn = c => th[u].pc \in Counting
  <2>1. In(conn[c]) + Out(conn[c]) > 0
    BY <1>1, <1>15, Numbers DEF Out
  <2>2. phase[c] \in {"open", "talking"}
    BY <1>1, <2>1 DEF ConnOK, Fits
  <2>3. ~Unused(conn[c])
    BY <2>1 DEF Unused
  <2> QED BY <2>2, <2>3, InHand
<1>16. ASSUME NEW w \in Workers, NEW c \in Conns, DequeueRecv(w, c) \/ DequeueSent(w, c)
       PROVE  \A u \in Workers : ThreadOK(u)'
  <2>1. /\ phase[c] \in {"open", "talking"} /\ \A u \in Workers : th[u].conn = c => th[u].pc \in Counting
    BY <1>15, <1>16 DEF DequeueRecv, DequeueSent
  <2>2. /\ phase' = phase \/ phase' = [phase EXCEPT ![c] = "talking"]
        /\ UNCHANGED <<life, acc>>
    BY <1>16 DEF DequeueRecv, DequeueSent, accVars
  <2>3. ASSUME NEW u \in Workers \ {w}, th[u].conn \in Conns PROVE Spared(th[u].conn)
    <3>1. life[th[u].conn] = "alive"
      BY <2>3, InHand
    <3>2. phase'[th[u].conn] = phase[th[u].conn] \/ {phase[th[u].conn], phase'[th[u].conn]} \subseteq {"open", "talking"}
      BY <1>1, <2>1, <2>2, <2>3
    <3> QED BY <2>2, <3>1, <3>2 DEF Spared
  <2>4. PICK v : v.pc = "unref" /\ v.conn = c /\ th' = [th EXCEPT ![w] = v]
    BY <1>11, <1>16 DEF DequeueRecv, DequeueSent
  <2>5. phase'[c] \in {"open", "talking"}
    BY <1>1, <2>1, <2>2
  <2>6. v.pc \in Counting /\ \A u \in Workers \ {w} : th[u].conn # v.conn \/ th[u].pc \in Counting
    BY <2>1, <2>4 DEF Counting
  <2> QED BY <2>3, <2>4, <2>5, <2>6, OneThread
<1>17. ASSUME NEW c \in Clients, conn[c].own \in {"connectok", "connectbad"}
       PROVE  phase[c] = "idle" /\ life[c] = "alive" /\ \A u \in Workers : th[u].conn # c
  <2>1. phase[c] = "idle" /\ life[c] = "alive"
    BY <1>1, <1>2, <1>17 DEF ConnOK, Fits, Connecting
  <2>2. ASSUME NEW u \in Workers PROVE th[u].conn # c
    BY <1>2, <1>17, <2>1, InHand
  <2> QED BY <2>1, <2>2
<1>18. ASSUME NEW w \in Workers, NEW c \in Clients, DequeueConnect(w, c)
       PROVE  \A u \in Workers : ThreadOK(u)'
  <2>1. \A u \in Workers : th[u].conn # c
    BY <1>17, <1>18 DEF DequeueConnect
  <2>2. ASSUME NEW u \in Workers, th[u].conn \in Conns PROVE Spared(th[u].conn)
    <3>1. life[th[u].conn] = "alive" /\ phase'[th[u].conn] = phase[th[u].conn]
      BY <1>1, <1>18, <2>1, <2>2, InHand DEF DequeueConnect, Announce
    <3> QED BY <1>18, <3>1 DEF Spared, DequeueConnect, accVars
  <2>3. CASE th' = th
    BY <1>3, <2>2, <2>3
  <2>4. CASE Announce(w, c, [conn[c] EXCEPT !.own = "off", !.connected = 1])
    <3>1. c \in Conns /\ phase[c] = "idle"
      BY <1>2, <1>17, <1>18 DEF DequeueConnect
    <3>2. Unused(conn'[c])
      <4>1. In(conn[c]) = 0 /\ Out(conn[c]) = 0
        BY <1>1, <3>1, Numbers DEF ConnOK, Fits
      <4>2. conn'[c] = [conn[c] EXCEPT !.own = "off", !.connected = 1]
        BY <2>4, <3>1 DEF Announce, Types
      <4>3. /\ [conn[c] EXCEPT !.own = "off", !.connected = 1].connected = 1
            /\ [conn[c] EXCEPT !.own = "off", !.connected = 1].recv = conn[c].recv
            /\ [conn[c] EXCEPT !.own = "off", !.connected = 1].sends = conn[c].sends
            /\ [conn[c] EXCEPT !.own = "off", !.connected = 1].sent = conn[c].sent
        BY <1>1, <3>1 DEF Records
      <4> QED BY <4>1, <4>2, <4>3 DEF Unused, In, Out
    <3>3. PICK v : /\ v.pc \in Held /\ v.conn = c /\ phase'[c] = Told(v.pc)
                   /\ th' = [th EXCEPT ![w] = v]
      BY <1>1, <1>11, <2>4, <3>1 DEF Announce, Held, Told
    <3>4. \A u \in Workers \ {w} : th[u].conn # v.conn
      BY <2>1, <3>3
    <3>5. v.conn \in Conns /\ phase'[v.conn] = Told(v.pc) /\ Unused(conn'[v.conn])
      BY <3>1, <3>2, <3>3
    <3> QED BY <2>2, <3>3, <3>4, <3>5, OneThread
  <2> QED BY <1>18, <2>3, <2>4 DEF DequeueConnect
<1>19. ASSUME NEW w \in Workers, NEW c \in Clients, DequeueConnectFailed(w, c)
       PROVE  \A u \in Workers : ThreadOK(u)'
  <2>1. c \in Conns /\ life[c] = "alive" /\ \A u \in Workers : th[u].conn # c
    BY <1>2, <1>17, <1>19 DEF DequeueConnectFailed
  <2>2. /\ phase' = [phase EXCEPT ![c] = "failed"] /\ UNCHANGED <<life, acc>>
    BY <1>19 DEF DequeueConnectFailed, accVars
  <2>3. ASSUME NEW u \in Workers \ {w}, th[u].conn \in Conns PROVE Spared(th[u].conn)
    <3>1. life[th[u].conn] = "alive" /\ phase'[th[u].conn] = phase[th[u].conn]
      BY <1>1, <2>1, <2>2, <2>3, InHand
    <3> QED BY <2>2, <3>1 DEF Spared
  <2>4. PICK v : v.pc = "failed" /\ v.conn = c /\ th' = [th EXCEPT ![w] = v]
    BY <1>11, <1>19 DEF DequeueConnectFailed
  <2>5. life'[c] = "alive" /\ phase'[c] = "failed"
    BY <1>1, <2>1, <2>2
  <2>6. \A u \in Workers \ {w} : th[u].conn # v.conn
    BY <2>1, <2>4
  <2> QED BY <2>3, <2>4, <2>5, <2>6, OneThread
<1>20. ASSUME NEW w \in Workers, WorkerNext(w) PROVE \A u \in Workers : ThreadOK(u)'
  BY <1>10, <1>12, <1>13, <1>14, <1>16, <1>18, <1>19, <1>20, <1>21 DEF WorkerNext, InHandler,
     OfConn, OfConnect
<1> QED BY <1>6, <1>8, <1>9, <1>20 DEF Next

------------------------------------------------------------------------------
(* Every step keeps the acceptor's connection and its free list            *)

LEMMA AcceptorAtRest ==
  ASSUME Types, LifeInv, acc.req # "off"
  PROVE  AtRest(acc.conn) /\ main # "created"
<1>1. /\ acc.conn \in Servers /\ acc.conn \in Conns /\ life[acc.conn] = "alive"
      /\ phase[acc.conn] = "idle" /\ main # "created" /\ acc.conn \notin Clients
  BY TcpAssumption DEF LifeInv, AccOK, Conns
<1>2. \A w \in Workers : th[w].conn # acc.conn
  BY <1>1, InHand
<1> QED BY <1>1, <1>2 DEF AtRest

(* Accept is called by Start, and by a thread that took an accept.         *)
AcceptCalls == Start \/ \E w \in Workers : DequeueAccept(w)

LEMMA AcceptCalled ==
  ASSUME Types, LifeInv, AcceptCalls
  PROVE  \E a \in Accepts : /\ Accept(a) /\ a.req = "off" /\ a.conn = NoConn
                            /\ main = "created" \/ acc.req # "off"
                            /\ main' # "created" /\ UNCHANGED <<conn, phase, poolVars, closes>>
<1>1. acc \in Accepts /\ AccOK
  BY DEF Types, LifeInv
<1>2. CASE Start
  <2>1. /\ [acc EXCEPT !.running = 1] \in Accepts /\ [acc EXCEPT !.running = 1].req = "off"
        /\ [acc EXCEPT !.running = 1].conn = NoConn
    BY <1>1, <1>2 DEF Accepts, Start, AccOK
  <2> QED BY <1>2, <2>1 DEF Start
<1>3. ASSUME NEW w \in Workers, DequeueAccept(w)
      PROVE  /\ NoRequest \in Accepts /\ Accept(NoRequest) /\ NoRequest.req = "off"
             /\ NoRequest.conn = NoConn /\ acc.req # "off"
             /\ main' # "created" /\ UNCHANGED <<conn, phase, poolVars, closes>>
  BY <1>1, <1>3, NoRequestAccepts, AcceptorAtRest DEF DequeueAccept
<1> QED BY <1>2, <1>3 DEF AcceptCalls

LEMMA AcceptorKept ==
  ASSUME Types, LifeInv, [Next]_vars, ~AcceptCalls
  PROVE  /\ acc'.conn = acc.conn
         /\ (acc'.req = "off" <=> acc.req = "off")
         /\ main' = "created" => main = "created"
         /\ free' = free \/ \E c \in Servers : Close(c)
<1>1. acc \in Accepts
  BY DEF Types
<1>2. CASE UNCHANGED <<acc, free>> /\ (main' = main \/ main' # "created")
  BY <1>2
<1>3. CASE UNCHANGED vars \/ Destructors
  BY <1>2, <1>3 DEF vars, accVars, Destructors, AcceptsDone, ListComplete, Drained, WorkerDeleted,
                    InputFreed, OutputFreed
<1>4. CASE Stop \/ ClientArrives
  BY <1>1, <1>4 DEF Stop, ClientArrives, Accepts
<1>5. CASE KernelNext /\ ~ClientArrives
  BY <1>2, <1>5 DEF KernelNext, accVars, DisconnectCompletes, DataArrives, RecvEnds,
                    SendCompletes, ConnectCompletes, Completes
<1>6. CASE AppNext
  BY <1>2, <1>6 DEF AppNext, accVars, Connect, Send, Disconnect, Close, Delete
<1>7. ASSUME NEW w \in Workers, WorkerNext(w), ~DequeueAccept(w)
      PROVE  /\ acc'.conn = acc.conn
             /\ (acc'.req = "off" <=> acc.req = "off")
             /\ UNCHANGED <<main, free>>
  <2>1. CASE EndAccept(w)
    BY <1>1, <2>1 DEF EndAccept, Accepts
  <2>2. CASE ~EndAccept(w)
    BY <1>7, <2>2 DEF WorkerNext, InHandler, OfConn, OfConnect, UpdateAccept, FirstRecv, Reject,
                      FirstUnref, CloseFailed, Unref, Delete,
                      TakeEmptyPacket, DequeueDisconnect, DequeueRecv, DequeueSent, DequeueConnect,
                      DequeueConnectFailed, accVars
  <2> QED BY <2>1, <2>2
<1> QED BY <1>3, <1>4, <1>5, <1>6, <1>7 DEF Next, AcceptCalls

LEMMA NextAcc ==
  ASSUME Types, LifeInv, RefsInv, [Next]_vars
  PROVE  AccOK'
<1>1. AccOK /\ \A c \in Servers : c \in Conns
  BY DEF LifeInv, Conns
<1>2. CASE AcceptCalls
  <2>1. PICK a \in Accepts : /\ Accept(a) /\ a.req = "off" /\ a.conn = NoConn
                             /\ main = "created" \/ acc.req # "off"
                             /\ main' # "created" /\ UNCHANGED <<conn, phase, poolVars, closes>>
    BY <1>2, AcceptCalled
  <2> QED BY <1>1, <2>1, AcceptOutcome DEF AccOK
<1>3. CASE ~AcceptCalls
  <2>1. /\ acc'.conn = acc.conn
        /\ (acc'.req = "off" <=> acc.req = "off")
        /\ main' = "created" => main = "created"
    BY <1>3, AcceptorKept
  <2>2. CASE acc.req = "off"
    BY <1>1, <2>1, <2>2 DEF AccOK
  <2>3. CASE acc.req # "off"
    <3>1. AtRest(acc.conn) /\ main # "created" /\ acc.conn \in Servers
      BY <2>3, AcceptorAtRest DEF AtRest
    <3>2. life'[acc.conn] = "alive" /\ phase'[acc.conn] = "idle"
      BY <3>1, RestStays
    <3> QED BY <2>1, <2>3, <3>1, <3>2 DEF AccOK
  <2> QED BY <2>2, <2>3
<1> QED BY <1>2, <1>3

(* The order of a stack, and that nobody deals with what is on it.         *)
Linked(f, l) ==
  /\ l.head = IF l.depth = 0 THEN NoConn ELSE f[l.depth]
  /\ \A i \in 1 .. l.depth : l.next[f[i]] = IF i = 1 THEN NoConn ELSE f[i - 1]
  /\ \A i, j \in 1 .. l.depth : f[i] = f[j] => i = j

Untouched(f, l) == \A i \in 1 .. l.depth : AtRest(f[i]) /\ f[i] # acc.conn

LEMMA StackParts ==
  ASSUME NEW f \in [1 .. free.depth -> Servers]
  PROVE  Stack(f) <=> Linked(f, free) /\ Untouched(f, free)
<1>1. \A i \in 1 .. free.depth : f[i] \in Servers
  OBVIOUS
<1> QED BY <1>1 DEF Stack, Linked, Untouched, AtRest

(* m is the list l with c pushed onto it, f the order of l.                *)
Pushes(f, l, c, m) ==
  \E g \in [1 .. m.depth -> Servers] :
    /\ Linked(g, m)
    /\ \A i \in 1 .. m.depth : g[i] = c \/ (i \in 1 .. l.depth /\ g[i] = f[i])

LEMMA PushLinked ==
  ASSUME NEW l \in FreeLists, l.depth >= 0, NEW f \in [1 .. l.depth -> Servers], Linked(f, l),
         NEW c \in Servers, \A i \in 1 .. l.depth : f[i] # c, NEW m \in FreeLists,
         m.depth = l.depth + 1, m.head = c, m.next = [l.next EXCEPT ![c] = l.head]
  PROVE  Pushes(f, l, c, m)
<1> DEFINE g == [i \in 1 .. m.depth |-> IF i = m.depth THEN c ELSE f[i]]
<1>1. l.depth \in Int /\ l.next \in [Conns -> Conns \cup {NoConn}] /\ c \in Conns
  BY DEF FreeLists, Conns
<1>2. g \in [1 .. m.depth -> Servers]
  BY <1>1
<1>3. g[m.depth] = c /\ \A i \in 1 .. l.depth : g[i] = f[i] /\ i \in 1 .. m.depth /\ i # m.depth
  BY <1>1
<1>4. \A i \in 1 .. m.depth : i = m.depth \/ i \in 1 .. l.depth
  BY <1>1
<1> HIDE DEF g
<1>5. m.depth # 0 /\ m.head = g[m.depth]
  BY <1>1, <1>3
<1>6. ASSUME NEW i \in 1 .. m.depth PROVE m.next[g[i]] = IF i = 1 THEN NoConn ELSE g[i - 1]
  <2>1. CASE i = m.depth
    <3>1. m.next[g[i]] = l.head
      BY <1>1, <1>3, <2>1
    <3>2. CASE l.depth = 0
      BY <2>1, <3>1, <3>2 DEF Linked
    <3>3. CASE l.depth # 0
      <4>1. l.head = f[l.depth] /\ l.depth \in 1 .. l.depth /\ i - 1 = l.depth /\ i # 1
        BY <1>1, <2>1, <3>3 DEF Linked
      <4> QED BY <1>3, <3>1, <4>1
    <3> QED BY <3>2, <3>3
  <2>2. CASE i \in 1 .. l.depth
    <3>1. f[i] \in Conns /\ f[i] # c /\ g[i] = f[i]
      BY <1>3, <2>2 DEF Conns
    <3>2. m.next[g[i]] = l.next[f[i]]
      BY <1>1, <3>1
    <3>3. i # 1 => i - 1 \in 1 .. l.depth
      BY <1>1, <2>2
    <3>4. i # 1 => g[i - 1] = f[i - 1]
      BY <1>3, <3>3
    <3> QED BY <2>2, <3>2, <3>4 DEF Linked
  <2> QED BY <1>4, <2>1, <2>2
<1>7. ASSUME NEW i \in 1 .. m.depth, NEW j \in 1 .. m.depth, g[i] = g[j] PROVE i = j
  BY <1>3, <1>4, <1>7 DEF Linked
<1>8. Linked(g, m)
  BY <1>5, <1>6, <1>7 DEF Linked
<1> QED BY <1>2, <1>3, <1>4, <1>8 DEF Pushes

LEMMA PopLinked ==
  ASSUME NEW l \in FreeLists, l.depth >= 0, NEW f \in [1 .. l.depth -> Servers], Linked(f, l),
         l.head # NoConn, NEW m \in FreeLists,
         m.depth = l.depth - 1, m.head = l.next[l.head], m.next = l.next
  PROVE  \E g \in [1 .. m.depth -> Servers] :
           /\ Linked(g, m) /\ m.depth >= 0
           /\ \A i \in 1 .. m.depth : g[i] # l.head /\ i \in 1 .. l.depth /\ g[i] = f[i]
<1>1. l.depth \in Nat \ {0} /\ l.depth \in 1 .. l.depth /\ l.head = f[l.depth]
  BY DEF FreeLists, Linked
<1> DEFINE g == [i \in 1 .. m.depth |-> f[i]]
<1>2. \A i \in 1 .. m.depth : i \in 1 .. l.depth /\ i # l.depth /\ g[i] = f[i] /\ (i # 1 => i - 1 \in 1 .. m.depth)
  BY <1>1
<1>3. g \in [1 .. m.depth -> Servers]
  BY <1>2
<1>4. \A i \in 1 .. m.depth : i # 1 => g[i - 1] = f[i - 1]
  BY <1>2
<1> HIDE DEF g
<1>5. m.head = IF l.depth = 1 THEN NoConn ELSE f[l.depth - 1]
  BY <1>1 DEF Linked
<1>6. m.depth # 0 => m.depth \in 1 .. m.depth /\ m.depth = l.depth - 1 /\ l.depth # 1
  BY <1>1
<1>7. m.head = IF m.depth = 0 THEN NoConn ELSE g[m.depth]
  BY <1>1, <1>2, <1>5, <1>6
<1>8. \A i \in 1 .. m.depth : m.next[g[i]] = IF i = 1 THEN NoConn ELSE g[i - 1]
  BY <1>2, <1>4 DEF Linked
<1>9. \A i, j \in 1 .. m.depth : g[i] = g[j] => i = j
  BY <1>2 DEF Linked
<1>10. \A i \in 1 .. m.depth : g[i] # l.head
  BY <1>1, <1>2 DEF Linked
<1>11. m.depth >= 0
  BY <1>1
<1>12. Linked(g, m)
  BY <1>7, <1>8, <1>9 DEF Linked
<1> QED BY <1>2, <1>3, <1>10, <1>11, <1>12

LEMMA NextFree ==
  ASSUME Types, LifeInv, RefsInv, [Next]_vars
  PROVE  FreeOK'
<1>1. free.depth \in Int /\ free.depth >= 0 /\ free \in FreeLists
  BY DEF LifeInv, FreeOK, Types, FreeLists
<1>2. ASSUME main = "created" \/ acc.req # "off"
      PROVE  \E f \in [1 .. free.depth -> Servers] : Linked(f, free) /\ Untouched(f, free)
  <2>1. PICK f \in [1 .. free.depth -> Servers] : Stack(f)
    BY <1>2 DEF LifeInv, FreeOK
  <2> QED BY <2>1, StackParts
<1>3. ASSUME free'.depth >= 0, acc'.conn = acc.conn,
             main' = "created" \/ acc'.req # "off" =>
               \E g \in [1 .. free'.depth -> Servers] :
                 Linked(g, free') /\ \A i \in 1 .. free'.depth : AtRest(g[i])' /\ g[i] # acc.conn
      PROVE  FreeOK'
  <2>1. ASSUME main' = "created" \/ acc'.req # "off"
        PROVE  \E g \in [1 .. free'.depth -> Servers] : Stack(g)'
    <3>1. PICK g \in [1 .. free'.depth -> Servers] :
             Linked(g, free') /\ \A i \in 1 .. free'.depth : AtRest(g[i])' /\ g[i] # acc.conn
      BY <1>3, <2>1
    <3>2. Stack(g)'
      BY <1>3, <3>1 DEF Stack, Linked, AtRest
    <3> QED BY <3>2
  <2> QED BY <1>3, <2>1 DEF FreeOK
<1>4. CASE ~AcceptCalls
  <2>1. /\ acc'.conn = acc.conn
        /\ main' = "created" \/ acc'.req # "off" => main = "created" \/ acc.req # "off"
        /\ free' = free \/ \E c \in Servers : Close(c)
    BY <1>4, AcceptorKept
  <2>2. CASE free' = free
    <3>1. ASSUME main' = "created" \/ acc'.req # "off"
          PROVE  \E g \in [1 .. free'.depth -> Servers] :
                   Linked(g, free') /\ \A i \in 1 .. free'.depth : AtRest(g[i])' /\ g[i] # acc.conn
      <4>1. PICK f \in [1 .. free.depth -> Servers] : Linked(f, free) /\ Untouched(f, free)
        BY <1>2, <2>1, <3>1
      <4>2. \A i \in 1 .. free.depth : AtRest(f[i])' /\ f[i] # acc.conn
        BY <4>1, RestStays DEF Untouched
      <4> QED BY <2>2, <4>1, <4>2
    <3> QED BY <1>1, <1>3, <2>1, <2>2, <3>1
  <2>3. ASSUME NEW c \in Servers, Close(c) PROVE FreeOK'
    <3>1. /\ c \in Conns /\ phase[c] = "lost" /\ phase' = [phase EXCEPT ![c] = "idle"]
          /\ free' = SPush(free, c) /\ UNCHANGED <<life, acc, th, main>>
      BY <2>3, TcpAssumption, LostQuiet DEF Close, ClosePushes, Conns
    <3>2. /\ free' \in FreeLists /\ free'.depth = free.depth + 1 /\ free'.head = c
          /\ free'.next = [free.next EXCEPT ![c] = free.head]
      BY <1>1, <3>1, FreeListSteps
    <3>3. ASSUME main' = "created" \/ acc'.req # "off"
          PROVE  \E g \in [1 .. free'.depth -> Servers] :
                   Linked(g, free') /\ \A i \in 1 .. free'.depth : AtRest(g[i])' /\ g[i] # acc.conn
      <4>1. PICK f \in [1 .. free.depth -> Servers] : Linked(f, free) /\ Untouched(f, free)
        BY <1>2, <2>1, <3>3
      <4>2. \A i \in 1 .. free.depth : f[i] # c
        BY <3>1, <4>1 DEF Untouched, AtRest
      <4>3. PICK g \in [1 .. free'.depth -> Servers] :
              /\ Linked(g, free')
              /\ \A i \in 1 .. free'.depth : g[i] = c \/ (i \in 1 .. free.depth /\ g[i] = f[i])
        <5>1. PICK m : m = free'
          OBVIOUS
        <5>2. /\ m \in FreeLists /\ m.depth = free.depth + 1 /\ m.head = c
              /\ m.next = [free.next EXCEPT ![c] = free.head]
          BY <3>2, <5>1
        <5>3. Pushes(f, free, c, m)
          BY <1>1, <4>1, <4>2, <5>2, PushLinked
        <5> QED BY <5>1, <5>3 DEF Pushes
      <4>4. AtRest(c)' /\ c # acc.conn
        <5>1. life[c] = "alive"
          BY <3>1 DEF LifeInv, ConnOK, Fits, Types
        <5>2. \A w \in Workers : th[w].conn # c
          BY <3>1, InHand
        <5>3. phase'[c] = "idle"
          BY <3>1 DEF Types
        <5>4. c # acc.conn
          BY <3>1, TcpAssumption DEF LifeInv, AccOK
        <5> QED BY <3>1, <5>1, <5>2, <5>3, <5>4 DEF AtRest
      <4>5. \A i \in 1 .. free.depth : AtRest(f[i])' /\ f[i] # acc.conn
        BY <4>1, RestStays DEF Untouched
      <4>6. \A i \in 1 .. free'.depth : AtRest(g[i])' /\ g[i] # acc.conn
        <5> SUFFICES ASSUME NEW i \in 1 .. free'.depth PROVE AtRest(g[i])' /\ g[i] # acc.conn
          OBVIOUS
        <5>1. g[i] = c \/ (i \in 1 .. free.depth /\ g[i] = f[i])
          BY <4>3
        <5>2. CASE g[i] = c
          BY <4>4, <5>2
        <5>3. CASE i \in 1 .. free.depth /\ g[i] = f[i]
          BY <4>5, <5>3
        <5> QED BY <5>1, <5>2, <5>3
      <4> QED BY <4>3, <4>6
    <3> QED BY <1>1, <1>3, <2>1, <3>2, <3>3
  <2> QED BY <2>1, <2>2, <2>3
<1>5. CASE AcceptCalls
  <2>1. PICK a \in Accepts : /\ Accept(a) /\ a.req = "off" /\ a.conn = NoConn
                             /\ main = "created" \/ acc.req # "off"
                             /\ main' # "created" /\ UNCHANGED <<conn, phase, poolVars, closes>>
    BY <1>5, AcceptCalled
  <2>2. PICK f \in [1 .. free.depth -> Servers] : Linked(f, free) /\ Untouched(f, free)
    BY <1>2, <2>1
  <2>3. /\ Taken \in FreeLists
        /\ free.head = NoConn => Taken = free
        /\ free.head # NoConn => /\ Taken.head = free.next[free.head] /\ Taken.next = free.next
                                 /\ Taken.depth = free.depth - 1
    BY TakenList
  <2>4. PICK g \in [1 .. Taken.depth -> Servers] :
           /\ Linked(g, Taken) /\ Taken.depth >= 0
           /\ \A i \in 1 .. Taken.depth :
                /\ free.head # NoConn => g[i] # free.head
                /\ i \in 1 .. free.depth /\ g[i] = f[i]
    <3>1. CASE free.head = NoConn
      BY <1>1, <2>2, <2>3, <3>1
    <3>2. CASE free.head # NoConn
      BY <1>1, <2>2, <2>3, <3>2, PopLinked
    <3> QED BY <3>1, <3>2
  <2>5. CASE acc' = [a EXCEPT !.running = 0] /\ UNCHANGED <<life, free>>
    <3>1. acc'.req = "off"
      BY <2>1, <2>5 DEF Accepts
    <3> QED BY <1>1, <2>1, <2>5, <3>1 DEF FreeOK
  <2>6. ASSUME NEW c \in Candidates, AcceptRefused(c, a) PROVE FreeOK'
    <3>1. acc'.req = "off"
      BY <2>1, <2>6 DEF AcceptRefused, Accepts
    <3>2. c \in Conns
      BY <2>1, CandidateIdle DEF Conns
    <3> DEFINE l == IF Quiet(conn[c]) THEN SPush(Taken, c) ELSE Taken
    <3>3. l \in FreeLists /\ l.depth >= 0
      <4>1. SPush(Taken, c) \in FreeLists /\ SPush(Taken, c).depth = Taken.depth + 1
        BY <2>3, <3>2, FreeListSteps
      <4>2. Taken.depth \in Int
        BY <2>3 DEF FreeLists
      <4> QED BY <2>3, <2>4, <4>1, <4>2
    <3> DEFINE m == SPush(l, c)
    <3>4. free' = [m EXCEPT !.total = (@ + 1) % TotalMod]
      BY <2>6 DEF AcceptRefused
    <3> HIDE DEF l
    <3>5. m \in FreeLists /\ m.depth = l.depth + 1
      BY <3>2, <3>3, FreeListSteps
    <3> HIDE DEF m
    <3>6. l.depth \in Int /\ m.depth \in Int /\ free'.depth = m.depth
      BY <3>3, <3>4, <3>5 DEF FreeLists
    <3> QED BY <2>1, <3>1, <3>3, <3>5, <3>6 DEF FreeOK
  <2>7. ASSUME NEW c \in Candidates, life' = [life EXCEPT ![c] = "alive"], AcceptPosted(c, a)
        PROVE  FreeOK'
    <3>1. free' = Taken /\ acc'.conn = c
      BY <2>7 DEF AcceptPosted, Accepts
    <3>2. /\ c \in Servers /\ (life[c] = "none" \/ life[c] = "alive")
          /\ free.head # NoConn => c = free.head
      BY <2>1, CandidateIdle
    <3>3. ASSUME NEW i \in 1 .. Taken.depth PROVE AtRest(g[i])' /\ g[i] # acc'.conn
      <4>1. i \in 1 .. free.depth /\ g[i] = f[i] /\ AtRest(f[i]) /\ f[i] # acc.conn
        BY <2>2, <2>4 DEF Untouched
      <4>2. AtRest(g[i])'
        BY <4>1, RestStays
      <4>3. g[i] # c
        <5>1. CASE free.head # NoConn
          BY <2>4, <3>2, <5>1
        <5>2. CASE free.head = NoConn
          BY <4>1, <2>7, <5>2 DEF Candidates, Fresh, AtRest
        <5> QED BY <5>1, <5>2
      <4> QED BY <3>1, <4>2, <4>3
    <3>4. Stack(g)'
      BY <2>4, <3>1, <3>3 DEF Stack, Linked, AtRest
    <3> QED BY <2>4, <3>1, <3>4 DEF FreeOK
  <2> QED BY <2>1, <2>5, <2>6, <2>7 DEF Accept
<1> QED BY <1>4, <1>5

LEMMA NextLife == Types /\ LifeInv /\ RefsInv /\ [Next]_vars => Types' /\ LifeInv'
BY NextTypes, NextThreads, NextAcc, NextFree DEF LifeInv

------------------------------------------------------------------------------
(* Every step counts what it begins and what it ends                       *)

LEMMA Recount ==
  ASSUME NEW S, NEW T, NEW e, IsFiniteSet(S), T \ {e} = S \ {e}
  PROVE  /\ IsFiniteSet(T) /\ Cardinality(S) \in Nat /\ Cardinality(T) \in Nat
         /\ Cardinality(T) = Cardinality(S) - OneIf(e \in S) + OneIf(e \in T)
<1> DEFINE R == S \ {e}
<1>1. /\ IsFiniteSet(R) /\ Cardinality(S) \in Nat /\ Cardinality(R) \in Nat
      /\ Cardinality(R) = Cardinality(S) - OneIf(e \in S)
  BY FS_RemoveElement, FS_CardinalityType DEF OneIf
<1>2. CASE e \in T
  <2>1. T = R \cup {e} /\ e \notin R
    BY <1>2
  <2>2. Cardinality(T) = Cardinality(R) + 1 /\ IsFiniteSet(T)
    BY <1>1, <2>1, FS_AddElement
  <2> QED BY <1>1, <1>2, <2>2 DEF OneIf
<1>3. CASE e \notin T
  <2>1. T = R
    BY <1>3
  <2> QED BY <1>1, <1>3, <2>1 DEF OneIf
<1> QED BY <1>2, <1>3

(* A thread goes on from what it has in hand to v.                         *)
Unrefs(v, c) == OneIf(v.pc \in Counting /\ v.conn = c)
HasAccept(v) == OneIf(HandlesAccept(v))

LEMMA ThreadCounts ==
  ASSUME th \in [Workers -> ThreadRecords], NEW w \in Workers, NEW v, th' = [th EXCEPT ![w] = v]
  PROVE  /\ \A c : /\ Cardinality(Unreffing(th, c)) \in Nat /\ Cardinality(Unreffing(th', c)) \in Nat
                   /\ Cardinality(Unreffing(th', c))
                        = Cardinality(Unreffing(th, c)) - Unrefs(th[w], c) + Unrefs(v, c)
         /\ Cardinality(Accepting(th)) \in Nat /\ Cardinality(Accepting(th')) \in Nat
         /\ Cardinality(Accepting(th')) = Cardinality(Accepting(th)) - HasAccept(th[w]) + HasAccept(v)
<1>1. th'[w] = v /\ \A u \in Workers \ {w} : th'[u] = th[u]
  OBVIOUS
<1>2. ASSUME NEW S \in SUBSET Workers, NEW T \in SUBSET Workers, T \ {w} = S \ {w}
      PROVE  /\ Cardinality(S) \in Nat /\ Cardinality(T) \in Nat
             /\ Cardinality(T) = Cardinality(S) - OneIf(w \in S) + OneIf(w \in T)
  <2>1. IsFiniteSet(S)
    BY TcpAssumption, FS_Subset
  <2> QED BY <1>2, <2>1, Recount
<1>3. ASSUME NEW c
      PROVE  /\ Cardinality(Unreffing(th, c)) \in Nat /\ Cardinality(Unreffing(th', c)) \in Nat
             /\ Cardinality(Unreffing(th', c))
                  = Cardinality(Unreffing(th, c)) - Unrefs(th[w], c) + Unrefs(v, c)
  <2> DEFINE S == Unreffing(th, c) T == Unreffing(th', c)
  <2>1. S \in SUBSET Workers /\ T \in SUBSET Workers /\ T \ {w} = S \ {w}
    BY <1>1 DEF Unreffing
  <2>2. OneIf(w \in S) = Unrefs(th[w], c) /\ OneIf(w \in T) = Unrefs(v, c)
    BY <1>1 DEF Unreffing, Unrefs, OneIf
  <2> HIDE DEF S, T
  <2>3. /\ Cardinality(S) \in Nat /\ Cardinality(T) \in Nat
        /\ Cardinality(T) = Cardinality(S) - OneIf(w \in S) + OneIf(w \in T)
    BY <1>2, <2>1
  <2> QED BY <2>2, <2>3 DEF S, T
<1>4. /\ Cardinality(Accepting(th)) \in Nat /\ Cardinality(Accepting(th')) \in Nat
      /\ Cardinality(Accepting(th')) = Cardinality(Accepting(th)) - HasAccept(th[w]) + HasAccept(v)
  <2> DEFINE S == Accepting(th) T == Accepting(th')
  <2>1. S \in SUBSET Workers /\ T \in SUBSET Workers /\ T \ {w} = S \ {w}
    BY <1>1 DEF Accepting
  <2>2. OneIf(w \in S) = HasAccept(th[w]) /\ OneIf(w \in T) = HasAccept(v)
    BY <1>1 DEF Accepting, HasAccept, OneIf
  <2> HIDE DEF S, T
  <2>3. /\ Cardinality(S) \in Nat /\ Cardinality(T) \in Nat
        /\ Cardinality(T) = Cardinality(S) - OneIf(w \in S) + OneIf(w \in T)
    BY <1>2, <2>1
  <2> QED BY <2>2, <2>3 DEF S, T
<1> QED BY <1>3, <1>4

(* What the steps are for the counts.                                      *)
Steady == \/ th' = th
          \/ \E w \in Workers : \E v :
               /\ th' = [th EXCEPT ![w] = v]
               /\ th[w].pc \notin Counting /\ v.pc \notin Counting
Busy == Running \/ \E w \in Workers : th[w].pc # "left"

Summary ==
  \/ UNCHANGED <<conn, poolVars>> /\ Steady /\ (main' = main \/ {main, main'} \cap {"waitout", "done"} = {})
  \/ (InputFreed \/ OutputFreed)
  \/ \E c \in Conns : \E d :
       /\ Step(c, d, 0) /\ Steady /\ main' = main
       /\ Busy \/ (SameRequests(conn[c], d) /\ UNCHANGED poolVars)
  \/ \E w \in Workers, c \in Conns : \E d, v :
       /\ Step(c, d, 1) /\ th[w].pc \notin Counting \cup {"left"} /\ main' = main
       /\ th' = [th EXCEPT ![w] = v] /\ v.pc \in Counting /\ v.conn = c
  \/ \E w \in Workers : \E d, v :
       /\ th[w].conn \in Conns /\ Step(th[w].conn, d, -1) /\ th[w].pc \in Counting
       /\ th' = [th EXCEPT ![w] = v] /\ v.pc \notin Counting /\ main' = main

LEMMA StepsSummed ==
  ASSUME Types, LifeInv, RefsInv, [Next]_vars
  PROVE  Summary
<1>1. ASSUME UNCHANGED <<conn, poolVars, th>>, main' = main \/ {main, main'} \cap {"waitout", "done"} = {} PROVE Summary
  BY <1>1 DEF Summary, Steady
<1>2. CASE UNCHANGED vars \/ Stop \/ Start \/ Destructors
  BY <1>1, <1>2 DEF vars, Stop, Start, Destructors, AcceptsDone, ListComplete, Drained,
                    WorkerDeleted, Summary
<1>3. ASSUME NEW c \in Conns, NEW d, Step(c, d, 0), th' = th, main' = main,
             Busy \/ (SameRequests(conn[c], d) /\ UNCHANGED poolVars)
      PROVE  Summary
  BY <1>3 DEF Summary, Steady
<1>4. ASSUME AppNext PROVE Summary
  <2>1. ASSUME NEW c \in Clients, Connect(c) PROVE Summary
    <3>1. c \in Conns /\ UNCHANGED <<th, main, poolVars>> /\ Busy
      BY <2>1 DEF Connect, Conns, Busy
    <3>2. CASE conn' = [conn EXCEPT ![c].own = "connecting"]
      <4>1. PICK d : Step(c, d, 0)
        BY <3>1, <3>2, OwnStep
      <4> QED BY <1>3, <3>1, <4>1
    <3>3. CASE conn' = conn
      BY <1>1, <3>1, <3>3
    <3> QED BY <2>1, <3>2, <3>3 DEF Connect
  <2>2. ASSUME NEW c \in Conns, Send(c) PROVE Summary
    <3>1. PICK d : Step(c, d, 0)
      BY <2>2, SendStep
    <3> QED BY <1>3, <2>2, <3>1 DEF Send, Busy
  <2>3. ASSUME NEW c \in Conns, Disconnect(c) PROVE Summary
    <3>1. PICK d \in AsyncDisconnect(conn[c]) : conn' = [conn EXCEPT ![c] = d]
      BY <2>3 DEF Disconnect
    <3>2. UNCHANGED poolVars /\ conn[c] \in Records
      BY <2>3 DEF Disconnect, Types
    <3>3. Step(c, d, 0)
      BY <3>1, <3>2, DisconnectStep
    <3> QED BY <1>3, <2>3, <3>3 DEF Disconnect, Busy
  <2>4. ASSUME NEW c \in Conns, Close(c) PROVE Summary
    BY <1>1, <2>4 DEF Close
  <2> QED BY <1>4, <2>1, <2>2, <2>3, <2>4 DEF AppNext
<1>5. ASSUME KernelNext PROVE Summary
  <2>1. CASE ClientArrives
    <3>1. PICK d : Step(acc.conn, d, 0) /\ SameRequests(conn[acc.conn], d)
      BY <2>1, ArrivalStep
    <3>2. acc.conn \in Conns
      BY <2>1, ArrivalStep DEF Conns
    <3> QED BY <1>3, <2>1, <3>1, <3>2 DEF ClientArrives
  <2>2. ASSUME NEW c \in Conns, \/ DataArrives(c) \/ RecvEnds(c) \/ SendCompletes(c)
                                \/ DisconnectCompletes(c) \/ ConnectCompletes(c)
        PROVE  Summary
    <3>1. PICK d : Step(c, d, 0) /\ SameRequests(conn[c], d)
      BY <2>2, KernelSteps
    <3>2. UNCHANGED <<poolVars, th, main>>
      BY <2>2 DEF DataArrives, RecvEnds, SendCompletes, DisconnectCompletes, ConnectCompletes,
                  Completes
    <3> QED BY <1>3, <3>1, <3>2
  <2> QED BY <1>5, <2>1, <2>2 DEF KernelNext, Conns
<1>6. Idle.pc = "idle" /\ \A pc, c : At(pc, c).pc = pc /\ At(pc, c).conn = c
  BY DEF Idle, At
<1>7. ASSUME NEW w \in Workers, WorkerNext(w) PROVE Summary
  <2>0. main' = main
    BY <1>7 DEF WorkerNext, DequeueAccept, InHandler, UpdateAccept, FirstRecv, Reject, FirstUnref,
                EndAccept, CloseFailed, Unref, TakeEmptyPacket, OfConn, OfConnect,
                    DequeueDisconnect, DequeueRecv, DequeueSent,
                DequeueConnect, DequeueConnectFailed
  <2>1. CASE DequeueAccept(w) \/ EndAccept(w) \/ CloseFailed(w) \/ TakeEmptyPacket(w)
    <3>1. Steady
      BY <1>6, <2>1 DEF DequeueAccept, EndAccept, CloseFailed, TakeEmptyPacket, Steady, Counting
    <3> QED BY <2>0, <2>1, <3>1 DEF DequeueAccept, EndAccept, CloseFailed, TakeEmptyPacket, Summary
  <2>2. CASE UpdateAccept(w)
    <3>1. Steady
      <4>1. th[w].pc \notin Counting
        BY <2>2 DEF UpdateAccept, Counting
      <4>2. PICK pc \in {"accepted", "firstrecv", "reject"}, c \in {NoConn, th[w].conn} :
              th' = [th EXCEPT ![w] = At(pc, c)]
        BY <2>2 DEF UpdateAccept, Announce
      <4>3. PICK v : v = At(pc, c)
        OBVIOUS
      <4>4. v.pc \notin Counting /\ th' = [th EXCEPT ![w] = v]
        BY <1>6, <4>2, <4>3 DEF Counting
      <4> QED BY <4>1, <4>4 DEF Steady
    <3>2. th[w].conn \in Conns /\ Busy
      BY <2>2, AcceptedStep DEF Conns, Busy, UpdateAccept
    <3>3. CASE UNCHANGED <<conn, poolVars>>
      BY <2>0, <3>1, <3>3 DEF Summary
    <3>4. CASE AnnounceStep(th[w].conn, [conn[th[w].conn] EXCEPT !.connected = 1])
      <4>1. PICK d : Step(th[w].conn, d, 0)
        BY <3>4 DEF AnnounceStep
      <4> QED BY <2>0, <3>1, <3>2, <4>1 DEF Summary
    <3> QED BY <2>2, <3>3, <3>4, AcceptedStep
  <2>3. CASE Unref(w) \/ FirstUnref(w)
    <3>1. PICK d : Step(th[w].conn, d, -1)
      BY <2>3, UnrefStep
    <3>2. th[w].conn \in Conns /\ th[w].pc \in Counting
      BY <2>3, UnrefStep DEF Unref, FirstUnref, Counting
    <3>3. PICK v : th' = [th EXCEPT ![w] = v] /\ v.pc \notin Counting
      BY <1>6, <2>3 DEF Unref, FirstUnref, After, Counting
    <3> QED BY <2>0, <3>1, <3>2, <3>3 DEF Summary
  <2>7. CASE FirstRecv(w) \/ Reject(w)
    <3> DEFINE c == th[w].conn
    <3>1. PICK b \in {0, 1} : \E d : FirstStep(w, d, b)
      BY <2>7, FirstSteps
    <3>2. PICK d : FirstStep(w, d, b)
      BY <3>1
    <3>3. c \in Conns /\ th[w].pc \notin Counting \cup {"left"} /\ Busy /\ Step(c, d, b)
      BY <2>7, <3>2, FirstSteps DEF FirstRecv, Reject, Counting, Busy, FirstStep
    <3>4. CASE b = 0 /\ th' = [th EXCEPT ![w] = After(c)]
      <4>2. PICK v : v = After(c)
        OBVIOUS
      <4>3. v.pc \notin Counting /\ th' = [th EXCEPT ![w] = v]
        BY <1>6, <3>4, <4>2 DEF After, Counting
      <4>1. Steady
        BY <3>3, <4>3 DEF Steady
      <4> QED BY <2>0, <3>3, <3>4, <4>1 DEF Summary
    <3>5. CASE b = 1 /\ th' = [th EXCEPT ![w] = At("firstunref", c)]
      <4>2. PICK v : v = At("firstunref", c)
        OBVIOUS
      <4>1. th' = [th EXCEPT ![w] = v] /\ v.pc \in Counting /\ v.conn = c
        BY <1>6, <3>5, <4>2 DEF Counting
      <4> QED BY <2>0, <3>3, <3>5, <4>1 DEF Summary
    <3> QED BY <3>2, <3>4, <3>5 DEF FirstStep
  <2>4. ASSUME NEW c \in Conns, DequeueRecv(w, c) \/ DequeueSent(w, c) PROVE Summary
    <3>1. PICK d : Step(c, d, 1)
      BY <2>4, RecvStep, SentStep
    <3>4. PICK v : v = At("unref", c)
      OBVIOUS
    <3>2. th' = [th EXCEPT ![w] = v] /\ v.pc \in Counting /\ v.conn = c
      BY <1>6, <2>4, <3>4 DEF DequeueRecv, DequeueSent, Counting
    <3>3. th[w].pc \notin Counting \cup {"left"}
      BY <2>4 DEF DequeueRecv, DequeueSent, Counting
    <3> QED BY <2>0, <3>1, <3>2, <3>3 DEF Summary
  <2>5. ASSUME NEW c \in Conns, DequeueDisconnect(w, c) \/ DequeueConnectFailed(w, c) PROVE Summary
    <3>1. PICK d : Step(c, d, 0)
      BY <2>5, OwnStep DEF DequeueDisconnect, DequeueConnectFailed, poolVars
    <3>2. Steady
      BY <1>6, <2>5 DEF DequeueDisconnect, DequeueConnectFailed, Steady, Counting
    <3>3. Busy
      BY <2>5 DEF DequeueDisconnect, DequeueConnectFailed, Busy
    <3> QED BY <2>0, <3>1, <3>2, <3>3 DEF Summary
  <2>6. ASSUME NEW c \in Clients, DequeueConnect(w, c) PROVE Summary
    <3>1. PICK d : Step(c, d, 0)
      BY <2>6, ConnectedStep DEF AnnounceStep
    <3>2. c \in Conns /\ Busy
      BY <2>6 DEF DequeueConnect, Conns, Busy
    <3>3. Steady
      BY <1>6, <2>6 DEF DequeueConnect, Announce, Steady, Counting
    <3> QED BY <2>0, <3>1, <3>2, <3>3 DEF Summary
  <2> QED BY <1>7, <2>1, <2>2, <2>3, <2>4, <2>5, <2>6, <2>7 DEF WorkerNext, InHandler, OfConn,
      OfConnect, Conns
<1> QED BY <1>2, <1>4, <1>5, <1>7 DEF Next

LEMMA NextConnRefs ==
  ASSUME Types, LifeInv, RefsInv, [Next]_vars
  PROVE  \A u \in Conns : Balance(conn'[u]) = Cardinality(Unreffing(th', u))
<1>1. /\ conn \in [Conns -> Records] /\ th \in [Workers -> ThreadRecords]
      /\ \A u \in Conns : Balance(conn[u]) = Cardinality(Unreffing(th, u)) /\ Balance(conn[u]) \in Int
  BY Numbers DEF Types, RefsInv
<1>2. Steady => \A u : Unreffing(th', u) = Unreffing(th, u)
  BY <1>1 DEF Steady, Unreffing
<1>3. CASE UNCHANGED <<conn, poolVars>> /\ Steady
  BY <1>1, <1>2, <1>3
<1>4. CASE InputFreed \/ OutputFreed
  BY <1>1, <1>4 DEF InputFreed, OutputFreed
<1>5. ASSUME NEW c \in Conns, NEW d, NEW b, Step(c, d, b)
      PROVE  conn'[c] = d /\ Balance(d) = Balance(conn[c]) + b /\ \A u \in Conns \ {c} : conn'[u] = conn[u]
  BY <1>1, <1>5 DEF Step
<1>6. ASSUME NEW c \in Conns, NEW d, Step(c, d, 0), Steady
      PROVE  \A u \in Conns : Balance(conn'[u]) = Cardinality(Unreffing(th', u))
  <2>1. Balance(d) = Balance(conn[c]) + 0
    BY <1>5, <1>6
  <2>2. Balance(conn'[c]) = Balance(conn[c])
    BY <1>1, <1>5, <1>6, <2>1
  <2> QED BY <1>1, <1>2, <1>5, <1>6, <2>2
<1>7. ASSUME NEW w \in Workers, NEW c \in Conns, NEW v, NEW d, NEW b, Step(c, d, b),
             th' = [th EXCEPT ![w] = v], b = Unrefs(v, c) - Unrefs(th[w], c),
             \A u \in Conns \ {c} : Unrefs(v, u) = 0 /\ Unrefs(th[w], u) = 0
      PROVE  \A u \in Conns : Balance(conn'[u]) = Cardinality(Unreffing(th', u))
  <2>1. \A u : /\ Cardinality(Unreffing(th, u)) \in Nat /\ Cardinality(Unreffing(th', u)) \in Nat
               /\ Cardinality(Unreffing(th', u))
                    = Cardinality(Unreffing(th, u)) - Unrefs(th[w], u) + Unrefs(v, u)
    BY <1>1, <1>7, ThreadCounts
  <2>2. \A u : Unrefs(v, u) \in {0, 1} /\ Unrefs(th[w], u) \in {0, 1}
    BY DEF Unrefs, OneIf
  <2>3. Balance(conn'[c]) = Cardinality(Unreffing(th', c))
    <3>1. conn'[c] = d /\ Balance(d) = Balance(conn[c]) + b
      BY <1>5, <1>7
    <3>2. /\ Cardinality(Unreffing(th, c)) \in Nat
          /\ Cardinality(Unreffing(th', c))
               = Cardinality(Unreffing(th, c)) - Unrefs(th[w], c) + Unrefs(v, c)
      BY <2>1
    <3>3. Unrefs(v, c) \in {0, 1} /\ Unrefs(th[w], c) \in {0, 1}
      BY <2>2
    <3>4. Balance(conn[c]) = Cardinality(Unreffing(th, c)) /\ b = Unrefs(v, c) - Unrefs(th[w], c)
      BY <1>1, <1>7
    <3> QED BY <3>1, <3>2, <3>3, <3>4
  <2>4. ASSUME NEW u \in Conns \ {c} PROVE Balance(conn'[u]) = Cardinality(Unreffing(th', u))
    <3>1. conn'[u] = conn[u] /\ Unrefs(v, u) = 0 /\ Unrefs(th[w], u) = 0
      BY <1>5, <1>7
    <3>2. Cardinality(Unreffing(th', u)) = Cardinality(Unreffing(th, u))
      BY <2>1, <3>1
    <3> QED BY <1>1, <3>1, <3>2
  <2> QED BY <2>3, <2>4
<1>8. ASSUME NEW w \in Workers, NEW c \in Conns, NEW d, NEW v, Step(c, d, 1), v.conn = c,
             th[w].pc \notin Counting, th' = [th EXCEPT ![w] = v], v.pc \in Counting
      PROVE  \A u \in Conns : Balance(conn'[u]) = Cardinality(Unreffing(th', u))
  <2>1. \A u : Unrefs(th[w], u) = 0 /\ Unrefs(v, u) = IF u = c THEN 1 ELSE 0
    BY <1>8 DEF Unrefs, OneIf
  <2>2. 1 = Unrefs(v, c) - Unrefs(th[w], c)
    BY <2>1
  <2>3. \A u \in Conns \ {c} : Unrefs(v, u) = 0 /\ Unrefs(th[w], u) = 0
    BY <2>1
  <2> QED BY <1>7, <1>8, <2>2, <2>3
<1>9. ASSUME NEW w \in Workers, NEW d, NEW v, th[w].conn \in Conns, Step(th[w].conn, d, -1),
             th[w].pc \in Counting, th' = [th EXCEPT ![w] = v], v.pc \notin Counting
      PROVE  \A u \in Conns : Balance(conn'[u]) = Cardinality(Unreffing(th', u))
  <2>1. \A u : Unrefs(v, u) = 0 /\ Unrefs(th[w], u) = IF u = th[w].conn THEN 1 ELSE 0
    BY <1>9 DEF Unrefs, OneIf
  <2>2. -1 = Unrefs(v, th[w].conn) - Unrefs(th[w], th[w].conn)
    BY <2>1
  <2>3. \A u \in Conns \ {th[w].conn} : Unrefs(v, u) = 0 /\ Unrefs(th[w], u) = 0
    BY <2>1
  <2> QED BY <1>7, <1>9, <2>2, <2>3
<1>10. Summary
  BY StepsSummed
<1> QED BY <1>3, <1>4, <1>6, <1>8, <1>9, <1>10 DEF Summary

(* The other steps of a thread leave it the accept that it handles.        *)
LEMMA AcceptHeld ==
  ASSUME Types, LifeInv, NEW w \in Workers, WorkerNext(w), ~DequeueAccept(w), ~EndAccept(w)
  PROVE  /\ acc' = acc
         /\ \/ th' = th
            \/ \E v : /\ th' = [th EXCEPT ![w] = v]
                      /\ HandlesAccept(v) <=> HandlesAccept(th[w])
<1>1. acc' = acc
  BY DEF WorkerNext, InHandler, OfConn, OfConnect, UpdateAccept, FirstRecv, Reject, FirstUnref,
         CloseFailed, Unref, TakeEmptyPacket, DequeueDisconnect, DequeueRecv, DequeueSent,
         DequeueConnect, DequeueConnectFailed, accVars
<1>2. Idle.pc = "idle" /\ \A pc, c : At(pc, c).pc = pc /\ At(pc, c).conn = c
  BY DEF Idle, At
<1>3. \A c : /\ HandlesAccept(After(c)) <=> c \in Servers
             /\ HandlesAccept(At("firstunref", c)) <=> c \in Servers
             /\ HandlesAccept(At("firstrecv", c)) <=> c \in Servers
             /\ HandlesAccept(At("reject", c)) <=> c \in Servers
  BY <1>2 DEF After, HandlesAccept
<1>4. ASSUME NEW v, th' = [th EXCEPT ![w] = v], HandlesAccept(v) <=> HandlesAccept(th[w])
      PROVE  \/ th' = th
             \/ \E x : /\ th' = [th EXCEPT ![w] = x]
                       /\ HandlesAccept(x) <=> HandlesAccept(th[w])
  BY <1>4
<1>5. ASSUME NEW v, th' = [th EXCEPT ![w] = v], ~HandlesAccept(v), ~HandlesAccept(th[w])
      PROVE  \/ th' = th
             \/ \E x : /\ th' = [th EXCEPT ![w] = x]
                       /\ HandlesAccept(x) <=> HandlesAccept(th[w])
  BY <1>4, <1>5
<1>6. CASE UpdateAccept(w)
  <2>1. th[w].conn \in Servers /\ HandlesAccept(th[w])
    BY <1>6 DEF LifeInv, ThreadOK, UpdateAccept, HandlesAccept
  <2>2. HandlesAccept(At("accepted", NoConn))
    BY <1>2 DEF HandlesAccept
  <2> QED BY <1>1, <1>3, <1>4, <1>6, <2>1, <2>2 DEF UpdateAccept, Announce
<1>7. CASE FirstRecv(w) \/ Reject(w) \/ FirstUnref(w)
  <2>1. HandlesAccept(th[w]) <=> th[w].conn \in Servers
    BY <1>7 DEF FirstRecv, Reject, FirstUnref, HandlesAccept
  <2>2. CASE FirstUnref(w)
    BY <1>1, <1>3, <1>4, <2>1, <2>2 DEF FirstUnref
  <2>3. CASE FirstRecv(w) \/ Reject(w)
    <3>1. \E b \in {0, 1} : \E d : FirstStep(w, d, b)
      BY <2>3, FirstSteps
    <3> QED BY <1>1, <1>3, <1>4, <2>1, <3>1 DEF FirstStep
  <2> QED BY <1>7, <2>2, <2>3
<1>8. ASSUME th[w].pc \in {"idle", "failed", "unref"}, NEW v, v.pc \in {"idle", "failed", "unref", "left"}
      PROVE  ~HandlesAccept(th[w]) /\ ~HandlesAccept(v)
  BY <1>8 DEF HandlesAccept
<1>9. CASE CloseFailed(w) \/ Unref(w) \/ TakeEmptyPacket(w)
  BY <1>1, <1>2, <1>5, <1>8, <1>9 DEF CloseFailed, Unref, TakeEmptyPacket
<1>10. ASSUME NEW c \in Conns, OfConn(w, c)
       PROVE  \/ th' = th
              \/ \E v : /\ th' = [th EXCEPT ![w] = v]
                        /\ HandlesAccept(v) <=> HandlesAccept(th[w])
  BY <1>2, <1>5, <1>8, <1>10 DEF OfConn, DequeueDisconnect, DequeueRecv, DequeueSent
<1>11. ASSUME NEW c \in Clients, OfConnect(w, c)
       PROVE  \/ th' = th
              \/ \E v : /\ th' = [th EXCEPT ![w] = v]
                        /\ HandlesAccept(v) <=> HandlesAccept(th[w])
  <2>1. CASE DequeueConnect(w, c)
    <3>1. ~HandlesAccept(th[w]) /\ c \notin Servers
      BY <2>1, TcpAssumption DEF DequeueConnect, HandlesAccept
    <3> QED BY <1>3, <1>4, <2>1, <3>1 DEF DequeueConnect, Announce
  <2>2. CASE DequeueConnectFailed(w, c)
    <3>1. PICK v : v = At("failed", c)
      OBVIOUS
    <3>2. v.pc = "failed" /\ th[w].pc = "idle" /\ th' = [th EXCEPT ![w] = v]
      BY <1>2, <2>2, <3>1 DEF DequeueConnectFailed
    <3>3. ~HandlesAccept(th[w]) /\ ~HandlesAccept(v)
      BY <3>2 DEF HandlesAccept
    <3> QED BY <1>5, <3>2, <3>3
  <2> QED BY <1>11, <2>1, <2>2 DEF OfConnect
<1> QED BY <1>1, <1>6, <1>7, <1>9, <1>10, <1>11 DEF WorkerNext, InHandler

LEMMA NextAccRefs ==
  ASSUME Types, LifeInv, RefsInv, [Next]_vars
  PROVE  acc'.iorefs = OneIf(acc'.req # "off") + Cardinality(Accepting(th'))
<1>1. /\ acc \in Accepts /\ th \in [Workers -> ThreadRecords] /\ AccOK /\ acc.iorefs \in Int
      /\ acc.iorefs = OneIf(acc.req # "off") + Cardinality(Accepting(th))
  BY DEF Types, RefsInv, LifeInv, Accepts
<1>2. ASSUME acc'.iorefs = acc.iorefs, acc'.req = "off" <=> acc.req = "off",
             Accepting(th') = Accepting(th)
      PROVE  acc'.iorefs = OneIf(acc'.req # "off") + Cardinality(Accepting(th'))
  BY <1>1, <1>2 DEF OneIf
<1>3. CASE Stop \/ ClientArrives
  BY <1>1, <1>2, <1>3 DEF Stop, ClientArrives, Accepts
<1>4. CASE UNCHANGED <<acc, th>>
  BY <1>2, <1>4
<1>5. ASSUME NEW a \in Accepts, Accept(a), a.req = "off"
      PROVE  acc'.iorefs = a.iorefs + OneIf(acc'.req # "off")
  <2>1. CASE acc' = [a EXCEPT !.running = 0]
    BY <1>5, <2>1 DEF Accepts, OneIf
  <2>2. ASSUME NEW c, AcceptPosted(c, a) PROVE acc'.iorefs = a.iorefs + OneIf(acc'.req # "off")
    <3>1. acc'.req = "kernel" /\ acc'.iorefs = a.iorefs + 1
      BY <2>2 DEF AcceptPosted, Accepts
    <3> QED BY <3>1 DEF OneIf
  <2> QED BY <1>5, <2>1, <2>2 DEF Accept, AcceptRefused
<1>6. CASE Start
  <2>1. /\ [acc EXCEPT !.running = 1] \in Accepts /\ [acc EXCEPT !.running = 1].req = "off"
        /\ [acc EXCEPT !.running = 1].iorefs = acc.iorefs /\ acc.req = "off"
    BY <1>1, <1>6 DEF Accepts, Start, AccOK
  <2>2. acc'.iorefs = acc.iorefs + OneIf(acc'.req # "off") /\ th' = th
    BY <1>5, <1>6, <2>1 DEF Start
  <2>3. Cardinality(Accepting(th)) \in Nat
    BY TcpAssumption, FS_Subset, FS_CardinalityType DEF Accepting
  <2> QED BY <1>1, <2>1, <2>2, <2>3 DEF OneIf
<1>7. ASSUME NEW w \in Workers, NEW v, th' = [th EXCEPT ![w] = v]
      PROVE  /\ Cardinality(Accepting(th)) \in Nat /\ Cardinality(Accepting(th')) \in Nat
             /\ Cardinality(Accepting(th')) = Cardinality(Accepting(th)) - HasAccept(th[w]) + HasAccept(v)
  BY <1>1, <1>7, ThreadCounts
<1>8. Idle.pc = "idle" /\ \A pc, c : At(pc, c).pc = pc
  BY DEF Idle, At
<1>9. ASSUME NEW w \in Workers, DequeueAccept(w)
      PROVE  acc'.iorefs = OneIf(acc'.req # "off") + Cardinality(Accepting(th'))
  <2>1. NoRequest \in Accepts /\ NoRequest.req = "off" /\ NoRequest.iorefs = acc.iorefs
    BY <1>1, NoRequestAccepts
  <2>2. acc'.iorefs = acc.iorefs + OneIf(acc'.req # "off")
    BY <1>5, <1>9, <2>1 DEF DequeueAccept
  <2>3. th' = [th EXCEPT ![w] = At("update", acc.conn)] /\ th[w].pc = "idle" /\ acc.req = "ok"
    BY <1>9 DEF DequeueAccept
  <2>4. HasAccept(th[w]) = 0 /\ HasAccept(At("update", acc.conn)) = 1
    BY <1>8, <2>3 DEF HasAccept, OneIf, HandlesAccept
  <2>5. /\ Cardinality(Accepting(th)) \in Nat
        /\ Cardinality(Accepting(th')) = Cardinality(Accepting(th)) + 1
    <3>1. /\ Cardinality(Accepting(th)) \in Nat
          /\ Cardinality(Accepting(th'))
               = Cardinality(Accepting(th)) - HasAccept(th[w]) + HasAccept(At("update", acc.conn))
      BY <1>7, <2>3
    <3> QED BY <2>4, <3>1
  <2>6. acc.iorefs = 1 + Cardinality(Accepting(th))
    BY <1>1, <2>3 DEF OneIf
  <2> QED BY <2>2, <2>5, <2>6 DEF OneIf
<1>10. ASSUME NEW w \in Workers, EndAccept(w)
       PROVE  acc'.iorefs = OneIf(acc'.req # "off") + Cardinality(Accepting(th'))
  <2>1. acc'.iorefs = acc.iorefs - 1 /\ acc'.req = acc.req
    BY <1>1, <1>10 DEF EndAccept, Accepts
  <2>2. th' = [th EXCEPT ![w] = Idle] /\ HasAccept(th[w]) = 1 /\ HasAccept(Idle) = 0
    BY <1>8, <1>10 DEF EndAccept, HasAccept, OneIf, HandlesAccept
  <2>3. /\ Cardinality(Accepting(th)) \in Nat
        /\ Cardinality(Accepting(th')) = Cardinality(Accepting(th)) - 1
    <3>1. /\ Cardinality(Accepting(th)) \in Nat
          /\ Cardinality(Accepting(th'))
               = Cardinality(Accepting(th)) - HasAccept(th[w]) + HasAccept(Idle)
      BY <1>7, <2>2
    <3> QED BY <2>2, <3>1
  <2> QED BY <1>1, <2>1, <2>3 DEF OneIf
<1>11. ASSUME NEW w \in Workers, NEW v, th' = [th EXCEPT ![w] = v], HasAccept(v) = HasAccept(th[w]), acc' = acc
       PROVE  acc'.iorefs = OneIf(acc'.req # "off") + Cardinality(Accepting(th'))
  <2>1. HasAccept(v) \in {0, 1}
    BY DEF HasAccept, OneIf
  <2>2. Cardinality(Accepting(th')) = Cardinality(Accepting(th))
    <3>1. /\ Cardinality(Accepting(th)) \in Nat /\ Cardinality(Accepting(th')) \in Nat
          /\ Cardinality(Accepting(th')) = Cardinality(Accepting(th)) - HasAccept(th[w]) + HasAccept(v)
      BY <1>7, <1>11
    <3>2. HasAccept(th[w]) = HasAccept(v)
      BY <1>11
    <3> QED BY <2>1, <3>1, <3>2
  <2> QED BY <1>1, <1>11, <2>2
<1>12. ASSUME NEW w \in Workers, WorkerNext(w), ~DequeueAccept(w), ~EndAccept(w)
       PROVE  acc'.iorefs = OneIf(acc'.req # "off") + Cardinality(Accepting(th'))
  <2>1. /\ acc' = acc
        /\ \/ th' = th
           \/ \E v : /\ th' = [th EXCEPT ![w] = v]
                     /\ HandlesAccept(v) <=> HandlesAccept(th[w])
    BY <1>12, AcceptHeld
  <2>2. ASSUME NEW v, th' = [th EXCEPT ![w] = v], HandlesAccept(v) <=> HandlesAccept(th[w])
        PROVE  acc'.iorefs = OneIf(acc'.req # "off") + Cardinality(Accepting(th'))
    <3>1. HasAccept(v) = HasAccept(th[w])
      BY <2>2 DEF HasAccept, OneIf
    <3> QED BY <1>11, <2>1, <2>2, <3>1
  <2> QED BY <1>4, <2>1, <2>2
<1>13. CASE UNCHANGED vars \/ Destructors \/ AppNext \/ (KernelNext /\ ~ClientArrives)
  <2>1. UNCHANGED <<acc, th>>
    BY <1>13 DEF vars, accVars, Destructors, AcceptsDone, ListComplete, Drained, WorkerDeleted,
                 InputFreed, OutputFreed, AppNext, Connect, Send, Disconnect, Close, KernelNext,
                 DisconnectCompletes, DataArrives, RecvEnds, SendCompletes, ConnectCompletes, Completes
  <2> QED BY <1>4, <2>1
<1> QED BY <1>3, <1>6, <1>9, <1>10, <1>12, <1>13 DEF Next

LEMMA NextRefs == Types /\ LifeInv /\ RefsInv /\ [Next]_vars => RefsInv'
<1> SUFFICES ASSUME Types, LifeInv, RefsInv, [Next]_vars PROVE RefsInv'
  OBVIOUS
<1>1. \A u \in Conns : Balance(conn'[u]) = Cardinality(Unreffing(th', u))
  BY NextConnRefs
<1>2. acc'.iorefs = OneIf(acc'.req # "off") + Cardinality(Accepting(th'))
  BY NextAccRefs
<1> QED BY <1>1, <1>2 DEF RefsInv

------------------------------------------------------------------------------
(* Every step keeps what the destructors rely on                           *)

Ended == {"waitlist", "drain", "delworker", "waitin", "waitout", "done"}

LEMMA AtEnd ==
  /\ AcceptorFreedUnused <=>
       (main \in Ended => acc.req = "off" /\ \A w \in Workers : ~HandlesAccept(th[w]))
  /\ AcceptorFreedUnused' <=>
       (main' \in Ended => acc'.req = "off" /\ \A w \in Workers : ~HandlesAccept(th'[w]))
BY DEF AcceptorFreedUnused, Ended

LEMMA NextEnd == Types /\ LifeInv /\ RefsInv /\ EndInv /\ [Next]_vars => EndInv'
<1> SUFFICES ASSUME Types, LifeInv, RefsInv, EndInv, [Next]_vars PROVE EndInv'
  OBVIOUS
<1> DEFINE Quiet_ == acc.req = "off" /\ \A w \in Workers : ~HandlesAccept(th[w])
           Left == \A w \in Workers : th[w].pc = "left"
<1>1. /\ main \in Ended => Quiet_
      /\ main \in {"waitin", "waitout", "done"} => Left
      /\ th \in [Workers -> ThreadRecords] /\ acc \in Accepts
  BY AtEnd DEF EndInv, Types
<1>2. ASSUME main' \in Ended => Quiet_', main' \in {"waitin", "waitout", "done"} => Left' PROVE EndInv'
  BY <1>2, AtEnd DEF EndInv
<1>3. ASSUME UNCHANGED <<main, acc, th>> PROVE EndInv'
  BY <1>1, <1>2, <1>3
<1>4. CASE UNCHANGED vars \/ AppNext \/ (KernelNext /\ ~ClientArrives)
  <2>1. UNCHANGED <<acc, th, main>>
    BY <1>4 DEF vars, accVars, AppNext, Connect, Send, Disconnect, Close, KernelNext,
                 DisconnectCompletes, DataArrives, RecvEnds, SendCompletes, ConnectCompletes, Completes
  <2> QED BY <1>3, <2>1
<1>5. CASE Start \/ Stop
  <2>1. main' \notin Ended
    BY <1>5 DEF Start, Stop, Ended
  <2> QED BY <1>2, <2>1 DEF Ended
<1>6. CASE ClientArrives
  <2>1. main \notin Ended /\ main' = main
    BY <1>1, <1>6 DEF ClientArrives
  <2> QED BY <1>2, <2>1 DEF Ended
<1>7. CASE Destructors
  <2>1. UNCHANGED <<acc, th>>
    BY <1>7 DEF Destructors, AcceptsDone, ListComplete, Drained, WorkerDeleted, InputFreed,
                OutputFreed, accVars
  <2>2. CASE AcceptsDone
    <3>1. acc.iorefs = 0 /\ main' = "waitlist" /\ acc.iorefs = OneIf(acc.req # "off") + Cardinality(Accepting(th))
      BY <2>2 DEF AcceptsDone, RefsInv
    <3>2. IsFiniteSet(Accepting(th))
      BY TcpAssumption, FS_Subset DEF Accepting
    <3>3. Cardinality(Accepting(th)) = 0 /\ acc.req = "off"
      BY <3>1, <3>2, FS_CardinalityType DEF OneIf
    <3>4. Accepting(th) = {}
      BY <3>2, <3>3, FS_EmptySet
    <3>5. Quiet_
      BY <3>3, <3>4 DEF Accepting
    <3> QED BY <1>2, <2>1, <3>1, <3>5
  <2>3. CASE WorkerDeleted
    BY <1>1, <1>2, <2>1, <2>3 DEF WorkerDeleted, Ended
  <2>4. CASE ListComplete \/ Drained \/ InputFreed \/ OutputFreed
    <3>1. /\ main \in Ended
          /\ main' \in {"waitin", "waitout", "done"} => main \in {"waitin", "waitout", "done"}
      BY <2>4 DEF ListComplete, Drained, InputFreed, OutputFreed, Ended
    <3> QED BY <1>1, <1>2, <2>1, <3>1
  <2> QED BY <1>7, <2>2, <2>3, <2>4 DEF Destructors
<1>9. ASSUME NEW w \in Workers, WorkerNext(w) PROVE EndInv'
  <2>1. main' = main /\ main \notin {"waitin", "waitout", "done"}
    <3>1. main' = main /\ th[w].pc # "left"
      BY <1>9 DEF WorkerNext, DequeueAccept, InHandler, UpdateAccept, FirstRecv, Reject,
                  FirstUnref,
                EndAccept, CloseFailed, Unref, TakeEmptyPacket, OfConn, OfConnect,
                    DequeueDisconnect, DequeueRecv, DequeueSent,
                DequeueConnect, DequeueConnectFailed
    <3> QED BY <1>1, <3>1
  <2>2. CASE main \notin Ended
    BY <1>2, <2>1, <2>2
  <2>3. CASE main \in Ended
    <3>1. Quiet_ /\ ~DequeueAccept(w) /\ ~EndAccept(w)
      BY <1>1, <2>3 DEF DequeueAccept, EndAccept, HandlesAccept
    <3>2. /\ acc' = acc
          /\ \/ th' = th
             \/ \E v : /\ th' = [th EXCEPT ![w] = v]
                       /\ HandlesAccept(v) <=> HandlesAccept(th[w])
      BY <1>9, <3>1, AcceptHeld
    <3>4. \A u \in Workers : ~HandlesAccept(th'[u])
      <4> SUFFICES ASSUME NEW u \in Workers PROVE HandlesAccept(th'[u]) <=> HandlesAccept(th[u])
        BY <3>1
      <4>1. CASE th' = th
        BY <4>1
      <4>2. ASSUME NEW v, th' = [th EXCEPT ![w] = v], HandlesAccept(v) <=> HandlesAccept(th[w])
            PROVE  HandlesAccept(th'[u]) <=> HandlesAccept(th[u])
        <5>1. CASE u = w
          BY <1>1, <4>2, <5>1
        <5>2. CASE u # w
          BY <1>1, <4>2, <5>2
        <5> QED BY <5>1, <5>2
      <4> QED BY <3>2, <4>1, <4>2
    <3> QED BY <1>2, <2>1, <3>1, <3>2, <3>4
  <2> QED BY <2>2, <2>3
<1> QED BY <1>4, <1>5, <1>6, <1>7, <1>9 DEF Next

(* How many contexts are used, after a step on c.                          *)
LEMMA ReceivingStep ==
  ASSUME Types, NEW c \in Conns, NEW d, NEW b, Step(c, d, b)
  PROVE  /\ Cardinality(Receiving(conn)) \in Nat /\ Cardinality(Receiving(conn')) \in Nat
         /\ Cardinality(Receiving(conn')) = Cardinality(Receiving(conn)) - In(conn[c]) + In(d)
<1>1. conn'[c] = d /\ \A u \in Conns \ {c} : conn'[u] = conn[u]
  BY DEF Step, Types
<1> DEFINE S == Receiving(conn) T == Receiving(conn')
<1>2. IsFiniteSet(S) /\ T \ {c} = S \ {c}
  BY <1>1, TcpAssumption, FS_Subset DEF Receiving
<1>3. OneIf(c \in S) = In(conn[c]) /\ OneIf(c \in T) = In(d)
  BY <1>1 DEF Receiving, In, OneIf
<1> HIDE DEF S, T
<1>4. /\ Cardinality(S) \in Nat /\ Cardinality(T) \in Nat
      /\ Cardinality(T) = Cardinality(S) - OneIf(c \in S) + OneIf(c \in T)
  BY <1>2, Recount
<1> QED BY <1>3, <1>4 DEF S, T

LEMMA SendingStep ==
  ASSUME Types, IsFiniteSet(Sending(conn)), NEW c \in Conns, NEW d, NEW b, Step(c, d, b)
  PROVE  /\ IsFiniteSet(Sending(conn'))
         /\ Cardinality(Sending(conn)) \in Nat /\ Cardinality(Sending(conn')) \in Nat
         /\ Cardinality(Sending(conn')) = Cardinality(Sending(conn)) - Out(conn[c]) + Out(d)
<1>1. conn'[c] = d /\ \A u \in Conns \ {c} : conn'[u] = conn[u]
  BY DEF Step, Types
<1>2. PICK m, n : m = Out(conn[c]) /\ n = Out(d)
  OBVIOUS
<1>3. m \in Nat /\ n \in Nat /\ n - m \in {-1, 0, 1}
  BY <1>2, Numbers DEF Step, Types
<1> DEFINE S == Sending(conn) T == Sending(conn') k == IF n > m THEN n ELSE m e == <<c, k>>
<1>4. \A u, i : <<u, i>> \in S <=> u \in Conns /\ i \in 1 .. Out(conn[u])
  BY DEF Sending
<1>5. \A u, i : <<u, i>> \in T <=> u \in Conns /\ i \in 1 .. Out(conn'[u])
  BY DEF Sending
<1>6. (\A x \in S : \E u, i : x = <<u, i>>) /\ (\A x \in T : \E u, i : x = <<u, i>>)
  BY DEF Sending
<1>7. k \in Nat /\ (n = m \/ (n = m + 1 /\ k = n) \/ (m = n + 1 /\ k = m))
  BY <1>3
<1> HIDE DEF S, T, k
<1>8. \A u, i : <<u, i>> # e => (<<u, i>> \in S <=> <<u, i>> \in T)
  <2> SUFFICES ASSUME NEW u, NEW i, <<u, i>> # e PROVE <<u, i>> \in S <=> <<u, i>> \in T
    OBVIOUS
  <2>1. CASE u # c
    BY <1>1, <1>4, <1>5, <2>1
  <2>2. CASE u = c
    <3>1. i # k
      BY <2>2
    <3>2. i \in 1 .. m <=> i \in 1 .. n
      BY <1>3, <1>7, <3>1
    <3> QED BY <1>1, <1>2, <1>4, <1>5, <2>2, <3>2
  <2> QED BY <2>1, <2>2
<1>9. T \ {e} = S \ {e}
  BY <1>6, <1>8
<1>10. /\ Cardinality(S) \in Nat /\ Cardinality(T) \in Nat /\ IsFiniteSet(T)
       /\ Cardinality(T) = Cardinality(S) - OneIf(e \in S) + OneIf(e \in T)
  BY <1>9, Recount DEF S
<1>11. (e \in S <=> k \in 1 .. m) /\ (e \in T <=> k \in 1 .. n)
  BY <1>1, <1>2, <1>4, <1>5
<1>12. n - m = OneIf(e \in T) - OneIf(e \in S)
  BY <1>3, <1>7, <1>11 DEF OneIf
<1>13. OneIf(e \in S) \in {0, 1} /\ OneIf(e \in T) \in {0, 1}
  BY DEF OneIf
<1>14. Cardinality(T) = Cardinality(S) - m + n
  BY <1>3, <1>10, <1>12, <1>13
<1> QED BY <1>2, <1>10, <1>14 DEF S, T

LEMMA NextPools == Types /\ LifeInv /\ RefsInv /\ PoolsInv /\ EndInv /\ [Next]_vars => PoolsInv'
<1> SUFFICES ASSUME Types, LifeInv, RefsInv, PoolsInv, EndInv, [Next]_vars PROVE PoolsInv'
  OBVIOUS
<1> DEFINE Freed == {"waitout", "done"}
           Ins == IF main \in Freed THEN Receiving(conn) = {} /\ inPool.listed = 0
                  ELSE Lacks(inPool) = Cardinality(Receiving(conn))
           Outs == IF main = "done" THEN Sending(conn) = {} /\ outPool.listed = 0
                   ELSE Lacks(outPool) >= Cardinality(Sending(conn))
<1>1. /\ inPool \in Pools /\ outPool \in Pools /\ IsFiniteSet(Sending(conn)) /\ Cardinality(Sending(conn)) \in Nat
      /\ IsFiniteSet(Receiving(conn)) /\ Cardinality(Receiving(conn)) \in Nat
      /\ \A p \in Pools : p.made \in Nat /\ p.listed \in Nat /\ Lacks(p) = p.made - p.listed
  BY TcpAssumption, FS_Subset, FS_CardinalityType DEF Types, PoolsInv, Receiving, Pools, Lacks
<1>2. Ins /\ Outs
  BY <1>1 DEF PoolsInv
<1>3. ASSUME inPool' \in Pools, outPool' \in Pools, IsFiniteSet(Sending(conn')), Ins', Outs',
             Cardinality(Sending(conn')) \in Nat, Cardinality(Receiving(conn')) \in Nat
      PROVE  PoolsInv'
  <2>1. /\ inPool'.made \in Nat /\ inPool'.listed \in Nat /\ Lacks(inPool') = inPool'.made - inPool'.listed
        /\ outPool'.made \in Nat /\ outPool'.listed \in Nat /\ Lacks(outPool') = outPool'.made - outPool'.listed
    BY <1>1, <1>3
  <2>2. IF main' \in Freed THEN Receiving(conn') = {} /\ inPool'.listed = 0
        ELSE inPool'.made = inPool'.listed + Cardinality(Receiving(conn'))
    BY <1>3, <2>1
  <2>3. IF main' = "done" THEN Sending(conn') = {} /\ outPool'.listed = 0
        ELSE outPool'.made >= outPool'.listed + Cardinality(Sending(conn'))
    BY <1>3, <2>1
  <2> QED BY <1>3, <2>2, <2>3 DEF PoolsInv
<1>4. CASE UNCHANGED <<conn, poolVars>> /\ (main' = main \/ {main, main'} \cap {"waitout", "done"} = {})
  <2>1. (main' \in Freed <=> main \in Freed) /\ (main' = "done" <=> main = "done")
    BY <1>4
  <2>2. conn' = conn /\ inPool' = inPool /\ outPool' = outPool
    BY <1>4 DEF poolVars
  <2> QED BY <1>1, <1>2, <1>3, <2>1, <2>2
<1>5. CASE InputFreed
  <2>1. /\ main = "waitin" /\ main' = "waitout" /\ UNCHANGED <<conn, outPool>>
        /\ inPool.listed = inPool.made /\ inPool' = [inPool EXCEPT !.listed = 0]
    BY <1>5 DEF InputFreed
  <2>2. Receiving(conn) = {}
    <3>1. Cardinality(Receiving(conn)) = 0
      BY <1>1, <1>2, <2>1
    <3> QED BY <1>1, <3>1, FS_EmptySet
  <2>3. inPool' \in Pools /\ inPool'.listed = 0
    BY <1>1, <2>1 DEF Pools
  <2> QED BY <1>1, <1>2, <1>3, <2>1, <2>2, <2>3
<1>6. CASE OutputFreed
  <2>1. /\ main = "waitout" /\ main' = "done" /\ UNCHANGED <<conn, inPool>>
        /\ outPool.listed = outPool.made /\ outPool' = [outPool EXCEPT !.listed = 0]
    BY <1>6 DEF OutputFreed
  <2>2. Sending(conn) = {}
    <3>1. Cardinality(Sending(conn)) = 0
      BY <1>1, <1>2, <2>1
    <3> QED BY <1>1, <3>1, FS_EmptySet
  <2>3. outPool' \in Pools /\ outPool'.listed = 0
    BY <1>1, <2>1 DEF Pools
  <2> QED BY <1>1, <1>2, <1>3, <2>1, <2>2, <2>3
<1>7. ASSUME Busy, main' = main PROVE main' \notin {"waitin", "waitout", "done"}
  BY <1>7 DEF Busy, Running, EndInv
<1>8. ASSUME NEW c \in Conns, NEW d, NEW b, Step(c, d, b), main' = main,
             Busy \/ (SameRequests(conn[c], d) /\ UNCHANGED poolVars)
      PROVE  PoolsInv'
  <2>1. /\ Cardinality(Receiving(conn')) \in Nat
        /\ Cardinality(Receiving(conn')) = Cardinality(Receiving(conn)) - In(conn[c]) + In(d)
    BY <1>8, ReceivingStep
  <2>2. /\ IsFiniteSet(Sending(conn')) /\ Cardinality(Sending(conn')) \in Nat
        /\ Cardinality(Sending(conn')) = Cardinality(Sending(conn)) - Out(conn[c]) + Out(d)
    BY <1>1, <1>8, SendingStep
  <2>3. /\ conn[c] \in Records /\ d \in Records /\ inPool' \in Pools /\ outPool' \in Pools
        /\ Lacks(inPool') - In(d) = Lacks(inPool) - In(conn[c])
        /\ Lacks(outPool') - Out(d) >= Lacks(outPool) - Out(conn[c])
    BY <1>8 DEF Step, Types
  <2>4. /\ In(d) \in Int /\ In(conn[c]) \in Int /\ Out(d) \in Int /\ Out(conn[c]) \in Int
        /\ Lacks(inPool) \in Int /\ Lacks(outPool) \in Int /\ Lacks(inPool') \in Int /\ Lacks(outPool') \in Int
    BY <1>1, <2>3, Numbers
  <2>5. CASE main' \notin Freed
    <3>1. Lacks(inPool) = Cardinality(Receiving(conn)) /\ Lacks(outPool) >= Cardinality(Sending(conn))
      BY <1>2, <1>8, <2>5
    <3>2. Lacks(inPool') = Cardinality(Receiving(conn'))
      BY <1>1, <2>1, <2>3, <2>4, <3>1
    <3>3. Lacks(outPool') >= Cardinality(Sending(conn'))
      BY <1>1, <2>2, <2>3, <2>4, <3>1
    <3> QED BY <1>3, <2>1, <2>2, <2>3, <2>5, <3>2, <3>3
  <2>6. CASE main' \in Freed
    <3>1. SameRequests(conn[c], d) /\ UNCHANGED poolVars
      BY <1>7, <1>8, <2>6
    <3>2. /\ Cardinality(Receiving(conn')) = Cardinality(Receiving(conn))
          /\ Cardinality(Sending(conn')) = Cardinality(Sending(conn))
      BY <1>1, <2>1, <2>2, <2>4, <3>1 DEF SameRequests
    <3>3. IsFiniteSet(Receiving(conn'))
      BY TcpAssumption, FS_Subset DEF Receiving
    <3>4. Receiving(conn) = {} => Receiving(conn') = {}
      BY <1>1, <3>2, <3>3, FS_EmptySet
    <3>5. Sending(conn) = {} => Sending(conn') = {}
      BY <1>1, <2>2, <3>2, FS_EmptySet
    <3>6. Ins'
      BY <1>2, <1>8, <2>6, <3>1, <3>4 DEF poolVars
    <3>7. Outs'
      BY <1>2, <1>8, <3>1, <3>2, <3>5 DEF poolVars
    <3> QED BY <1>3, <2>1, <2>2, <2>3, <3>6, <3>7
  <2> QED BY <2>5, <2>6
<1>9. ASSUME NEW w \in Workers, th[w].pc # "left" PROVE Busy
  BY <1>9 DEF Busy
<1>10. Summary
  BY StepsSummed
<1> QED BY <1>4, <1>5, <1>6, <1>8, <1>9, <1>10 DEF Summary, Counting

------------------------------------------------------------------------------
(* The invariant holds, and what it implies                                *)

LEMMA InitInv == ~Eager /\ Init => Inv
<1> SUFFICES ASSUME ~Eager, Init PROVE Inv
  OBVIOUS
<1> DEFINE r == [connected |-> 0, iorefs |-> 0, peer |-> FALSE, own |-> "off",
                 recv |-> "off", sends |-> 0, sent |-> 0]
<1>1. r \in Records /\ In(r) = 0 /\ Out(r) = 0 /\ Balance(r) = 0
  BY DEF Records, In, Out, Balance, OneIf
<1>2. /\ \A c \in Conns : conn[c] = r /\ life[c] = "none" /\ phase[c] = "idle"
      /\ \A w \in Workers : th[w] = Idle
      /\ inPool.made = 0 /\ inPool.listed = 0 /\ outPool.made = 0 /\ outPool.listed = 0
      /\ acc.req = "off" /\ acc.conn = NoConn /\ acc.iorefs = 0 /\ main = "created"
      /\ free.depth = 0 /\ free.head = NoConn
  BY DEF Init
<1>3. Types
  <2>1. free \in FreeLists
    <3>1. 0 \in 0 .. TotalMod - 1
      BY ModRange
    <3> QED BY <3>1 DEF Init, FreeLists
  <2>2. conn \in [Conns -> Records]
    BY <1>1 DEF Init
  <2>3. acc \in Accepts /\ inPool \in Pools /\ outPool \in Pools
    BY DEF Init, Accepts, Pools
  <2>4. th \in [Workers -> ThreadRecords]
    BY ActionRecords DEF Init
  <2>5. closes \in 0 .. CloseMax
    BY TcpAssumption DEF Init
  <2> QED BY <2>1, <2>2, <2>3, <2>4, <2>5 DEF Init, Types
<1> HIDE DEF r
<1>4. LifeInv
  <2>1. \A c \in Conns : ConnOK(c)
    <3>1. r.connected = 0 /\ r.own = "off"
      BY DEF r
    <3> QED BY <1>1, <1>2, <3>1 DEF ConnOK, Fits, Connecting
  <2>2. \A w \in Workers : ThreadOK(w)
    BY <1>2 DEF ThreadOK, Idle, Alone, Held, Counting
  <2>3. AccOK
    BY <1>2 DEF AccOK
  <2>4. FreeOK
    <3>1. [i \in 1 .. 0 |-> NoConn] \in [1 .. 0 -> Servers]
      OBVIOUS
    <3>2. Stack([i \in 1 .. 0 |-> NoConn])
      BY <1>2 DEF Stack
    <3>3. \E f \in [1 .. free.depth -> Servers] : Stack(f)
      <4>1. free.depth = 0
        BY <1>2
      <4> QED BY <3>1, <3>2, <4>1
    <3>4. free.depth >= 0
      BY <1>2
    <3> QED BY <3>3, <3>4 DEF FreeOK
  <2> QED BY <2>1, <2>2, <2>3, <2>4 DEF LifeInv, Patient
<1>5. RefsInv
  <2>1. Accepting(th) = {} /\ \A c : Unreffing(th, c) = {}
    BY <1>2 DEF Accepting, Unreffing, Idle, Counting, HandlesAccept
  <2>2. Cardinality({}) = 0
    BY FS_EmptySet
  <2>3. \A c \in Conns : Balance(conn[c]) = Cardinality(Unreffing(th, c))
    BY <1>1, <1>2, <2>1, <2>2
  <2>4. acc.iorefs = OneIf(acc.req # "off") + Cardinality(Accepting(th))
    BY <1>2, <2>1, <2>2 DEF OneIf
  <2> QED BY <2>3, <2>4 DEF RefsInv
<1>6. PoolsInv
  <2>1. Receiving(conn) = {} /\ Sending(conn) = {}
    <3>1. \A c \in Conns : In(conn[c]) = 0 /\ Out(conn[c]) = 0
      BY <1>1, <1>2
    <3> QED BY <3>1 DEF Receiving, Sending, In, OneIf
  <2> QED BY <1>2, <2>1, FS_EmptySet DEF PoolsInv
<1>7. EndInv
  BY <1>2 DEF EndInv, AcceptorFreedUnused
<1> QED BY <1>3, <1>4, <1>5, <1>6, <1>7 DEF Inv

LEMMA InvOfSpec == ASSUME ~Eager PROVE Spec => []Inv
<1>1. Init => Inv
  BY InitInv
<1>2. Inv /\ [Next]_vars => Inv'
  BY NextLife, NextRefs, NextPools, NextEnd DEF Inv
<1> QED BY <1>1, <1>2, PTL DEF Spec

LEMMA InvTyped == Inv => TypeOK
<1> SUFFICES ASSUME Inv PROVE TypeOK
  OBVIOUS
<1>1. Types
  BY DEF Inv
<1>2. ASSUME NEW c \in Conns PROVE conn[c].iorefs \in Nat
  <2>1. Cardinality(Unreffing(th, c)) \in Nat
    BY TcpAssumption, FS_Subset, FS_CardinalityType DEF Unreffing
  <2>2. conn[c] \in Records /\ Balance(conn[c]) = Cardinality(Unreffing(th, c))
    BY DEF Inv, RefsInv, Types
  <2> QED BY <2>1, <2>2, Numbers DEF Balance
<1>3. acc.iorefs \in Nat
  <2>1. Cardinality(Accepting(th)) \in Nat
    BY TcpAssumption, FS_Subset, FS_CardinalityType DEF Accepting
  <2> QED BY <2>1 DEF Inv, RefsInv, OneIf
<1>4. /\ inPool.made \in Nat /\ inPool.listed \in 0 .. inPool.made
      /\ outPool.made \in Nat /\ outPool.listed \in 0 .. outPool.made
  <2>1. /\ inPool.made \in Nat /\ inPool.listed \in Nat /\ outPool.made \in Nat /\ outPool.listed \in Nat
        /\ Cardinality(Receiving(conn)) \in Nat /\ Cardinality(Sending(conn)) \in Nat
    BY <1>1, TcpAssumption, FS_Subset, FS_CardinalityType DEF Types, Pools, Receiving, Inv,
       PoolsInv
  <2> QED BY <2>1 DEF Inv, PoolsInv
<1>5. conn \in [Conns -> [connected : {0, 1}, iorefs : Nat, peer : BOOLEAN,
                         own : {"off", "connecting", "connectok", "connectbad",
                                "disconnecting", "disconnected"},
                         recv : {"off", "kernel", "data", "eof"}, sends : Nat, sent : Nat]]
  <2>1. \A c \in Conns : conn[c] \in Records /\ conn[c].iorefs \in Nat
    BY <1>1, <1>2 DEF Types
  <2> QED BY <1>1, <2>1 DEF Types, Records
<1>6. acc \in [req : {"off", "kernel", "ok"}, conn : Conns \cup {NoConn}, iorefs : Nat, running : {0, 1}]
  BY <1>1, <1>3 DEF Types, Accepts
<1>7. free.head \in Conns \cup {NoConn} /\ free.total \in 0 .. TotalMod - 1 /\ free.depth \in Nat
  BY <1>1 DEF Types, FreeLists, Inv, LifeInv, FreeOK
<1>8. \A p \in {inPool, outPool} : p.made \in Nat /\ p.listed \in 0 .. p.made
  BY <1>4
<1> QED BY <1>1, <1>5, <1>6, <1>7, <1>8 DEF Types, ThreadRecords, TypeOK

LEMMA InvFreed == Inv => FreedUnused
<1> SUFFICES ASSUME Inv PROVE FreedUnused
  OBVIOUS
<1>1. /\ \A c \in Conns : conn[c] \in Records /\ ConnOK(c)
      /\ Types /\ LifeInv /\ EndInv
  BY DEF Inv, Types, LifeInv
<1>2. \A c \in Conns : Outstanding(c) <=> In(conn[c]) + Out(conn[c]) > 0
  BY <1>1, Numbers DEF Outstanding, Out
<1>3. DeletedUntouched
  <2> SUFFICES ASSUME NEW c \in Conns, life[c] = "deleted"
               PROVE  /\ conn[c].own = "off" /\ conn[c].connected = 0 /\ ~Outstanding(c)
                      /\ \A w \in Workers : th[w].conn # c
    BY DEF DeletedUntouched
  <2>1. conn[c].own = "off" /\ conn[c].connected = 0 /\ phase[c] \in {"idle", "failed"}
    BY <1>1 DEF ConnOK, Fits
  <2>2. ~Outstanding(c)
    BY <1>1, <1>2, <2>1 DEF ConnOK, Fits
  <2>3. \A w \in Workers : th[w].conn # c
    BY <1>1, InHand
  <2> QED BY <2>1, <2>2, <2>3
<1>4. PoolFreedUnused
  <2>1. main \in {"waitout", "done"} => \A c \in Conns : conn[c].recv = "off"
    BY DEF Inv, PoolsInv, Receiving
  <2>2. ASSUME main = "done", NEW c \in Conns PROVE ~Outstanding(c)
    <3>1. Out(conn[c]) \in Nat /\ In(conn[c]) = 0
      BY <1>1, <2>1, <2>2, Numbers
    <3>2. Sending(conn) = {}
      BY <2>2 DEF Inv, PoolsInv
    <3>3. ~(Out(conn[c]) > 0)
      <4> SUFFICES ASSUME Out(conn[c]) > 0 PROVE FALSE
        OBVIOUS
      <4>1. 1 \in 1 .. Out(conn[c])
        BY <3>1
      <4>2. <<c, 1>> \in Sending(conn)
        BY <4>1 DEF Sending
      <4> QED BY <3>2, <4>2
    <3> QED BY <1>2, <3>1, <3>3
  <2> QED BY <1>1, <2>1, <2>2 DEF PoolFreedUnused, EndInv
<1> QED BY <1>1, <1>3, <1>4, InvTyped DEF FreedUnused, EndInv

(***************************************************************************)
(* Whenever a program tears its acceptor, its worker and its pool down,    *)
(* what easy_tcp.cpp has freed is used by nobody: a deleted connection has *)
(* no request outstanding and no thread that will touch it again, no       *)
(* accept uses the deleted acceptor, and no request has a context of a     *)
(* list that ~EasyContextPool freed.  For any connections, threads, limits *)
(* and failures, and for an application that sends on a connection and     *)
(* disconnects it only after its first OnData: one that does so from       *)
(* OnConnection on may have a connection deleted that a thread still       *)
(* receives on.                                                            *)
(***************************************************************************)
THEOREM NothingFreedIsUsed == ASSUME ~Eager PROVE Spec => []FreedUnused
<1>1. Spec => []Inv
  BY InvOfSpec
<1> QED BY <1>1, InvFreed, PTL

(* A step of the library tells the application what the protocol allows.   *)
LEMMA ProtocolStep ==
  ASSUME Inv, [Next]_vars
  PROVE  [Protocol!Next]_phase
<1>1. /\ Types /\ LifeInv /\ RefsInv /\ EndInv /\ \A c \in Conns : ConnOK(c)
      /\ conn \in [Conns -> Records] /\ \A c \in Clients : c \in Conns
  BY DEF Inv, LifeInv, Types, Conns
<1>2. ASSUME NEW c \in Conns, NEW s, NEW t, phase[c] = s, phase' = [phase EXCEPT ![c] = t],
             \/ s = "idle" /\ t \in {"open", "rejected", "failed"}
             \/ s \in {"open", "talking"} /\ t = "talking"
             \/ s \in {"open", "talking", "rejected"} /\ t = "lost"
             \/ s = "lost" /\ t = "idle"
      PROVE  Protocol!Next
  BY <1>2 DEF Protocol!Next, Protocol!OnConnection, Protocol!OnConnectFailed, Protocol!OnData,
              Protocol!OnDisconnect, Protocol!Close, Protocol!Tell
<1>3. CASE phase' = phase
  BY <1>3
<1>4. CASE UNCHANGED vars \/ Start \/ Stop \/ Destructors \/ KernelNext
  <2>1. phase' = phase
    BY <1>4 DEF vars, Start, Stop, Destructors, AcceptsDone, ListComplete, Drained, WorkerDeleted,
                InputFreed, OutputFreed, KernelNext, ClientArrives, DisconnectCompletes,
                DataArrives, RecvEnds, SendCompletes, ConnectCompletes, Completes
  <2> QED BY <1>3, <2>1
<1>5. CASE AppNext
  <2>1. ASSUME NEW c \in Conns, Close(c) PROVE Protocol!Next
    BY <1>1, <1>2, <2>1, LostQuiet DEF Close
  <2>2. ASSUME NEW c, Connect(c) \/ Send(c) \/ Disconnect(c) PROVE phase' = phase
    BY <2>2 DEF Connect, Send, Disconnect
  <2> QED BY <1>3, <1>5, <2>1, <2>2 DEF AppNext
<1>6. ASSUME NEW w \in Workers, UpdateAccept(w) PROVE [Protocol!Next]_phase
  <2>1. th[w].conn \in Conns /\ phase[th[w].conn] = "idle"
    BY <1>1, <1>6 DEF LifeInv, ThreadOK, UpdateAccept, Conns
  <2>2. phase' = phase \/ \E t \in {"open", "rejected"} : phase' = [phase EXCEPT ![th[w].conn] = t]
    BY <1>6 DEF UpdateAccept, Announce
  <2> QED BY <1>2, <1>3, <2>1, <2>2
<1>7. ASSUME NEW w \in Workers, NEW c \in Clients, DequeueConnect(w, c) \/ DequeueConnectFailed(w, c)
      PROVE  [Protocol!Next]_phase
  <2>1. c \in Conns /\ phase[c] = "idle"
    BY <1>1, <1>7 DEF ConnOK, Fits, Connecting, DequeueConnect, DequeueConnectFailed
  <2>2. phase' = phase \/ \E t \in {"open", "rejected", "failed"} : phase' = [phase EXCEPT ![c] = t]
    BY <1>7 DEF DequeueConnect, DequeueConnectFailed, Announce
  <2> QED BY <1>2, <1>3, <2>1, <2>2
<1>8. ASSUME NEW w \in Workers, NEW c \in Conns, DequeueDisconnect(w, c) PROVE Protocol!Next
  <2>1. phase[c] \in {"open", "talking", "rejected"}
    BY <1>1, <1>8 DEF ConnOK, Fits, DequeueDisconnect
  <2> QED BY <1>2, <1>8, <2>1 DEF DequeueDisconnect
<1>9. ASSUME NEW w \in Workers, NEW c \in Conns, DequeueRecv(w, c) PROVE [Protocol!Next]_phase
  <2>1. conn[c].recv # "off"
    BY <1>9 DEF DequeueRecv
  <2>2. In(conn[c]) + Out(conn[c]) > 0
    BY <1>1, <2>1, Numbers
  <2>3. phase[c] \in {"open", "talking"}
    BY <1>1, <2>2 DEF ConnOK, Fits
  <2>4. phase' = phase \/ phase' = [phase EXCEPT ![c] = "talking"]
    BY <1>9 DEF DequeueRecv
  <2> QED BY <1>2, <1>3, <2>3, <2>4
<1>10. ASSUME NEW w \in Workers, WorkerNext(w) PROVE [Protocol!Next]_phase
  <2>1. CASE \/ DequeueAccept(w) \/ FirstRecv(w) \/ Reject(w) \/ FirstUnref(w)
             \/ EndAccept(w) \/ CloseFailed(w) \/ Unref(w) \/ TakeEmptyPacket(w)
    BY <1>3, <2>1 DEF DequeueAccept, FirstRecv, Reject, FirstUnref, EndAccept, CloseFailed, Unref,
                      TakeEmptyPacket
  <2>2. ASSUME NEW c \in Conns, DequeueSent(w, c) PROVE [Protocol!Next]_phase
    BY <1>3, <2>2 DEF DequeueSent
  <2> QED BY <1>6, <1>7, <1>8, <1>9, <1>10, <2>1, <2>2 DEF WorkerNext, InHandler, OfConn, OfConnect
<1> QED BY <1>4, <1>5, <1>10 DEF Next

(***************************************************************************)
(* The callbacks of connections that were accepted or connected come in    *)
(* the order of HandlerProtocol: TcpNetwork implements it, from the first  *)
(* accept to the end of the destructors, for an application that sends on  *)
(* a connection and disconnects it only after its first OnData.            *)
(***************************************************************************)
THEOREM CallbacksFollowProtocol == ASSUME ~Eager PROVE Spec => FollowsProtocol
<1>1. Init => Protocol!Init
  BY DEF Init, Protocol!Init
<1>2. Inv /\ [Next]_vars => [Protocol!Next]_phase
  BY ProtocolStep
<1>3. Spec => []Inv
  BY InvOfSpec
<1> QED BY <1>1, <1>2, <1>3, PTL DEF Spec, FollowsProtocol, Protocol!Spec
====
