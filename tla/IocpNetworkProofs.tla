-------------------------- MODULE IocpNetworkProofs --------------------------
(***************************************************************************)
(* Proofs about IocpNetwork, for any number of connections, workers and    *)
(* contexts, any faults, and an eager or a patient application.            *)
(***************************************************************************)
EXTENDS IocpNetwork, FiniteSetTheorems, TLAPS

ThreadRecords == [pc : Pcs, conn : MaybeConn, ctx : Ctxs \cup {NoCtx}]
RequestRecords == [st : RequestStates, conn : MaybeConn]

------------------------------------------------------------------------------
(* Type correctness                                                        *)

(* The remainder modulo TotalMod is in the range of total_connection_.     *)
LEMMA ModRange == \A n \in Int : n % TotalMod \in 0 .. TotalMod - 1
  BY NumbersAssumption

LEMMA ActionRecords ==
  /\ Off \in RequestRecords /\ Idle \in ThreadRecords
  /\ \A c \in MaybeConn : InKernel(c) \in RequestRecords
  /\ \A pc \in Pcs, c \in MaybeConn, x \in Ctxs \cup {NoCtx} : At(pc, c, x) \in ThreadRecords
  BY DEF Off, Idle, InKernel, At, RequestRecords, ThreadRecords, RequestStates, MaybeConn, Pcs

FreeLists == [head : MaybeConn, next : [Conns -> MaybeConn]]

LEMMA PushedList == \A l \in FreeLists, c \in MaybeConn : SPush(l, c) \in FreeLists
  BY DEF FreeLists, SPush, MaybeConn

LEMMA PoppedPool ==
  ASSUME NEW x \in Ctxs, PopContext(x), pool \in [Ctxs -> Nat], made \subseteq Ctxs
  PROVE  pool' \in [Ctxs -> Nat] /\ made' \subseteq Ctxs
<1>1. pool' = [pool EXCEPT ![x] = IF pool[x] > 0 THEN pool[x] - 1 ELSE pool[x]]
  BY DEF PopContext
<1>2. (IF pool[x] > 0 THEN pool[x] - 1 ELSE pool[x]) \in Nat
  OBVIOUS
<1> QED
  BY <1>1, <1>2 DEF PopContext

LEMMA PushedPool ==
  ASSUME NEW x \in Ctxs, PushContext(x), pool \in [Ctxs -> Nat] PROVE pool' \in [Ctxs -> Nat]
  BY DEF PushContext

LEMMA DisconnectedTypes ==
  ASSUME TypeOK, NEW c \in Conns, AsyncDisconnect(c)
  PROVE  connected' \in [Conns -> {0, 1}] /\ disc' \in [Conns -> {"off", "kernel", "ok"}]
  BY DEF TypeOK, AsyncDisconnect

(* What TakeConnection writes has its type.                                *)
LEMMA TakenTypes ==
  ASSUME TypeOK, NEW c \in Conns, NEW l \in FreeLists, TakeConnection(c, l)
  PROVE  /\ freeConnection' \in FreeLists /\ total' \in 0 .. TotalMod - 1
         /\ sock' \in [Conns -> {"none", "idle", "connected"}]
         /\ accIorefs' \in Int /\ running' \in {0, 1}
  BY ModRange DEF TypeOK, TakeConnection

LEMMA CandidatesAndRemaining ==
  TypeOK => Candidates \subseteq Conns /\ Remaining \in FreeLists
  BY DEF TypeOK, Candidates, Fresh, Reusing, Remaining, SPop, FreeLists, MaybeConn

LEMMA InitTypeOK == Init => TypeOK
  BY NumbersAssumption, SMT DEF Init, TypeOK, Off, Idle, RequestStates, MaybeConn, Pcs

LEMMA NextTypeOK == TypeOK /\ RecordsInv /\ [Next]_vars => TypeOK'
<1> SUFFICES ASSUME TypeOK, RecordsInv, [Next]_vars PROVE TypeOK'
  OBVIOUS
<1> USE DEF TypeOK, Pcs, RequestStates, MaybeConn, Threads, connVars, accVars, ctxVars,
            Off, InKernel, Idle, At, Goto, Return
<1>1. CASE UNCHANGED vars
  BY <1>1 DEF vars
<1>2. ASSUME NEW t \in Threads, NEW after \in ThreadRecords, Accept(t, after) PROVE TypeOK'
  <2>1. CASE AcceptPosted(t, after)
    <3>1. PICK c \in Conns : /\ TakeConnection(c, Remaining) /\ acc' = InKernel(c)
                             /\ th' = [th EXCEPT ![t] = after]
      BY <2>1, CandidatesAndRemaining DEF AcceptPosted
    <3>2. th' \in [Threads -> ThreadRecords] /\ acc' \in RequestRecords
      BY <3>1 DEF ThreadRecords, RequestRecords
    <3> QED
      BY <1>2, <3>1, <3>2, TakenTypes, CandidatesAndRemaining
         DEF Accept, FreeLists, ThreadRecords, RequestRecords
  <2>2. CASE AcceptRefused(t, after)
    <3>1. PICK c \in Conns : /\ TakeConnection(c, IF Quiet(c) THEN SPush(Remaining, c) ELSE Remaining)
                             /\ acc' = [Off EXCEPT !.conn = c]
                             /\ Goto(t, "refused", after.conn, NoCtx)
      BY <2>2, CandidatesAndRemaining DEF AcceptRefused
    <3>2. th' \in [Threads -> ThreadRecords] /\ acc' \in RequestRecords
      BY <3>1 DEF ThreadRecords, RequestRecords
    <3>3. (IF Quiet(c) THEN SPush(Remaining, c) ELSE Remaining) \in FreeLists
      BY CandidatesAndRemaining, PushedList
    <3> QED
      BY <1>2, <3>1, <3>2, <3>3, TakenTypes DEF Accept, FreeLists, ThreadRecords, RequestRecords
  <2>3. CASE AcceptWithout(t, after)
    BY <1>2, <2>3 DEF Accept, AcceptWithout, ThreadRecords
  <2> QED
    BY <1>2, <2>1, <2>2, <2>3 DEF Accept

<1>3. ASSUME NEW t \in Threads, AcceptGivesUp(t) PROVE TypeOK'
  <2>1. th' \in [Threads -> ThreadRecords]
    BY <1>3 DEF AcceptGivesUp, ThreadRecords
  <2>2. freeConnection' \in FreeLists
    BY <1>3, PushedList DEF AcceptGivesUp, FreeLists
  <2> QED
    BY <1>3, <2>1, <2>2, ModRange DEF AcceptGivesUp, ThreadRecords, FreeLists
<1>4. CASE MainNext
  <2>1. CASE Start
    BY <2>1 DEF Start
  <2>2. CASE StartAccept
    BY <2>2, <1>2, ActionRecords DEF StartAccept
  <2>3. CASE Stop
    BY <2>3 DEF Stop
  <2> QED
    BY <1>3, <1>4, <2>1, <2>2, <2>3 DEF MainNext
<1>5. ASSUME NEW t \in Threads, NEW c \in Conns, NEW x \in Ctxs, NEW posted \in ThreadRecords,
             Post(t, c, x, posted), UNCHANGED <<sock, phase, accVars, made>>
      PROVE  TypeOK'
  BY <1>5 DEF Post, ThreadRecords
<1>6. ASSUME NEW t \in Threads, NEW c \in Conns, NEW x \in Ctxs, NEW pc \in Pcs,
             PostFails(t, c, x, pc), UNCHANGED <<sock, phase, accVars, made>>
      PROVE  TypeOK'
  <2>1. pool' \in [Ctxs -> Nat] /\ connected' \in [Conns -> {0, 1}] /\ disc' \in [Conns -> {"off", "kernel", "ok"}]
    BY <1>6, PushedPool, DisconnectedTypes DEF PostFails
  <2>2. th' \in [Threads -> ThreadRecords] /\ iorefs' \in [Conns -> Int]
    BY <1>6 DEF PostFails, ThreadRecords
  <2> QED
    BY <1>6, <2>1, <2>2 DEF PostFails, ThreadRecords
<1>7. ASSUME NEW w \in Workers, WorkerNext(w) PROVE TypeOK'
  <2> w \in Threads
    OBVIOUS
  <2> th[w] \in ThreadRecords
    BY DEF ThreadRecords
  <2>a. th[w].pc \in {"firstrecv"} \cup HandlingPcs \cup UnrefPcs => th[w].conn \in Conns
    BY DEF RecordsInv
  <2>b. th[w].pc \in {"firstrecv", "nextrecv"} => th[w].ctx \in Ctxs
    BY DEF RecordsInv
  <2>1. CASE DequeueAccept(w)
    <3>1. At("update", acc.conn, NoCtx) \in ThreadRecords
      BY ActionRecords
    <3> QED
      BY <2>1, <3>1, <1>2 DEF DequeueAccept
  <2>2. CASE DequeueFailedAccept(w)
    BY <2>2 DEF DequeueFailedAccept
  <2>3. CASE AcceptGivesUp(w)
    BY <2>3, <1>3
  <2>4. CASE UpdateAccept(w)
    <3>1. pool' \in [Ctxs -> Nat] /\ made' \subseteq Ctxs
      BY <2>4, PoppedPool DEF UpdateAccept, Poppable, Ctxs
    <3>2. th' \in [Threads -> ThreadRecords]
      BY <2>4 DEF UpdateAccept, Poppable, Ctxs, ThreadRecords
    <3> QED
      BY <2>4, <3>1, <3>2 DEF UpdateAccept, ThreadRecords
  <2>5. CASE UpdateAcceptFails(w)
    BY <2>5 DEF UpdateAcceptFails
  <2>6. CASE RejectConnection(w)
    BY <2>6 DEF RejectConnection, AsyncDisconnect
  <2>7. CASE FirstRecv(w)
    BY <2>7, <2>a, <2>b, <1>5, <1>6, ActionRecords DEF FirstRecv
  <2>8. CASE FirstUnref(w)
    BY <2>8, <2>a DEF FirstUnref, Unref, UnrefPcs
  <2>9. CASE EndAccept(w)
    BY <2>9 DEF EndAccept
  <2>10. CASE NextRecv(w)
    BY <2>10, <2>a, <2>b, <1>5, <1>6, ActionRecords DEF NextRecv, HandlingPcs
  <2>11. CASE NextUnref(w)
    BY <2>11, <2>a DEF NextUnref, Unref, UnrefPcs
  <2>12. CASE EndHandling(w)
    BY <2>12, <2>a DEF EndHandling, Unref, HandlingPcs
  <2>13. ASSUME NEW x \in Ctxs, DequeueData(w, x) PROVE TypeOK'
    BY <2>13 DEF DequeueData
  <2>14. ASSUME NEW x \in Ctxs, DequeueEof(w, x) PROVE TypeOK'
    <3>1. ov[x].conn \in Conns
      BY <2>14 DEF DequeueEof, RecordsInv
    <3>2. pool' \in [Ctxs -> Nat] /\ connected' \in [Conns -> {0, 1}] /\ disc' \in [Conns -> {"off", "kernel", "ok"}]
      BY <2>14, <3>1, PushedPool, DisconnectedTypes DEF DequeueEof
    <3> QED
      BY <2>14, <3>2 DEF DequeueEof
  <2>15. ASSUME NEW x \in Ctxs, DequeueSent(w, x) PROVE TypeOK'
    <3>1. pool' \in [Ctxs -> Nat]
      BY <2>15, PushedPool DEF DequeueSent
    <3>2. th' \in [Threads -> ThreadRecords] /\ ov' \in [Ctxs -> RequestRecords]
      BY <2>15 DEF DequeueSent, ThreadRecords, RequestRecords
    <3> QED
      BY <2>15, <3>1, <3>2 DEF DequeueSent, ThreadRecords, RequestRecords
  <2>16. ASSUME NEW c \in Conns, DequeueDisconnect(w, c) PROVE TypeOK'
    BY <2>16 DEF DequeueDisconnect
  <2> QED
    BY <1>7, <2>1, <2>2, <2>3, <2>4, <2>5, <2>6, <2>7, <2>8, <2>9, <2>10, <2>11,
       <2>12, <2>13, <2>14, <2>15, <2>16 DEF WorkerNext
<1>8. CASE AppNext
  <2> App \in Threads
    OBVIOUS
  <2>a. th[App].pc \in {"send", "post"} \cup UnrefPcs => th[App].conn \in Conns
    BY DEF RecordsInv
  <2>b. th[App].pc \in {"send", "post"} => th[App].ctx \in Ctxs
    BY DEF RecordsInv
  <2>1. CASE AppSendOversize
    BY <2>1 DEF AppSendOversize
  <2>2. CASE AppSendOverLimit
    <3>1. PICK c \in Conns, x \in Ctxs : c = th[App].conn /\ x = th[App].ctx
      BY <2>2, <2>a, <2>b DEF AppSendOverLimit
    <3>2. PushContext(x) /\ AsyncDisconnect(c)
      BY <2>2, <3>1 DEF AppSendOverLimit
    <3>3. /\ pool' \in [Ctxs -> Nat] /\ connected' \in [Conns -> {0, 1}]
          /\ disc' \in [Conns -> {"off", "kernel", "ok"}]
      BY <3>2, PushedPool, DisconnectedTypes
    <3>4. /\ th' = [th EXCEPT ![App] = Idle] /\ Idle \in ThreadRecords
          /\ UNCHANGED <<iorefs, sock, phase, accVars, made, ov>>
      BY <2>2, ActionRecords DEF AppSendOverLimit
    <3>5. th' \in [Threads -> ThreadRecords]
      BY <3>4 DEF ThreadRecords
    <3> QED BY <3>3, <3>4, <3>5 DEF ThreadRecords
  <2>3. CASE AppSendPost
    <3>1. PICK c \in Conns, x \in Ctxs : c = th[App].conn /\ x = th[App].ctx
      BY <2>3, <2>a, <2>b DEF AppSendPost
    <3>2. /\ Post(App, c, x, Idle) \/ PostFails(App, c, x, "sendunref")
          /\ UNCHANGED <<sock, phase, accVars, made>>
      BY <2>3, <3>1 DEF AppSendPost
    <3>3. Idle \in ThreadRecords
      BY ActionRecords
    <3> QED BY <3>2, <3>3, <1>5, <1>6
  <2>4. CASE AppSendUnref
    BY <2>4, <2>a DEF AppSendUnref, Unref, UnrefPcs
  <2>5. ASSUME NEW c \in Conns, AppSend(c) PROVE TypeOK'
    <3>1. pool' \in [Ctxs -> Nat] /\ made' \subseteq Ctxs
      BY <2>5, PoppedPool DEF AppSend, Poppable, Ctxs
    <3>2. th' \in [Threads -> ThreadRecords]
      BY <2>5 DEF AppSend, Poppable, Ctxs, ThreadRecords
    <3> QED
      BY <2>5, <3>1, <3>2 DEF AppSend, ThreadRecords
  <2>6. ASSUME NEW c \in Conns, AppDisconnect(c) PROVE TypeOK'
    BY <2>6 DEF AppDisconnect, AsyncDisconnect
  <2>7. ASSUME NEW c \in Conns, AppClose(c) PROVE TypeOK'
    <3>1. freeConnection' \in FreeLists
      BY <2>7, PushedList DEF AppClose, FreeLists
    <3> QED
      BY <2>7, <3>1 DEF AppClose, FreeLists
  <2>8. CASE AppSendWithinLimit
    BY <2>8, <2>a, <2>b DEF AppSendWithinLimit
  <2> QED
    BY <1>8, <2>1, <2>2, <2>3, <2>4, <2>5, <2>6, <2>7, <2>8 DEF AppNext
<1>9. CASE KernelNext
  <2>1. CASE ConnectionArrives
    BY <2>1 DEF ConnectionArrives
  <2>2. CASE AcceptExFails
    BY <2>2 DEF AcceptExFails
  <2>3. ASSUME NEW x \in Ctxs, RequestSucceeds(x) \/ RequestFails(x) PROVE TypeOK'
    <3>1. ov' \in [Ctxs -> [st : RequestStates, conn : MaybeConn]]
      <4>1. CASE RequestSucceeds(x)
        BY <4>1 DEF RequestSucceeds
      <4>2. CASE RequestFails(x)
        BY <4>2 DEF RequestFails
      <4> QED
        BY <2>3, <4>1, <4>2
    <3> QED
      BY <2>3, <3>1 DEF RequestSucceeds, RequestFails
  <2>4. ASSUME NEW c \in Conns, DisconnectCompletes(c) PROVE TypeOK'
    BY <2>4 DEF DisconnectCompletes
  <2> QED
    BY <1>9, <2>1, <2>2, <2>3, <2>4 DEF KernelNext
<1> QED
  BY <1>1, <1>4, <1>7, <1>8, <1>9 DEF Next

------------------------------------------------------------------------------
(* The records of threads and requests                                     *)

(* What RecordsInv says of the record of one thread.                       *)
ThreadOK(t, r) ==
  /\ r.pc \in {"firstrecv", "nextrecv", "send", "post"} <=> r.ctx # NoCtx
  /\ \/ r.pc \in {"update", "reject", "firstrecv", "send", "post"} \cup HandlingPcs \cup UnrefPcs
     \/ r.pc = "refused" /\ t # Main
     => r.conn \in Conns
AccOK == acc.st # "off" => acc.conn \in Conns

(* A step that changes at most the record of t, to one that is OK, and at  *)
(* most the request of x, to one that is off or has a connection.          *)
LEMMA RecordsStep ==
  ASSUME TypeOK, RecordsInv,
         NEW t \in Threads, NEW r \in ThreadRecords, ThreadOK(t, r) \/ r = th[t],
         th' = [th EXCEPT ![t] = r], AccOK',
         \/ ov' = ov
         \/ \E x \in Ctxs, q \in RequestRecords :
              ov' = [ov EXCEPT ![x] = q] /\ (q.st # "off" => q.conn \in Conns)
  PROVE  RecordsInv'
<1> USE DEF RecordsInv, TypeOK
<1>1. ASSUME NEW u \in Threads PROVE ThreadOK(u, th'[u])
  BY <1>1 DEF ThreadOK
<1>2. ASSUME NEW x \in Ctxs, ov'[x].st # "off" PROVE ov'[x].conn \in Conns
  BY <1>2 DEF RequestRecords
<1> QED
  BY <1>1, <1>2 DEF ThreadOK, AccOK

LEMMA NextRecordsInv == TypeOK /\ RecordsInv /\ [Next]_vars => RecordsInv'
<1> SUFFICES ASSUME TypeOK, RecordsInv, [Next]_vars PROVE RecordsInv'
  OBVIOUS
<1> USE DEF Pcs, MaybeConn, Threads, ThreadOK, ThreadRecords, Idle, At, Goto, Return,
            HandlingPcs, UnrefPcs
<1>0. th \in [Threads -> ThreadRecords] /\ ov \in [Ctxs -> RequestRecords]
  BY DEF TypeOK, RequestRecords
<1>1. ASSUME th' = th, ov' = ov, AccOK' PROVE RecordsInv'
  BY <1>1 DEF RecordsInv, AccOK
<1>2. ASSUME NEW t \in Threads, NEW r \in ThreadRecords, ThreadOK(t, r),
             th' = [th EXCEPT ![t] = r], ov' = ov, AccOK'
      PROVE  RecordsInv'
  BY <1>2, RecordsStep
<1>a. AccOK /\ (acc' = acc => AccOK')
  BY DEF RecordsInv, AccOK
<1>3. ASSUME NEW t \in Threads, NEW after \in ThreadRecords, ThreadOK(t, after),
             after.conn \in Conns \/ t = Main, Accept(t, after)
      PROVE  RecordsInv'
  <2>a. AccOK'
    BY <1>3 DEF Accept, AcceptPosted, AcceptRefused, AcceptWithout, Candidates, Fresh, Reusing,
                TypeOK, AccOK, Off, InKernel
  <2>1. At("refused", after.conn, NoCtx) \in ThreadRecords /\ ThreadOK(t, At("refused", after.conn, NoCtx))
    BY <1>3
  <2> QED
    BY <1>3, <1>2, <2>a, <2>1 DEF Accept, AcceptPosted, AcceptRefused, AcceptWithout, accVars,
                                  ctxVars
<1>4. ASSUME NEW t \in Threads, AcceptGivesUp(t) PROVE RecordsInv'
  <2>1. AccOK' /\ ThreadOK(t, th[t])
    BY <1>4 DEF AcceptGivesUp, AccOK, Off, RecordsInv
  <2> QED
    BY <1>0, <1>2, <1>4, <2>1 DEF AcceptGivesUp, accVars, ctxVars
<1>5. ASSUME NEW t \in Threads, NEW c \in Conns, NEW x \in Ctxs,
             NEW posted \in ThreadRecords, ThreadOK(t, posted), Post(t, c, x, posted), acc' = acc
      PROVE  RecordsInv'
  <2>1. InKernel(c) \in RequestRecords /\ InKernel(c).conn \in Conns
    BY DEF InKernel, RequestRecords, RequestStates
  <2> QED
    BY <1>5, <1>a, <2>1, RecordsStep DEF Post
<1>6. ASSUME NEW t \in Threads, NEW c \in Conns, NEW x \in Ctxs, NEW pc \in UnrefPcs,
             PostFails(t, c, x, pc), acc' = acc
      PROVE  RecordsInv'
  BY <1>6, <1>2, <1>a DEF PostFails
<1>7. CASE MainNext
  BY <1>0, <1>1, <1>2, <1>3, <1>4, <1>7, <1>a DEF MainNext, Start, StartAccept, Stop, accVars,
     ctxVars
<1>8. ASSUME NEW w \in Workers, WorkerNext(w) PROVE RecordsInv'
  <2> w \in Threads /\ th[w] \in ThreadRecords
    BY <1>0
  <2>a. ThreadOK(w, th[w])
    BY DEF RecordsInv
  <2>1. CASE DequeueAccept(w)
    <3>1. acc.conn \in Conns /\ At("update", acc.conn, NoCtx) \in ThreadRecords
      BY <2>1, <1>a DEF DequeueAccept, AccOK
    <3> QED
      BY <2>1, <3>1, <1>3 DEF DequeueAccept
  <2>2. CASE DequeueFailedAccept(w)
    BY <2>2, <1>1 DEF AccOK, Off, DequeueFailedAccept, accVars, ctxVars
  <2>3. CASE AcceptGivesUp(w)
    BY <2>3, <1>4
  <2>4. CASE UpdateAccept(w)
    <3>1. ASSUME NEW x \in Ctxs, Goto(w, "firstrecv", th[w].conn, x) PROVE RecordsInv'
      BY <2>4, <3>1, <2>a, <1>2, <1>a, SetsAssumption DEF UpdateAccept, accVars
    <3>2. ASSUME Goto(w, "reject", th[w].conn, NoCtx) PROVE RecordsInv'
      BY <2>4, <3>2, <2>a, <1>2, <1>a DEF UpdateAccept, accVars
    <3> QED
      BY <2>4, <3>1, <3>2 DEF UpdateAccept, Poppable, Ctxs
  <2>5. CASE UpdateAcceptFails(w)
    BY <2>5, <1>2, <1>a DEF UpdateAcceptFails, accVars, ctxVars
  <2>6. CASE RejectConnection(w)
    BY <2>6, <1>2, <1>a DEF RejectConnection, accVars, ctxVars
  <2>7. CASE FirstRecv(w)
    BY <2>7, <2>a, <1>5, <1>6 DEF FirstRecv, accVars
  <2>8. CASE FirstUnref(w)
    BY <2>8, <1>2, <1>a DEF FirstUnref, accVars, ctxVars
  <2>9. CASE EndAccept(w)
    BY <2>9, <1>2, <1>a DEF EndAccept, accVars, ctxVars
  <2>10. CASE NextRecv(w)
    BY <2>10, <2>a, <1>5, <1>6 DEF NextRecv, accVars
  <2>11. CASE NextUnref(w)
    BY <2>11, <2>a, <1>2, <1>a DEF NextUnref, accVars, ctxVars
  <2>12. CASE EndHandling(w)
    BY <2>12, <1>2, <1>a DEF EndHandling, accVars, ctxVars
  <2>13. ASSUME NEW x \in Ctxs, DequeueData(w, x) \/ DequeueEof(w, x) \/ DequeueSent(w, x)
         PROVE  RecordsInv'
    <3>1. ov[x].conn \in Conns
      BY <2>13 DEF DequeueData, DequeueEof, DequeueSent, RecordsInv
    <3>2. ov' = [ov EXCEPT ![x] = Off] /\ Off \in RequestRecords /\ Off.st = "off"
      BY <2>13 DEF DequeueData, DequeueEof, DequeueSent, Off, RequestRecords, RequestStates
    <3>3. CASE DequeueData(w, x)
      BY <3>1, <3>2, <3>3, <1>a, RecordsStep, SetsAssumption DEF DequeueData, accVars
    <3>4. CASE DequeueEof(w, x) \/ DequeueSent(w, x)
      <4> DEFINE r == At("handled", ov[x].conn, NoCtx)
      <4>1. r \in ThreadRecords /\ ThreadOK(w, r)
        BY <3>1
      <4>2. th' = [th EXCEPT ![w] = r] /\ AccOK'
        BY <3>4, <1>a DEF DequeueEof, DequeueSent, accVars
      <4> QED
        BY <3>2, <4>1, <4>2, RecordsStep
    <3> QED
      BY <2>13, <3>3, <3>4
  <2>14. ASSUME NEW c \in Conns, DequeueDisconnect(w, c) PROVE RecordsInv'
    BY <2>14, <1>1, <1>a DEF DequeueDisconnect, accVars, ctxVars
  <2> QED
    BY <1>8, <2>1, <2>2, <2>3, <2>4, <2>5, <2>6, <2>7, <2>8, <2>9, <2>10, <2>11,
       <2>12, <2>13, <2>14 DEF WorkerNext
<1>9. CASE AppNext
  <2> App \in Threads /\ th[App] \in ThreadRecords
    BY <1>0
  <2>a. ThreadOK(App, th[App])
    BY DEF RecordsInv
  <2>1. CASE AppSendOversize
    BY <2>1, <1>2, <1>a DEF AppSendOversize, accVars, ctxVars
  <2>2. CASE AppSendOverLimit
    BY <2>2, <1>2, <1>a DEF AppSendOverLimit, accVars
  <2>3. CASE AppSendPost
    BY <2>3, <2>a, <1>5, <1>6 DEF AppSendPost, accVars
  <2>4. CASE AppSendUnref
    BY <2>4, <1>2, <1>a DEF AppSendUnref, accVars, ctxVars
  <2>5. ASSUME NEW c \in Conns, AppSend(c) PROVE RecordsInv'
    <3>1. ASSUME NEW x \in Ctxs, Goto(App, "send", c, x) PROVE RecordsInv'
      BY <2>5, <3>1, <1>2, <1>a, SetsAssumption DEF AppSend, accVars
    <3> QED
      BY <2>5, <3>1 DEF AppSend, Poppable, Ctxs
  <2>6. ASSUME NEW c \in Conns, AppDisconnect(c) \/ AppClose(c) PROVE RecordsInv'
    BY <2>6, <1>1, <1>a DEF AppDisconnect, AppClose, accVars, ctxVars
  <2>7. CASE AppSendWithinLimit
    <3>1. At("post", th[App].conn, th[App].ctx) \in ThreadRecords
      OBVIOUS
    <3>2. ThreadOK(App, At("post", th[App].conn, th[App].ctx))
      BY <2>7, <2>a DEF AppSendWithinLimit
    <3> QED
      BY <2>7, <3>1, <3>2, <1>2, <1>a DEF AppSendWithinLimit, accVars, ctxVars
  <2> QED
    BY <1>9, <2>1, <2>2, <2>3, <2>4, <2>5, <2>6, <2>7 DEF AppNext
<1>10. CASE KernelNext
  <2>1. CASE ConnectionArrives \/ AcceptExFails
    BY <2>1, <1>1, <1>a DEF AccOK, TypeOK, ConnectionArrives, AcceptExFails, accVars, ctxVars
  <2>2. ASSUME NEW x \in Ctxs, RequestSucceeds(x) \/ RequestFails(x) PROVE RecordsInv'
    BY <2>2, <1>0 DEF RequestSucceeds, RequestFails, RecordsInv, RequestRecords, accVars
  <2>3. ASSUME NEW c \in Conns, DisconnectCompletes(c) PROVE RecordsInv'
    BY <2>3, <1>1, <1>a DEF DisconnectCompletes, accVars, ctxVars
  <2> QED
    BY <1>10, <2>1, <2>2, <2>3 DEF KernelNext
<1>11. CASE UNCHANGED vars
  BY <1>1, <1>11, <1>a DEF vars, accVars, ctxVars
<1> QED
  BY <1>7, <1>8, <1>9, <1>10, <1>11 DEF Next

LEMMA InitRecordsInv == Init => RecordsInv
  BY DEF Init, RecordsInv, Idle, Off, HandlingPcs, UnrefPcs

(* Every variable of the model keeps its type, and every thread that       *)
(* counts for a connection or posts a context has them in hand.            *)
THEOREM TypeCorrect == Spec => [](TypeOK /\ RecordsInv)
  BY InitTypeOK, InitRecordsInv, NextTypeOK, NextRecordsInv, PTL DEF Spec

------------------------------------------------------------------------------
(* Contexts: where they are, and that they are in one place                *)

(* The five ways in which a step can treat the contexts.                   *)
LEMMA PlacesKept ==
  ASSUME PlacesInv, made' = made, pool' = pool,
         \A x \in Ctxs : ov'[x].st # "off" <=> ov[x].st # "off",
         \A u \in Threads, x \in Ctxs : th'[u].ctx = x => th[u].ctx = x
  PROVE  PlacesInv'
  BY DEF PlacesInv

LEMMA PlacesPopped ==
  ASSUME TypeOK, PlacesInv, NEW X \in SUBSET Ctxs, NEW x \in Poppable(X), PopContext(x), ov' = ov,
         NEW t \in Threads, th[t].ctx = NoCtx, th'[t].ctx = x,
         \A u \in Threads \ {t} : th'[u] = th[u]
  PROVE  PlacesInv'
<1> USE DEF PlacesInv, TypeOK
<1>1. x \in Ctxs /\ (x \in made => pool[x] = 1)
  BY DEF Poppable
<1>2. made' = made \cup {x} /\ pool'[x] = 0 /\ \A y \in Ctxs \ {x} : pool'[y] = pool[y]
  BY <1>1 DEF PopContext
<1>3. ov[x].st = "off" /\ \A u \in Threads : th[u].ctx # x
  BY <1>1
<1>4. \A u \in Threads, y \in Ctxs : th'[u].ctx = y <=> (u = t /\ y = x) \/ (u # t /\ th[u].ctx = y)
  OBVIOUS
<1> QED
  BY <1>1, <1>2, <1>3, <1>4, SetsAssumption

(* The next record of thread t is r, which holds no context.               *)
Lets(t, r) == th' = [th EXCEPT ![t] = r] /\ r.ctx = NoCtx

LEMMA PlacesPosted ==
  ASSUME TypeOK, PlacesInv, NEW t \in Threads, NEW x \in Ctxs, th[t].ctx = x,
         NEW q, ov' = [ov EXCEPT ![x] = q], NEW r, Lets(t, r), UNCHANGED <<made, pool>>
  PROVE  PlacesInv'
<1> USE DEF PlacesInv, TypeOK, Lets
<1>1. ov[x].st = "off" /\ pool[x] = 0 /\ x \in made /\ \A u \in Threads : th[u].ctx = x => u = t
  OBVIOUS
<1>2. \A u \in Threads, y \in Ctxs : th'[u].ctx = y <=> u # t /\ th[u].ctx = y
  BY SetsAssumption
<1>3. \A y \in Ctxs \ {x} : ov'[y] = ov[y]
  OBVIOUS
<1> QED
  BY <1>1, <1>2, <1>3

LEMMA PlacesPushed ==
  ASSUME TypeOK, PlacesInv, NEW t \in Threads, NEW x \in Ctxs, th[t].ctx = x,
         PushContext(x), NEW r, Lets(t, r), UNCHANGED <<made, ov>>
  PROVE  PlacesInv'
<1> USE DEF PlacesInv, TypeOK, Lets
<1>1. ov[x].st = "off" /\ pool[x] = 0 /\ x \in made /\ \A u \in Threads : th[u].ctx = x => u = t
  OBVIOUS
<1>2. \A u \in Threads, y \in Ctxs : th'[u].ctx = y <=> u # t /\ th[u].ctx = y
  BY SetsAssumption
<1>3. pool'[x] = 1 /\ \A y \in Ctxs \ {x} : pool'[y] = pool[y]
  BY <1>1 DEF PushContext
<1> QED
  BY <1>1, <1>2, <1>3

LEMMA PlacesTaken ==
  ASSUME TypeOK, PlacesInv, NEW t \in Threads, th[t].ctx = NoCtx, NEW x \in Ctxs, ov[x].st # "off",
         ov' = [ov EXCEPT ![x] = Off], NEW r, r.ctx = x, th' = [th EXCEPT ![t] = r],
         UNCHANGED <<made, pool>>
  PROVE  PlacesInv'
<1> USE DEF PlacesInv, TypeOK, Off
<1>1. pool[x] = 0 /\ x \in made /\ \A u \in Threads : th[u].ctx # x
  <2>1. pool[x] \in Nat /\ pool[x] <= 1 /\ pool[x] # 1 /\ x \in made
    OBVIOUS
  <2>2. \A n \in Nat : n <= 1 /\ n # 1 => n = 0
    OBVIOUS
  <2>3. \A u \in Threads : th[u].ctx # x
    OBVIOUS
  <2> QED
    BY <2>1, <2>2, <2>3
<1>2. \A u \in Threads, y \in Ctxs : th'[u].ctx = y <=> (u = t /\ y = x) \/ (u # t /\ th[u].ctx = y)
  BY SetsAssumption
<1>3. ov'[x].st = "off" /\ \A y \in Ctxs \ {x} : ov'[y] = ov[y]
  OBVIOUS
<1> QED
  BY <1>1, <1>2, <1>3

LEMMA PlacesReturned ==
  ASSUME TypeOK, PlacesInv, NEW t \in Threads, th[t].ctx = NoCtx, NEW x \in Ctxs, ov[x].st # "off",
         ov' = [ov EXCEPT ![x] = Off], PushContext(x), NEW r, Lets(t, r), UNCHANGED made
  PROVE  PlacesInv'
<1> USE DEF PlacesInv, TypeOK, Off, Lets
<1>1. pool[x] = 0 /\ x \in made /\ \A u \in Threads : th[u].ctx # x
  <2>1. pool[x] \in Nat /\ pool[x] <= 1 /\ pool[x] # 1 /\ x \in made
    OBVIOUS
  <2>2. \A n \in Nat : n <= 1 /\ n # 1 => n = 0
    OBVIOUS
  <2>3. \A u \in Threads : th[u].ctx # x
    OBVIOUS
  <2> QED
    BY <2>1, <2>2, <2>3
<1>2. \A u \in Threads, y \in Ctxs : th'[u].ctx = y <=> th[u].ctx = y
  BY SetsAssumption
<1>3. ov'[x].st = "off" /\ \A y \in Ctxs \ {x} : ov'[y] = ov[y]
  OBVIOUS
<1>4. pool'[x] = 1 /\ \A y \in Ctxs \ {x} : pool'[y] = pool[y]
  BY <1>1 DEF PushContext
<1> QED
  BY <1>1, <1>2, <1>3, <1>4

LEMMA NextPlacesInv == TypeOK /\ RecordsInv /\ PlacesInv /\ [Next]_vars => PlacesInv'
<1> SUFFICES ASSUME TypeOK, RecordsInv, PlacesInv, [Next]_vars PROVE PlacesInv'
  OBVIOUS
<1> USE DEF Threads, Idle, At, Goto, Return
<1>0. th \in [Threads -> ThreadRecords]
  BY DEF TypeOK, ThreadRecords
<1>a. \A t \in Threads : th[t].pc \in {"firstrecv", "nextrecv", "send", "post"} <=> th[t].ctx # NoCtx
  BY DEF RecordsInv
<1>1. ASSUME NEW t \in Threads, NEW r, Lets(t, r), UNCHANGED ctxVars PROVE PlacesInv'
  BY <1>0, <1>1, PlacesKept, SetsAssumption DEF Lets, ctxVars
<1>2. ASSUME UNCHANGED <<th, ctxVars>> PROVE PlacesInv'
  BY <1>2, PlacesKept DEF ctxVars
<1>3. ASSUME NEW t \in Threads, NEW after, after.ctx = NoCtx, Accept(t, after) PROVE PlacesInv'
  BY <1>1, <1>3 DEF Accept, AcceptPosted, AcceptRefused, AcceptWithout, Lets
<1>4. ASSUME NEW t \in Threads, AcceptGivesUp(t) PROVE PlacesInv'
  <2>1. Lets(t, IF t = Main THEN Idle ELSE At("update", th[t].conn, NoCtx)) /\ UNCHANGED ctxVars
    BY <1>4 DEF AcceptGivesUp, Lets
  <2> QED
    BY <2>1, <1>1
<1>5. ASSUME NEW t \in Threads, NEW c \in Conns, th[t].ctx \in Ctxs, UNCHANGED made,
             \/ \E r \in {Idle, At("accepted", NoConn, NoCtx), At("handled", c, NoCtx)} :
                  Post(t, c, th[t].ctx, r)
             \/ \E pc \in UnrefPcs : PostFails(t, c, th[t].ctx, pc)
      PROVE  PlacesInv'
  <2>1. ASSUME NEW r \in {Idle, At("accepted", NoConn, NoCtx), At("handled", c, NoCtx)},
               Post(t, c, th[t].ctx, r)
        PROVE  PlacesInv'
    <3>1. Lets(t, r) /\ ov' = [ov EXCEPT ![th[t].ctx] = InKernel(c)] /\ UNCHANGED <<made, pool>>
      BY <1>5, <2>1 DEF Post, Lets
    <3> QED
      BY <1>5, <3>1, PlacesPosted
  <2>2. ASSUME NEW pc \in UnrefPcs, PostFails(t, c, th[t].ctx, pc) PROVE PlacesInv'
    <3>1. /\ Lets(t, At(pc, c, NoCtx)) /\ PushContext(th[t].ctx) /\ UNCHANGED <<made, ov>>
      BY <1>5, <2>2 DEF PostFails, Lets
    <3> QED
      BY <1>5, <3>1, PlacesPushed
  <2> QED
    BY <1>5, <2>1, <2>2
<1>6. CASE MainNext
  BY <1>1, <1>2, <1>3, <1>4, <1>6 DEF MainNext, Start, StartAccept, Stop, Lets
<1>7. ASSUME NEW w \in Workers, WorkerNext(w) PROVE PlacesInv'
  <2> w \in Threads
    OBVIOUS
  <2>a. /\ th[w].pc \in {"firstrecv", "nextrecv"} => th[w].ctx \in Ctxs /\ th[w].conn \in Conns
        /\ th[w].pc \in {"idle", "update"} => th[w].ctx = NoCtx
    BY DEF RecordsInv, TypeOK, HandlingPcs
  <2>1. CASE DequeueAccept(w)
    BY <2>1, <1>3 DEF DequeueAccept
  <2>2. CASE DequeueFailedAccept(w)
    BY <2>2, <1>2 DEF DequeueFailedAccept
  <2>3. CASE AcceptGivesUp(w)
    BY <2>3, <1>4
  <2>4. CASE UpdateAccept(w)
    <3>1. ASSUME NEW x \in Poppable(InCtxs), PopContext(x), Goto(w, "firstrecv", th[w].conn, x), ov' = ov
          PROVE  PlacesInv'
      BY <1>0, <3>1, <2>4, <2>a, PlacesPopped DEF UpdateAccept, Ctxs
    <3>2. ASSUME Goto(w, "reject", th[w].conn, NoCtx), UNCHANGED ctxVars PROVE PlacesInv'
      <4>1. Lets(w, At("reject", th[w].conn, NoCtx))
        BY <3>2 DEF Lets
      <4> QED
        BY <3>2, <4>1, <1>1
    <3> QED
      BY <2>4, <3>1, <3>2 DEF UpdateAccept, ctxVars
  <2>5. CASE UpdateAcceptFails(w) \/ RejectConnection(w) \/ FirstUnref(w) \/ EndAccept(w)
             \/ NextUnref(w) \/ EndHandling(w)
    <3>1. /\ UNCHANGED ctxVars
          /\ \/ Lets(w, Idle) \/ Lets(w, At("accepted", NoConn, NoCtx))
             \/ Lets(w, At("handled", th[w].conn, NoCtx))
      BY <2>5 DEF UpdateAcceptFails, RejectConnection, FirstUnref, EndAccept, NextUnref,
                  EndHandling, Lets
    <3> QED
      BY <3>1, <1>1
  <2>6. CASE FirstRecv(w)
    BY <2>6, <2>a, <1>5 DEF FirstRecv, UnrefPcs
  <2>7. CASE NextRecv(w)
    BY <2>7, <2>a, <1>5 DEF NextRecv, UnrefPcs
  <2>8. ASSUME NEW x \in Ctxs, DequeueData(w, x) PROVE PlacesInv'
    BY <2>8, <2>a, PlacesTaken DEF DequeueData
  <2>9. ASSUME NEW x \in Ctxs, DequeueEof(w, x) \/ DequeueSent(w, x) PROVE PlacesInv'
    BY <2>9, <2>a, PlacesReturned DEF DequeueEof, DequeueSent, Lets
  <2>10. ASSUME NEW c \in Conns, DequeueDisconnect(w, c) PROVE PlacesInv'
    BY <2>10, <1>2 DEF DequeueDisconnect
  <2> QED
    BY <1>7, <2>1, <2>2, <2>3, <2>4, <2>5, <2>6, <2>7, <2>8, <2>9, <2>10 DEF WorkerNext
<1>8. CASE AppNext
  <2> App \in Threads
    OBVIOUS
  <2>a. /\ th[App].pc \in {"send", "post"} => th[App].ctx \in Ctxs /\ th[App].conn \in Conns
        /\ th[App].pc = "idle" => th[App].ctx = NoCtx
    BY DEF RecordsInv, TypeOK
  <2>1. CASE AppSendOversize \/ AppSendUnref
    <3>1. Lets(App, Idle) /\ UNCHANGED ctxVars
      BY <2>1 DEF AppSendOversize, AppSendUnref, Lets
    <3> QED
      BY <3>1, <1>1
  <2>2. CASE AppSendOverLimit
    <3>1. /\ Lets(App, Idle) /\ PushContext(th[App].ctx) /\ UNCHANGED <<made, ov>>
          /\ th[App].ctx \in Ctxs
      BY <2>2, <2>a DEF AppSendOverLimit, Lets
    <3> QED
      BY <3>1, PlacesPushed
  <2>3. CASE AppSendPost
    BY <2>3, <2>a, <1>5 DEF AppSendPost, UnrefPcs
  <2>4. ASSUME NEW c \in Conns, AppSend(c) PROVE PlacesInv'
    <3>1. PICK x \in Poppable(OutCtxs) : PopContext(x) /\ Goto(App, "send", c, x)
      BY <2>4 DEF AppSend
    <3> QED
      BY <1>0, <3>1, <2>4, <2>a, PlacesPopped DEF AppSend, Ctxs
  <2>5. ASSUME NEW c \in Conns, AppDisconnect(c) \/ AppClose(c) PROVE PlacesInv'
    BY <2>5, <1>2 DEF AppDisconnect, AppClose
  <2>6. CASE AppSendWithinLimit
    <3>1. \A u \in Threads, x \in Ctxs : th'[u].ctx = x => th[u].ctx = x
      BY <1>0, <2>6 DEF AppSendWithinLimit
    <3> QED
      BY <2>6, <3>1, PlacesKept DEF AppSendWithinLimit, ctxVars
  <2> QED
    BY <1>8, <2>1, <2>2, <2>3, <2>4, <2>5, <2>6 DEF AppNext
<1>9. CASE KernelNext
  <2>1. CASE ConnectionArrives \/ AcceptExFails
    BY <2>1, <1>2 DEF ConnectionArrives, AcceptExFails
  <2>2. ASSUME NEW x \in Ctxs, RequestSucceeds(x) \/ RequestFails(x) PROVE PlacesInv'
    <3>1. ov[x].st = "kernel" /\ UNCHANGED <<made, pool, th>>
          /\ (ov' = [ov EXCEPT ![x].st = "ok"] \/ ov' = [ov EXCEPT ![x].st = "bad"])
      BY <2>2 DEF RequestSucceeds, RequestFails
    <3>2. \A y \in Ctxs : ov'[y].st # "off" <=> ov[y].st # "off"
      <4>1. ov \in [Ctxs -> RequestRecords]
        BY DEF TypeOK, RequestRecords
      <4>2. ov'[x].st # "off" /\ \A y \in Ctxs \ {x} : ov'[y] = ov[y]
        BY <3>1, <4>1 DEF RequestRecords
      <4> QED BY <3>1, <4>2
    <3>3. \A u \in Threads, y \in Ctxs : th'[u].ctx = y => th[u].ctx = y
      BY <3>1
    <3> QED BY <3>1, <3>2, <3>3, PlacesKept
  <2>3. ASSUME NEW c \in Conns, DisconnectCompletes(c) PROVE PlacesInv'
    BY <2>3, <1>2 DEF DisconnectCompletes
  <2> QED
    BY <1>9, <2>1, <2>2, <2>3 DEF KernelNext
<1>10. CASE UNCHANGED vars
  BY <1>10, <1>2 DEF vars
<1> QED
  BY <1>6, <1>7, <1>8, <1>9, <1>10 DEF Next

LEMMA InitPlacesInv == Init => PlacesInv
  BY SetsAssumption DEF Init, PlacesInv, Idle, Off

(* One pool, one request or one thread: the three places add up to one.    *)
LEMMA PlacesExclude == TypeOK /\ PlacesInv => ContextsExclusive
<1> SUFFICES ASSUME TypeOK, PlacesInv, NEW x \in Ctxs
             PROVE  pool[x] + OneIf(ov[x].st # "off") + Cardinality(Holders(x)) <= OneIf(x \in made)
  BY DEF ContextsExclusive
<1>1. pool[x] \in Nat /\ pool[x] <= 1
  BY DEF TypeOK, PlacesInv
<1>2. CASE Holders(x) = {}
  <2>1. Cardinality(Holders(x)) = 0
    BY <1>2, FS_EmptySet
  <2> QED
    BY <1>1, <2>1 DEF PlacesInv, OneIf
<1>3. CASE Holders(x) # {}
  <2>1. PICK t \in Threads : th[t].ctx = x
    BY <1>3 DEF Holders
  <2>2. pool[x] = 0 /\ ov[x].st = "off" /\ x \in made /\ Holders(x) = {t}
    BY <2>1 DEF PlacesInv, Holders
  <2>3. Cardinality(Holders(x)) = 1
    BY <2>2, FS_Singleton
  <2> QED
    BY <2>2, <2>3 DEF OneIf
<1> QED
  BY <1>2, <1>3

(* No context is ever in two places: in a pool twice, pooled and posted,   *)
(* posted twice, or in the hands of a thread and anywhere else.            *)
THEOREM ContextsNeverShared == Spec => []ContextsExclusive
  BY InitTypeOK, InitRecordsInv, InitPlacesInv, NextTypeOK, NextRecordsInv, NextPlacesInv,
     PlacesExclude, PTL DEF Spec

------------------------------------------------------------------------------
(* Reference counts                                                        *)

LEMMA FiniteSets == IsFiniteSet(Threads) /\ IsFiniteSet(Ctxs)
<1>1. IsFiniteSet({App}) /\ IsFiniteSet({Main})
  BY FS_Singleton
<1>2. IsFiniteSet(Workers \cup {App})
  BY <1>1, SetsAssumption, FS_Union
<1>3. IsFiniteSet((Workers \cup {App}) \cup {Main})
  BY <1>1, <1>2, FS_Union
<1>4. Threads = (Workers \cup {App}) \cup {Main}
  BY DEF Threads
<1> QED
  BY <1>3, <1>4, SetsAssumption, FS_Union DEF Ctxs

(* How a set grows or shrinks by one element.                              *)
LEMMA Recount ==
  ASSUME NEW S, NEW T, NEW e, IsFiniteSet(S), T \ {e} = S \ {e}
  PROVE  /\ Cardinality(S) \in Nat /\ Cardinality(T) \in Nat
         /\ Cardinality(T) = Cardinality(S) - OneIf(e \in S) + OneIf(e \in T)
<1> DEFINE R == S \ {e}
<1>1. /\ IsFiniteSet(R) /\ Cardinality(S) \in Nat /\ Cardinality(R) \in Nat
      /\ Cardinality(R) = Cardinality(S) - OneIf(e \in S)
  BY FS_RemoveElement, FS_CardinalityType DEF OneIf
<1>2. CASE e \in T
  <2>1. T = R \cup {e} /\ e \notin R
    BY <1>2
  <2>2. Cardinality(T) = Cardinality(R) + 1
    BY <1>1, <2>1, FS_AddElement
  <2> QED
    BY <1>1, <1>2, <2>2 DEF OneIf
<1>3. CASE e \notin T
  <2>1. T = R
    BY <1>3
  <2> QED
    BY <1>1, <1>3, <2>1 DEF OneIf
<1> QED
  BY <1>2, <1>3

(* The sets that IoRefsExact counts, for the threads f and the requests o, *)
(* and the references that one thread, or one request, stands for.         *)
ThreadsOf(f, pcs, c) == {t \in Threads : f[t].pc \in pcs /\ f[t].conn = c}
RequestsOf(o, c) == {x \in Ctxs : o[x].st # "off" /\ o[x].conn = c}
RefCount(f, o, c) ==
  Cardinality(RequestsOf(o, c)) + Cardinality(ThreadsOf(f, HandlingPcs, c))
    + Cardinality(ThreadsOf(f, UnrefPcs, c))
ThreadRefs(r, c) == IF r.conn = c /\ r.pc \in HandlingPcs \cup UnrefPcs
                    THEN IF r.pc = "nextunref" THEN 2 ELSE 1
                    ELSE 0
RequestRefs(q, c) == IF q.st # "off" /\ q.conn = c THEN 1 ELSE 0

LEMMA RefCounted ==
  /\ IoRefsExact <=> \A c \in Conns : iorefs[c] = RefCount(th, ov, c)
  /\ IoRefsExact' <=> \A c \in Conns : iorefs'[c] = RefCount(th', ov', c)
  BY DEF IoRefsExact, RefCount, InFlight, ThreadsAt, ThreadsOf, RequestsOf

LEMMA ThreadsOfStep ==
  ASSUME NEW f \in [Threads -> ThreadRecords], NEW g \in [Threads -> ThreadRecords],
         NEW t \in Threads, \A u \in Threads \ {t} : g[u] = f[u], NEW pcs, NEW c
  PROVE  /\ Cardinality(ThreadsOf(f, pcs, c)) \in Nat /\ Cardinality(ThreadsOf(g, pcs, c)) \in Nat
         /\ Cardinality(ThreadsOf(g, pcs, c))
              = Cardinality(ThreadsOf(f, pcs, c))
                - (IF f[t].pc \in pcs /\ f[t].conn = c THEN 1 ELSE 0)
                + (IF g[t].pc \in pcs /\ g[t].conn = c THEN 1 ELSE 0)
<1> DEFINE S == ThreadsOf(f, pcs, c)  T == ThreadsOf(g, pcs, c)
<1>1. IsFiniteSet(S)
  BY FiniteSets, FS_Subset DEF ThreadsOf
<1>2. T \ {t} = S \ {t}
  BY DEF ThreadsOf
<1>3. /\ t \in S <=> f[t].pc \in pcs /\ f[t].conn = c
      /\ t \in T <=> g[t].pc \in pcs /\ g[t].conn = c
  BY DEF ThreadsOf
<1> HIDE DEF S, T
<1>4. /\ Cardinality(S) \in Nat /\ Cardinality(T) \in Nat
      /\ Cardinality(T) = Cardinality(S) - OneIf(t \in S) + OneIf(t \in T)
  BY <1>1, <1>2, Recount
<1> QED
  BY <1>3, <1>4 DEF S, T, OneIf

LEMMA RequestsOfStep ==
  ASSUME NEW o \in [Ctxs -> RequestRecords], NEW p \in [Ctxs -> RequestRecords],
         NEW x \in Ctxs, \A y \in Ctxs \ {x} : p[y] = o[y], NEW c
  PROVE  /\ Cardinality(RequestsOf(o, c)) \in Nat /\ Cardinality(RequestsOf(p, c)) \in Nat
         /\ Cardinality(RequestsOf(p, c))
              = Cardinality(RequestsOf(o, c)) - RequestRefs(o[x], c) + RequestRefs(p[x], c)
<1> DEFINE S == RequestsOf(o, c)  T == RequestsOf(p, c)
<1>1. IsFiniteSet(S)
  BY FiniteSets, FS_Subset DEF RequestsOf
<1>2. T \ {x} = S \ {x}
  BY DEF RequestsOf
<1>3. /\ x \in S <=> o[x].st # "off" /\ o[x].conn = c
      /\ x \in T <=> p[x].st # "off" /\ p[x].conn = c
  BY DEF RequestsOf
<1> HIDE DEF S, T
<1>4. /\ Cardinality(S) \in Nat /\ Cardinality(T) \in Nat
      /\ Cardinality(T) = Cardinality(S) - OneIf(x \in S) + OneIf(x \in T)
  BY <1>1, <1>2, Recount
<1> QED
  BY <1>3, <1>4 DEF S, T, OneIf, RequestRefs

(* A thread goes on: the references it stands for go with it.              *)
LEMMA ThreadRefsStep ==
  ASSUME NEW f \in [Threads -> ThreadRecords], NEW g \in [Threads -> ThreadRecords],
         NEW t \in Threads, \A u \in Threads \ {t} : g[u] = f[u], NEW o \in [Ctxs -> RequestRecords], NEW c
  PROVE  /\ RefCount(f, o, c) \in Int
         /\ RefCount(g, o, c) = RefCount(f, o, c) - ThreadRefs(f[t], c) + ThreadRefs(g[t], c)
<1> DEFINE F == Cardinality(RequestsOf(o, c))
           H == Cardinality(ThreadsOf(f, HandlingPcs, c))  HH == Cardinality(ThreadsOf(g, HandlingPcs, c))
           U == Cardinality(ThreadsOf(f, UnrefPcs, c))  UU == Cardinality(ThreadsOf(g, UnrefPcs, c))
<1>1. /\ H \in Nat /\ HH \in Nat
      /\ HH = H - (IF f[t].pc \in HandlingPcs /\ f[t].conn = c THEN 1 ELSE 0)
                + (IF g[t].pc \in HandlingPcs /\ g[t].conn = c THEN 1 ELSE 0)
  BY ThreadsOfStep
<1>2. /\ U \in Nat /\ UU \in Nat
      /\ UU = U - (IF f[t].pc \in UnrefPcs /\ f[t].conn = c THEN 1 ELSE 0)
                + (IF g[t].pc \in UnrefPcs /\ g[t].conn = c THEN 1 ELSE 0)
  BY ThreadsOfStep
<1>3. RefCount(f, o, c) = F + H + U /\ RefCount(g, o, c) = F + HH + UU
  BY DEF RefCount
<1>4. F \in Nat
  BY FiniteSets, FS_Subset, FS_CardinalityType DEF RequestsOf
<1> HIDE DEF F, H, HH, U, UU
<1> QED
  BY <1>1, <1>2, <1>3, <1>4 DEF ThreadRefs, HandlingPcs, UnrefPcs

(* A request is posted, completed or dequeued.                             *)
LEMMA RequestRefsStep ==
  ASSUME NEW f \in [Threads -> ThreadRecords], NEW o \in [Ctxs -> RequestRecords],
         NEW p \in [Ctxs -> RequestRecords],
         NEW x \in Ctxs, \A y \in Ctxs \ {x} : p[y] = o[y], NEW c
  PROVE  RefCount(f, p, c) = RefCount(f, o, c) - RequestRefs(o[x], c) + RequestRefs(p[x], c)
<1> DEFINE F == Cardinality(RequestsOf(o, c))  FF == Cardinality(RequestsOf(p, c))
           N == Cardinality(ThreadsOf(f, HandlingPcs, c)) + Cardinality(ThreadsOf(f, UnrefPcs, c))
<1>1. F \in Nat /\ FF \in Nat /\ FF = F - RequestRefs(o[x], c) + RequestRefs(p[x], c)
  BY RequestsOfStep
<1>2. N \in Nat /\ RefCount(f, o, c) = F + N /\ RefCount(f, p, c) = FF + N
  <2>1. \A pcs : Cardinality(ThreadsOf(f, pcs, c)) \in Nat
    BY FiniteSets, FS_Subset, FS_CardinalityType DEF ThreadsOf
  <2> QED
    BY <1>1, <2>1 DEF RefCount
<1> HIDE DEF F, FF, N
<1> QED
  BY <1>1, <1>2 DEF RequestRefs

LEMMA RefsKept ==
  ASSUME IoRefsExact, ov' = ov, th' = th, iorefs' = iorefs
  PROVE  IoRefsExact'
  BY RefCounted

LEMMA RefsOfThread ==
  ASSUME TypeOK, TypeOK', IoRefsExact, ov' = ov,
         NEW t \in Threads, \A u \in Threads \ {t} : th'[u] = th[u],
         \A c \in Conns : iorefs'[c] = iorefs[c] - ThreadRefs(th[t], c) + ThreadRefs(th'[t], c)
  PROVE  IoRefsExact'
<1>1. /\ th \in [Threads -> ThreadRecords] /\ th' \in [Threads -> ThreadRecords]
      /\ ov \in [Ctxs -> RequestRecords]
  BY DEF TypeOK, ThreadRecords, RequestRecords
<1>2. ASSUME NEW c \in Conns PROVE iorefs'[c] = RefCount(th', ov', c)
  <2>1. RefCount(th', ov, c) = RefCount(th, ov, c) - ThreadRefs(th[t], c) + ThreadRefs(th'[t], c)
    BY <1>1, ThreadRefsStep
  <2>2. iorefs[c] = RefCount(th, ov, c)
    BY RefCounted
  <2> QED
    BY <2>1, <2>2
<1> QED
  BY <1>2, RefCounted

LEMMA RefsOfRequest ==
  ASSUME TypeOK, TypeOK', IoRefsExact,
         NEW t \in Threads, \A u \in Threads \ {t} : th'[u] = th[u],
         NEW x \in Ctxs, \A y \in Ctxs \ {x} : ov'[y] = ov[y],
         \A c \in Conns : iorefs'[c] = iorefs[c] - ThreadRefs(th[t], c) + ThreadRefs(th'[t], c)
                                     - RequestRefs(ov[x], c) + RequestRefs(ov'[x], c)
  PROVE  IoRefsExact'
<1>1. /\ th \in [Threads -> ThreadRecords] /\ th' \in [Threads -> ThreadRecords]
      /\ ov \in [Ctxs -> RequestRecords] /\ ov' \in [Ctxs -> RequestRecords]
  BY DEF TypeOK, ThreadRecords, RequestRecords
<1>2. ASSUME NEW c \in Conns PROVE iorefs'[c] = RefCount(th', ov', c)
  <2>1. /\ RefCount(th, ov, c) \in Int
        /\ RefCount(th', ov, c) = RefCount(th, ov, c) - ThreadRefs(th[t], c) + ThreadRefs(th'[t], c)
    BY <1>1, ThreadRefsStep
  <2>2. RefCount(th', ov', c) = RefCount(th', ov, c) - RequestRefs(ov[x], c) + RequestRefs(ov'[x], c)
    BY <1>1, RequestRefsStep
  <2>3. iorefs[c] = RefCount(th, ov, c)
    BY RefCounted
  <2>4. /\ ThreadRefs(th[t], c) \in Int /\ ThreadRefs(th'[t], c) \in Int
        /\ RequestRefs(ov[x], c) \in Int /\ RequestRefs(ov'[x], c) \in Int
    BY DEF ThreadRefs, RequestRefs
  <2> QED
    BY <2>1, <2>2, <2>3, <2>4
<1> QED
  BY <1>2, RefCounted

(* A thread at one of these points holds no reference of a connection.     *)
Refless(t) == th[t].pc \notin HandlingPcs \cup UnrefPcs

LEMMA NextIoRefsExact ==
  TypeOK /\ RecordsInv /\ PlacesInv /\ IoRefsExact /\ [Next]_vars => IoRefsExact'
<1> SUFFICES ASSUME TypeOK, RecordsInv, PlacesInv, IoRefsExact, [Next]_vars PROVE IoRefsExact'
  OBVIOUS
<1>0. /\ TypeOK' /\ th \in [Threads -> ThreadRecords] /\ iorefs \in [Conns -> Int]
      /\ ov \in [Ctxs -> RequestRecords]
  BY NextTypeOK DEF TypeOK, ThreadRecords, RequestRecords
<1> USE DEF Threads, Goto, Return, At, Idle, ctxVars, connVars
<1>1. ASSUME NEW t \in Threads, Refless(t), NEW r \in ThreadRecords,
             r.pc \notin HandlingPcs \cup UnrefPcs, th' = [th EXCEPT ![t] = r],
             ov' = ov, iorefs' = iorefs
      PROVE  IoRefsExact'
  <2>1. \A c : ThreadRefs(th[t], c) = 0 /\ ThreadRefs(th'[t], c) = 0
    BY <1>0, <1>1 DEF Refless, ThreadRefs
  <2>2. \A u \in Threads \ {t} : th'[u] = th[u]
    BY <1>0, <1>1
  <2> QED
    BY <1>0, <1>1, <2>1, <2>2, RefsOfThread
<1>2. ASSUME NEW t \in Threads, th[t].pc \in UnrefPcs \cup {"handled"}, NEW r,
             Unref(th[t].conn), th' = [th EXCEPT ![t] = r], ov' = ov,
             \/ th[t].pc # "nextunref" /\ r.pc \notin HandlingPcs \cup UnrefPcs
             \/ th[t].pc = "nextunref" /\ r = At("handled", th[t].conn, NoCtx)
      PROVE  IoRefsExact'
  <2>1. \A u \in Threads \ {t} : th'[u] = th[u]
    BY <1>0, <1>2
  <2>2. ASSUME NEW c \in Conns
        PROVE  iorefs'[c] = iorefs[c] - ThreadRefs(th[t], c) + ThreadRefs(th'[t], c)
    BY <1>0, <1>2 DEF Unref, ThreadRefs, HandlingPcs, UnrefPcs
  <2> QED
    BY <1>0, <1>2, <2>1, <2>2, RefsOfThread
<1>3. ASSUME NEW t \in Threads, th[t].ctx \in Ctxs, NEW r,
             Post(t, th[t].conn, th[t].ctx, r),
             \/ Refless(t) /\ r.pc \notin HandlingPcs \cup UnrefPcs
             \/ th[t].pc = "nextrecv" /\ r = At("handled", th[t].conn, NoCtx)
      PROVE  IoRefsExact'
  <2>1. \A u \in Threads \ {t} : th'[u] = th[u]
    BY <1>0, <1>3 DEF Post
  <2>2. ov[th[t].ctx].st = "off" /\ \A y \in Ctxs \ {th[t].ctx} : ov'[y] = ov[y]
    BY <1>0, <1>3 DEF Post, PlacesInv
  <2>3. ASSUME NEW c \in Conns
        PROVE  /\ ThreadRefs(th[t], c) \in Int /\ ThreadRefs(th'[t], c) = ThreadRefs(th[t], c)
               /\ iorefs'[c] = iorefs[c] - RequestRefs(ov[th[t].ctx], c) + RequestRefs(ov'[th[t].ctx], c)
    <3>1. ThreadRefs(th[t], c) \in Int /\ ThreadRefs(th'[t], c) = ThreadRefs(th[t], c)
      BY <1>0, <1>3 DEF Post, Refless, ThreadRefs, HandlingPcs, UnrefPcs
    <3>2. iorefs'[c] = iorefs[c] - RequestRefs(ov[th[t].ctx], c) + RequestRefs(ov'[th[t].ctx], c)
      BY <1>0, <1>3, <2>2 DEF Post, RequestRefs, InKernel
    <3> QED
      BY <3>1, <3>2
  <2>4. \A c \in Conns : iorefs[c] \in Int /\ RequestRefs(ov[th[t].ctx], c) \in Int
                        /\ RequestRefs(ov'[th[t].ctx], c) \in Int
    BY <1>0 DEF RequestRefs
  <2>5. \A c \in Conns : iorefs'[c] = iorefs[c] - ThreadRefs(th[t], c) + ThreadRefs(th'[t], c)
                            - RequestRefs(ov[th[t].ctx], c) + RequestRefs(ov'[th[t].ctx], c)
    BY <2>3, <2>4
  <2> QED
    BY <1>0, <1>3, <2>1, <2>2, <2>5, RefsOfRequest
<1>4. ASSUME NEW t \in Threads, NEW pc \in UnrefPcs,
             PostFails(t, th[t].conn, th[t].ctx, pc),
             \/ Refless(t) /\ pc # "nextunref"
             \/ th[t].pc = "nextrecv" /\ pc = "nextunref"
      PROVE  IoRefsExact'
  <2>1. \A u \in Threads \ {t} : th'[u] = th[u]
    BY <1>0, <1>4 DEF PostFails
  <2>2. ASSUME NEW c \in Conns
        PROVE  iorefs'[c] = iorefs[c] - ThreadRefs(th[t], c) + ThreadRefs(th'[t], c)
    BY <1>0, <1>4 DEF PostFails, Refless, ThreadRefs, HandlingPcs, UnrefPcs
  <2> QED
    BY <1>0, <1>4, <2>1, <2>2, RefsOfThread DEF PostFails
<1>5. ASSUME NEW t \in Threads, NEW after \in ThreadRecords, Refless(t),
             after.pc \notin HandlingPcs \cup UnrefPcs, Accept(t, after)
      PROVE  IoRefsExact'
  <2>1. /\ At("refused", after.conn, NoCtx) \in ThreadRecords
        /\ At("refused", after.conn, NoCtx).pc \notin HandlingPcs \cup UnrefPcs
    BY DEF ThreadRecords, Pcs, HandlingPcs, UnrefPcs
  <2> QED
    BY <1>1, <1>5, <2>1 DEF Accept, AcceptPosted, AcceptRefused, AcceptWithout
<1>6. ASSUME NEW t \in Threads, AcceptGivesUp(t) PROVE IoRefsExact'
  <2>1. /\ Refless(t)
        /\ \E r \in {Idle, At("update", th[t].conn, NoCtx)} : th' = [th EXCEPT ![t] = r]
    BY <1>6 DEF AcceptGivesUp, Refless, HandlingPcs, UnrefPcs
  <2>2. \A r \in {Idle, At("update", th[t].conn, NoCtx)} :
          r \in ThreadRecords /\ r.pc \notin HandlingPcs \cup UnrefPcs
    BY <1>0 DEF ThreadRecords, Pcs, MaybeConn, HandlingPcs, UnrefPcs
  <2> QED
    BY <1>1, <1>6, <2>1, <2>2 DEF AcceptGivesUp
<1>7. CASE MainNext
  <2>1. CASE Start
    <3>1. /\ Refless(Main) /\ At("starting", NoConn, NoCtx) \in ThreadRecords
          /\ At("starting", NoConn, NoCtx).pc \notin HandlingPcs \cup UnrefPcs
      BY <2>1 DEF Start, Refless, ThreadRecords, Pcs, MaybeConn, HandlingPcs, UnrefPcs
    <3> QED
      BY <1>1, <2>1, <3>1 DEF Start
  <2>2. CASE StartAccept
    BY <1>5, <2>2, ActionRecords DEF StartAccept, Refless, HandlingPcs, UnrefPcs
  <2>3. CASE Stop
    BY <2>3, RefsKept DEF Stop
  <2> QED
    BY <1>6, <1>7, <2>1, <2>2, <2>3 DEF MainNext
<1>8. ASSUME NEW w \in Workers, WorkerNext(w) PROVE IoRefsExact'
  <2> w \in Threads
    OBVIOUS
  <2> USE DEF Refless, HandlingPcs, UnrefPcs
  <2>a. th[w].pc \in {"firstrecv", "nextrecv"} => th[w].ctx \in Ctxs
    BY <1>0 DEF RecordsInv, ThreadRecords
  <2>1. CASE DequeueAccept(w)
    <3>1. At("update", acc.conn, NoCtx) \in ThreadRecords
      BY ActionRecords DEF TypeOK, Pcs
    <3> QED
      BY <1>5, <2>1, <3>1 DEF DequeueAccept
  <2>2. CASE DequeueFailedAccept(w)
    BY <2>2, RefsKept DEF DequeueFailedAccept
  <2>3. CASE AcceptGivesUp(w)
    BY <2>3, <1>6
  <2>4. CASE UpdateAccept(w)
    <3>1. /\ th[w].conn \in MaybeConn /\ At("reject", th[w].conn, NoCtx) \in ThreadRecords
          /\ \A x \in Ctxs : At("firstrecv", th[w].conn, x) \in ThreadRecords
      BY <1>0, ActionRecords DEF ThreadRecords, Pcs
    <3>2. ASSUME NEW r \in ThreadRecords, r.pc \in {"firstrecv", "reject"}, th' = [th EXCEPT ![w] = r]
          PROVE  IoRefsExact'
      BY <1>1, <2>4, <3>2 DEF UpdateAccept
    <3>3. ASSUME NEW x \in Ctxs, Goto(w, "firstrecv", th[w].conn, x) PROVE IoRefsExact'
      BY <3>1, <3>2, <3>3
    <3>4. ASSUME Goto(w, "reject", th[w].conn, NoCtx) PROVE IoRefsExact'
      BY <3>1, <3>2, <3>4
    <3> QED
      BY <2>4, <3>3, <3>4 DEF UpdateAccept, Poppable, Ctxs
  <2>5. CASE UpdateAcceptFails(w) \/ RejectConnection(w) \/ EndAccept(w)
    <3>1. /\ Idle \in ThreadRecords /\ At("accepted", NoConn, NoCtx) \in ThreadRecords
          /\ Idle.pc \notin HandlingPcs \cup UnrefPcs
          /\ At("accepted", NoConn, NoCtx).pc \notin HandlingPcs \cup UnrefPcs
      BY ActionRecords DEF Pcs, MaybeConn
    <3>2. /\ Refless(w) /\ ov' = ov /\ iorefs' = iorefs
          /\ \E r \in {Idle, At("accepted", NoConn, NoCtx)} : th' = [th EXCEPT ![w] = r]
      BY <2>5 DEF UpdateAcceptFails, RejectConnection, EndAccept
    <3> QED
      BY <1>1, <3>1, <3>2
  <2>6. CASE FirstRecv(w)
    <3>1. Refless(w) /\ th[w].ctx \in Ctxs /\ At("accepted", NoConn, NoCtx).pc \notin HandlingPcs \cup UnrefPcs
      BY <2>a, <2>6 DEF FirstRecv
    <3> HIDE DEF Refless
    <3>2. CASE Post(w, th[w].conn, th[w].ctx, At("accepted", NoConn, NoCtx))
      BY <1>3, <3>1, <3>2
    <3>3. ASSUME NEW pc \in UnrefPcs, pc # "nextunref", PostFails(w, th[w].conn, th[w].ctx, pc)
          PROVE  IoRefsExact'
      <4> HIDE DEF UnrefPcs, HandlingPcs
      <4> QED
        BY <1>4, <3>1, <3>3
    <3> QED
      BY <2>6, <3>2, <3>3 DEF FirstRecv
  <2>7. CASE FirstUnref(w) \/ EndHandling(w)
    <3>1. /\ th[w].pc \in {"firstunref", "handled"} /\ Unref(th[w].conn) /\ ov' = ov
          /\ \E r \in {Idle, At("accepted", NoConn, NoCtx)} : th' = [th EXCEPT ![w] = r]
      BY <2>7 DEF FirstUnref, EndHandling
    <3> QED
      BY <1>2, <3>1
  <2>8. CASE NextRecv(w)
    BY <1>3, <1>4, <2>8, <2>a DEF NextRecv
  <2>9. CASE NextUnref(w)
    <3>1. /\ th[w].pc = "nextunref" /\ Unref(th[w].conn) /\ ov' = ov
          /\ th' = [th EXCEPT ![w] = At("handled", th[w].conn, NoCtx)]
      BY <2>9 DEF NextUnref
    <3> QED
      BY <1>2, <3>1
  <2>10. ASSUME NEW x \in Ctxs, DequeueRequest(w, x) PROVE IoRefsExact'
    <3>1. /\ th'[w].pc \in {"nextrecv", "handled"} /\ th'[w].conn = ov[x].conn
          /\ \A u \in Threads \ {w} : th'[u] = th[u]
      <4>1. CASE DequeueData(w, x)
        BY <1>0, <4>1 DEF DequeueData
      <4>2. CASE DequeueEof(w, x)
        BY <1>0, <4>2 DEF DequeueEof
      <4>3. CASE DequeueSent(w, x)
        BY <1>0, <4>3 DEF DequeueSent
      <4> QED
        BY <2>10, <4>1, <4>2, <4>3 DEF DequeueRequest
    <3>2. /\ ov' = [ov EXCEPT ![x] = Off] /\ ov[x].st # "off" /\ iorefs' = iorefs
          /\ th[w].pc = "idle"
      BY <2>10 DEF DequeueRequest, DequeueData, DequeueEof, DequeueSent
    <3>3. \A y \in Ctxs \ {x} : ov'[y] = ov[y]
      BY <1>0, <3>2
    <3>4. ASSUME NEW c \in Conns
          PROVE  iorefs'[c] = iorefs[c] - ThreadRefs(th[w], c) + ThreadRefs(th'[w], c)
                                - RequestRefs(ov[x], c) + RequestRefs(ov'[x], c)
      <4>1. ThreadRefs(th[w], c) = 0 /\ ThreadRefs(th'[w], c) = IF ov[x].conn = c THEN 1 ELSE 0
        BY <1>0, <3>1, <3>2 DEF ThreadRefs
      <4>2. /\ RequestRefs(ov[x], c) = IF ov[x].conn = c THEN 1 ELSE 0
            /\ RequestRefs(ov'[x], c) = 0
        BY <1>0, <3>2 DEF RequestRefs, Off
      <4>3. iorefs[c] \in Int /\ iorefs'[c] = iorefs[c]
        BY <1>0, <3>2
      <4> QED
        BY <4>1, <4>2, <4>3
    <3> QED
      BY <1>0, <3>1, <3>3, <3>4, RefsOfRequest
  <2>11. ASSUME NEW c \in Conns, DequeueDisconnect(w, c) PROVE IoRefsExact'
    BY <2>11, RefsKept DEF DequeueDisconnect
  <2> QED
    BY <1>8, <2>1, <2>2, <2>3, <2>4, <2>5, <2>6, <2>7, <2>8, <2>9, <2>10, <2>11
       DEF WorkerNext, DequeueRequest
<1>9. CASE AppNext
  <2> App \in Threads
    OBVIOUS
  <2> USE DEF Refless, HandlingPcs, UnrefPcs
  <2>a. th[App].pc \in {"send", "post"} => th[App].ctx \in Ctxs
    BY <1>0 DEF RecordsInv, ThreadRecords
  <2>1. CASE AppSendOversize \/ AppSendOverLimit
    <3>1. /\ Refless(App) /\ th' = [th EXCEPT ![App] = Idle] /\ ov' = ov /\ iorefs' = iorefs
      BY <2>1 DEF AppSendOversize, AppSendOverLimit
    <3> QED
      BY <1>1, <3>1, ActionRecords
  <2>2. CASE AppSendPost
    <3>1. Refless(App) /\ th[App].ctx \in Ctxs /\ Idle.pc \notin HandlingPcs \cup UnrefPcs
      BY <2>a, <2>2 DEF AppSendPost
    <3> HIDE DEF Refless
    <3>2. CASE Post(App, th[App].conn, th[App].ctx, Idle)
      BY <1>3, <3>1, <3>2
    <3>3. ASSUME NEW pc \in UnrefPcs, pc # "nextunref", PostFails(App, th[App].conn, th[App].ctx, pc)
          PROVE  IoRefsExact'
      <4> HIDE DEF UnrefPcs, HandlingPcs
      <4> QED
        BY <1>4, <3>1, <3>3
    <3> QED
      BY <2>2, <3>2, <3>3 DEF AppSendPost
  <2>3. CASE AppSendUnref
    <3>1. /\ th[App].pc = "sendunref" /\ Unref(th[App].conn) /\ ov' = ov
          /\ th' = [th EXCEPT ![App] = Idle]
      BY <2>3 DEF AppSendUnref
    <3> QED
      BY <1>2, <3>1
  <2>4. ASSUME NEW c \in Conns, AppSend(c) PROVE IoRefsExact'
    <3>1. PICK x \in Ctxs : th' = [th EXCEPT ![App] = At("send", c, x)]
      BY <2>4 DEF AppSend, Poppable, Ctxs
    <3>2. At("send", c, x) \in ThreadRecords
      BY ActionRecords DEF Pcs, MaybeConn
    <3>3. Refless(App) /\ ov' = ov /\ iorefs' = iorefs
      BY <2>4 DEF AppSend
    <3> HIDE DEF Refless
    <3> QED
      BY <1>1, <3>1, <3>2, <3>3
  <2>5. ASSUME NEW c \in Conns, AppDisconnect(c) \/ AppClose(c) PROVE IoRefsExact'
    BY <2>5, RefsKept DEF AppDisconnect, AppClose
  <2>6. CASE AppSendWithinLimit
    <3>1. /\ th' = [th EXCEPT ![App] = At("post", th[App].conn, th[App].ctx)]
          /\ Refless(App) /\ ov' = ov /\ iorefs' = iorefs
      BY <2>6 DEF AppSendWithinLimit
    <3>2. At("post", th[App].conn, th[App].ctx) \in ThreadRecords
      BY <1>0 DEF ThreadRecords, Pcs
    <3> HIDE DEF Refless
    <3> QED
      BY <1>1, <3>1, <3>2
  <2> QED
    BY <1>9, <2>1, <2>2, <2>3, <2>4, <2>5, <2>6 DEF AppNext
<1>10. CASE KernelNext
  <2>1. CASE ConnectionArrives \/ AcceptExFails
    BY <2>1, RefsKept DEF ConnectionArrives, AcceptExFails
  <2>2. ASSUME NEW x \in Ctxs, RequestSucceeds(x) \/ RequestFails(x) PROVE IoRefsExact'
    <3>1. /\ th' = th /\ iorefs' = iorefs /\ \A y \in Ctxs \ {x} : ov'[y] = ov[y]
          /\ ov[x].st # "off" /\ ov'[x].st # "off" /\ ov'[x].conn = ov[x].conn
      BY <1>0, <2>2 DEF RequestSucceeds, RequestFails, RequestRecords
    <3>2. ASSUME NEW c \in Conns
          PROVE  iorefs'[c] = iorefs[c] - ThreadRefs(th[App], c) + ThreadRefs(th'[App], c)
                                - RequestRefs(ov[x], c) + RequestRefs(ov'[x], c)
      BY <1>0, <3>1 DEF ThreadRefs, RequestRefs
    <3> QED
      BY <1>0, <3>1, <3>2, RefsOfRequest
  <2>3. ASSUME NEW c \in Conns, DisconnectCompletes(c) PROVE IoRefsExact'
    BY <2>3, RefsKept DEF DisconnectCompletes
  <2> QED
    BY <1>10, <2>1, <2>2, <2>3 DEF KernelNext
<1>11. CASE UNCHANGED vars
  BY <1>11, RefsKept DEF vars
<1> QED
  BY <1>7, <1>8, <1>9, <1>10, <1>11 DEF Next

LEMMA InitIoRefsExact == Init => IoRefsExact
<1> SUFFICES ASSUME Init, NEW c \in Conns
             PROVE  /\ iorefs[c] = 0 /\ InFlight(c) = {}
                    /\ ThreadsAt(HandlingPcs, c) = {} /\ ThreadsAt(UnrefPcs, c) = {}
  BY FS_EmptySet DEF IoRefsExact
<1> QED
  BY DEF Init, InFlight, ThreadsAt, HandlingPcs, UnrefPcs, Off, Idle

(* iorefs_ counts exactly what still needs the connection, with any number *)
(* of workers completing, refusing and posting at the same time, so that   *)
(* the worker that finds it zero may report the connection lost.           *)
THEOREM ReferencesCounted == Spec => []IoRefsExact
  BY InitTypeOK, InitRecordsInv, InitPlacesInv, InitIoRefsExact,
     NextTypeOK, NextRecordsInv, NextPlacesInv, NextIoRefsExact, PTL DEF Spec

------------------------------------------------------------------------------
(* Contexts: none that was allocated is forgotten                          *)

(* An allocated context is pooled, in a request, or held by a thread.      *)
Kept(x) == pool[x] = 1 \/ ov[x].st # "off" \/ \E t \in Threads : th[t].ctx = x
KeptInv == \A x \in Ctxs : x \in made => Kept(x)

LEMMA KeptConserves ==
  ASSUME TypeOK, PlacesInv, KeptInv
  PROVE  ContextsConserved
<1> SUFFICES ASSUME NEW x \in Ctxs
             PROVE  pool[x] + OneIf(ov[x].st # "off") + Cardinality(Holders(x)) = OneIf(x \in made)
  BY DEF ContextsConserved
<1>1. pool[x] \in Nat /\ pool[x] <= 1 /\ (pool[x] = 1 => ov[x].st = "off" /\ x \in made)
  BY DEF TypeOK, PlacesInv
<1>2. CASE Holders(x) = {}
  <2>1. Cardinality(Holders(x)) = 0 /\ \A t \in Threads : th[t].ctx # x
    BY <1>2, FS_EmptySet DEF Holders
  <2>2. ov[x].st # "off" => x \in made /\ pool[x] # 1
    BY DEF PlacesInv
  <2>3. x \in made => pool[x] = 1 \/ ov[x].st # "off"
    BY <2>1 DEF KeptInv, Kept
  <2> QED BY <1>1, <2>1, <2>2, <2>3 DEF OneIf
<1>3. ASSUME NEW t \in Threads, th[t].ctx = x
      PROVE  pool[x] + OneIf(ov[x].st # "off") + Cardinality(Holders(x)) = OneIf(x \in made)
  <2>1. pool[x] = 0 /\ ov[x].st = "off" /\ x \in made /\ Holders(x) = {t}
    BY <1>3 DEF PlacesInv, Holders
  <2>2. Cardinality(Holders(x)) = 1
    BY <2>1, FS_Singleton
  <2> QED BY <2>1, <2>2 DEF OneIf
<1> QED BY <1>2, <1>3 DEF Holders

(* A step that takes no context from a thread or a request.                *)
LEMMA KeptStep ==
  ASSUME TypeOK, PlacesInv, KeptInv, UNCHANGED <<made, pool>>,
         \A x \in Ctxs : ov[x].st # "off" => ov'[x].st # "off",
         \A u \in Threads, x \in Ctxs : th[u].ctx = x => th'[u].ctx = x
  PROVE  KeptInv'
  BY DEF KeptInv, Kept

LEMMA KeptPopped ==
  ASSUME TypeOK, PlacesInv, KeptInv, NEW x \in Ctxs, PopContext(x), ov' = ov,
         NEW t \in Threads, th[t].ctx = NoCtx, NEW r, r.ctx = x, th' = [th EXCEPT ![t] = r]
  PROVE  KeptInv'
<1>1. th'[t] = r /\ \A u \in Threads \ {t} : th'[u] = th[u]
  BY DEF TypeOK
<1>2. made' = made \cup {x} /\ \A y \in Ctxs \ {x} : pool'[y] = pool[y]
  BY DEF PopContext, TypeOK
<1> QED BY <1>1, <1>2, SetsAssumption DEF KeptInv, Kept

(* The context of a thread, or of a request, goes back to its pool.        *)
LEMMA KeptPushed ==
  ASSUME TypeOK, PlacesInv, KeptInv, NEW x \in Ctxs, PushContext(x), made' = made,
         pool[x] = 0,
         \A y \in Ctxs \ {x} : ov'[y] = ov[y],
         \A u \in Threads, y \in Ctxs \ {x} : th[u].ctx = y => th'[u].ctx = y
  PROVE  KeptInv'
<1>1. pool'[x] = 1 /\ \A y \in Ctxs \ {x} : pool'[y] = pool[y]
  BY DEF PushContext, TypeOK
<1> QED BY <1>1 DEF KeptInv, Kept

LEMMA NextKeptInv ==
  ASSUME TypeOK, RecordsInv, PlacesInv, KeptInv, "Oversize" \notin Faults, [Next]_vars
  PROVE  KeptInv'
<1> USE SetsAssumption DEF Goto, Return, At, Idle, ctxVars
<1>0. /\ th \in [Threads -> ThreadRecords] /\ ov \in [Ctxs -> RequestRecords] /\ pool \in [Ctxs -> Nat]
      /\ App \in Threads /\ Main \in Threads /\ \A w \in Workers : w \in Threads
  BY DEF TypeOK, ThreadRecords, RequestRecords, Threads
<1>c. \A t \in Threads : th[t].ctx \in Ctxs \/ th[t].ctx = NoCtx
  BY <1>0 DEF ThreadRecords
<1>p. \A t \in Threads : th[t].pc \notin {"firstrecv", "nextrecv", "send", "post"} => th[t].ctx = NoCtx
  BY DEF RecordsInv
<1>1. ASSUME NEW t \in Threads, NEW r, th[t].ctx = NoCtx, th' = [th EXCEPT ![t] = r], UNCHANGED ctxVars
      PROVE  KeptInv'
  BY <1>0, <1>1, KeptStep
<1>2. ASSUME th' = th, made' = made, pool' = pool, \A x \in Ctxs : ov[x].st # "off" => ov'[x].st # "off"
      PROVE  KeptInv'
  BY <1>2, KeptStep
<1>3. ASSUME NEW t \in Threads, NEW r, th[t].ctx \in Ctxs, Post(t, th[t].conn, th[t].ctx, r), made' = made
      PROVE  KeptInv'
  <2>1. /\ ov'[th[t].ctx].st = "kernel" /\ pool' = pool /\ \A u \in Threads \ {t} : th'[u] = th[u]
        /\ \A y \in Ctxs \ {th[t].ctx} : ov'[y] = ov[y]
    BY <1>0, <1>3 DEF Post, InKernel
  <2> QED BY <1>3, <2>1 DEF KeptInv, Kept
<1>4. ASSUME NEW t \in Threads, th[t].ctx \in Ctxs, NEW r, th' = [th EXCEPT ![t] = r],
             PushContext(th[t].ctx), UNCHANGED <<made, ov>>
      PROVE  KeptInv'
  <2>1. pool[th[t].ctx] = 0 /\ \A u \in Threads \ {t} : th'[u] = th[u]
    BY <1>0, <1>4 DEF PlacesInv
  <2> QED BY <1>4, <2>1, KeptPushed
<1>5. ASSUME NEW t \in Threads, NEW c, NEW pc, th[t].ctx \in Ctxs, made' = made,
             PostFails(t, c, th[t].ctx, pc)
      PROVE  KeptInv'
  BY <1>4, <1>5 DEF PostFails
<1>6. ASSUME NEW t \in Threads, NEW r, Accept(t, r), th[t].ctx = NoCtx PROVE KeptInv'
  BY <1>1, <1>6 DEF Accept, AcceptPosted, AcceptRefused, AcceptWithout
<1>7. ASSUME NEW t \in Threads, AcceptGivesUp(t) PROVE KeptInv'
  BY <1>1, <1>p, <1>7 DEF AcceptGivesUp
<1>8. CASE MainNext
  BY <1>0, <1>1, <1>2, <1>6, <1>7, <1>p, <1>8 DEF MainNext, Start, StartAccept, Stop
<1>9. ASSUME NEW w \in Workers, WorkerNext(w) PROVE KeptInv'
  <2>1. CASE DequeueAccept(w) \/ DequeueFailedAccept(w) \/ AcceptGivesUp(w)
    BY <1>0, <1>2, <1>6, <1>7, <1>p, <2>1 DEF DequeueAccept, DequeueFailedAccept
  <2>2. CASE UpdateAccept(w)
    <3>1. ASSUME NEW x \in Poppable(InCtxs), PopContext(x), Goto(w, "firstrecv", th[w].conn, x)
          PROVE  KeptInv'
      BY <1>0, <1>p, <2>2, <3>1, KeptPopped DEF UpdateAccept, Poppable, Ctxs
    <3>2. CASE Goto(w, "reject", th[w].conn, NoCtx) /\ UNCHANGED <<made, pool>>
      BY <1>0, <1>1, <1>p, <2>2, <3>2 DEF UpdateAccept
    <3> QED BY <2>2, <3>1, <3>2 DEF UpdateAccept
  <2>3. CASE \/ UpdateAcceptFails(w) \/ RejectConnection(w) \/ FirstUnref(w) \/ EndAccept(w)
             \/ NextUnref(w) \/ EndHandling(w)
    BY <1>0, <1>1, <1>p, <2>3
       DEF UpdateAcceptFails, RejectConnection, FirstUnref, EndAccept, NextUnref, EndHandling
  <2>4. CASE FirstRecv(w) \/ NextRecv(w)
    <3>1. th[w].ctx \in Ctxs
      BY <1>0, <1>c, <2>4 DEF FirstRecv, NextRecv, RecordsInv
    <3> QED BY <1>0, <1>3, <1>5, <2>4, <3>1 DEF FirstRecv, NextRecv
  <2>5. ASSUME NEW x \in Ctxs, DequeueData(w, x) \/ DequeueEof(w, x) \/ DequeueSent(w, x) PROVE KeptInv'
    <3>1. /\ th[w].ctx = NoCtx /\ \A u \in Threads \ {w} : th'[u] = th[u]
          /\ ov[x].st # "off" /\ made' = made /\ \A y \in Ctxs \ {x} : ov'[y] = ov[y]
      BY <1>0, <1>p, <2>5 DEF DequeueData, DequeueEof, DequeueSent
    <3>2. pool[x] = 0
      BY <1>0, <3>1 DEF PlacesInv
    <3>3. CASE DequeueData(w, x)
      <4>1. th'[w].ctx = x /\ pool' = pool
        BY <1>0, <3>3 DEF DequeueData
      <4> QED BY <1>0, <3>1, <4>1 DEF KeptInv, Kept
    <3>4. CASE PushContext(x)
      BY <1>0, <3>1, <3>2, <3>4, KeptPushed
    <3> QED BY <2>5, <3>3, <3>4 DEF DequeueEof, DequeueSent
  <2>6. ASSUME NEW c \in Conns, DequeueDisconnect(w, c) PROVE KeptInv'
    BY <1>2, <2>6 DEF DequeueDisconnect
  <2> QED BY <1>9, <2>1, <2>2, <2>3, <2>4, <2>5, <2>6 DEF WorkerNext
<1>10. CASE AppNext
  <2>a. th[App].pc \in {"send", "post"} => th[App].ctx \in Ctxs
    BY <1>0, <1>c DEF RecordsInv
  <2>1. ~AppSendOversize
    BY DEF AppSendOversize
  <2>2. CASE AppSendOverLimit
    BY <1>0, <1>4, <2>2, <2>a DEF AppSendOverLimit
  <2>3. CASE AppSendWithinLimit
    <3>1. UNCHANGED ctxVars /\ \A u \in Threads : th'[u].ctx = th[u].ctx
      BY <1>0, <2>3 DEF AppSendWithinLimit
    <3> QED BY <3>1, KeptStep
  <2>4. CASE AppSendPost
    BY <1>0, <1>3, <1>5, <2>4, <2>a DEF AppSendPost
  <2>5. CASE AppSendUnref
    BY <1>0, <1>1, <1>p, <2>5 DEF AppSendUnref
  <2>6. ASSUME NEW c \in Conns, AppSend(c) PROVE KeptInv'
    <3>1. PICK x \in Ctxs : PopContext(x) /\ Goto(App, "send", c, x)
      BY <2>6 DEF AppSend, Poppable, Ctxs
    <3> QED BY <1>0, <1>p, <2>6, <3>1, KeptPopped DEF AppSend
  <2>7. ASSUME NEW c \in Conns, AppDisconnect(c) \/ AppClose(c) PROVE KeptInv'
    BY <1>2, <2>7 DEF AppDisconnect, AppClose
  <2> QED BY <1>10, <2>1, <2>2, <2>3, <2>4, <2>5, <2>6, <2>7 DEF AppNext
<1>11. CASE KernelNext \/ UNCHANGED vars
  <2>1. ASSUME NEW x \in Ctxs, RequestSucceeds(x) \/ RequestFails(x) PROVE KeptInv'
    BY <1>0, <1>2, <2>1 DEF RequestSucceeds, RequestFails, RequestRecords
  <2> QED BY <1>2, <1>11, <2>1 DEF KernelNext, ConnectionArrives, AcceptExFails, DisconnectCompletes, vars
<1> QED BY <1>8, <1>9, <1>10, <1>11 DEF Next

(* As long as no send is oversized, every context that was allocated is in *)
(* its pool, in a request or in the hands of a thread, whatever else fails *)
(* (AsyncSend and AsyncRecv give it back on every other error path).       *)
THEOREM ContextsNeverLost == "Oversize" \notin Faults => (Spec => []ContextsConserved)
<1>1. Init => KeptInv
  BY DEF Init, KeptInv
<1>2. ASSUME "Oversize" \notin Faults PROVE Spec => []ContextsConserved
  <2>1. TypeOK /\ RecordsInv /\ PlacesInv /\ KeptInv /\ [Next]_vars => KeptInv'
    BY <1>2, NextKeptInv
  <2>2. TypeOK /\ PlacesInv /\ KeptInv => ContextsConserved
    BY KeptConserves
  <2> QED
    BY <1>1, <2>1, <2>2, InitTypeOK, InitRecordsInv, InitPlacesInv, NextTypeOK, NextRecordsInv,
       NextPlacesInv, PTL DEF Spec
<1> QED BY <1>2

------------------------------------------------------------------------------
(* Accepts                                                                 *)

(* What AccIorefsExact counts: for the accept q and the threads f, and for *)
(* a thread t with the record r.                                           *)
Refused(f) == {t \in Threads : f[t].pc = "refused"}
Accepting(f) == {w \in Workers : f[w].pc \in AcceptPcs \cup {"refused"}}
Posted(q) == OneIf(q.st # "off")
AccCount(q, f) == Posted(q) + Cardinality(Refused(f)) + Cardinality(Accepting(f))
AccWeight(t, r) == OneIf(r.pc = "refused") + OneIf(t \in Workers /\ r.pc \in AcceptPcs \cup {"refused"})

(* The count is never too low, even when failed accepts are not counted    *)
(* down; and while a refused accept is cleaned up none is posted.          *)
AccInv ==
  /\ accIorefs >= AccCount(acc, th)
  /\ Refused(th) # {} => acc.st = "off"

LEMMA AccCountType ==
  \A q, f : AccCount(q, f) \in Nat /\ (AccCount(q, f) = 0 => q.st = "off" /\ Refused(f) = {})
<1> TAKE q, f
<1>1. IsFiniteSet(Refused(f)) /\ IsFiniteSet(Accepting(f))
  BY FiniteSets, FS_Subset, SetsAssumption DEF Refused, Accepting
<1>2. /\ Cardinality(Refused(f)) \in Nat /\ Cardinality(Accepting(f)) \in Nat
      /\ Cardinality(Refused(f)) = 0 => Refused(f) = {}
  BY <1>1, FS_CardinalityType, FS_EmptySet
<1>3. Posted(q) \in Nat /\ (Posted(q) = 0 => q.st = "off")
  BY DEF Posted, OneIf
<1> QED BY <1>2, <1>3 DEF AccCount

LEMMA AccCountStep ==
  ASSUME NEW t \in Threads, \A u \in Threads \ {t} : th'[u] = th[u]
  PROVE  AccCount(acc', th') = AccCount(acc, th) - Posted(acc) + Posted(acc')
                                 - AccWeight(t, th[t]) + AccWeight(t, th'[t])
<1> DEFINE R == Refused(th)  RR == Refused(th')  A == Accepting(th)  AA == Accepting(th')
<1>1. IsFiniteSet(R) /\ IsFiniteSet(A)
  BY FiniteSets, FS_Subset, SetsAssumption DEF Refused, Accepting
<1>2. RR \ {t} = R \ {t} /\ AA \ {t} = A \ {t}
  BY DEF Refused, Accepting, Threads
<1>3. /\ t \in R <=> th[t].pc = "refused"
      /\ t \in RR <=> th'[t].pc = "refused"
      /\ t \in A <=> t \in Workers /\ th[t].pc \in AcceptPcs \cup {"refused"}
      /\ t \in AA <=> t \in Workers /\ th'[t].pc \in AcceptPcs \cup {"refused"}
  BY DEF Refused, Accepting
<1>4. /\ AccCount(acc, th) = Posted(acc) + Cardinality(R) + Cardinality(A)
      /\ AccCount(acc', th') = Posted(acc') + Cardinality(RR) + Cardinality(AA)
  BY DEF AccCount
<1>5. /\ AccWeight(t, th[t]) = OneIf(t \in R) + OneIf(t \in A)
      /\ AccWeight(t, th'[t]) = OneIf(t \in RR) + OneIf(t \in AA)
  BY <1>3 DEF AccWeight
<1> HIDE DEF R, RR, A, AA
<1>6. /\ Cardinality(R) \in Nat /\ Cardinality(RR) \in Nat
      /\ Cardinality(RR) = Cardinality(R) - OneIf(t \in R) + OneIf(t \in RR)
  BY <1>1, <1>2, Recount
<1>7. /\ Cardinality(A) \in Nat /\ Cardinality(AA) \in Nat
      /\ Cardinality(AA) = Cardinality(A) - OneIf(t \in A) + OneIf(t \in AA)
  BY <1>1, <1>2, Recount
<1>8. Posted(acc) \in 0 .. 1 /\ Posted(acc') \in 0 .. 1
  BY DEF Posted, OneIf
<1>9. OneIf(t \in R) \in 0 .. 1 /\ OneIf(t \in RR) \in 0 .. 1 /\ OneIf(t \in A) \in 0 .. 1 /\ OneIf(t \in AA) \in 0 .. 1
  BY DEF OneIf
<1> QED BY <1>4, <1>5, <1>6, <1>7, <1>8, <1>9

(* What every step but the dropping of a failed accept does: the counter   *)
(* and what it counts change by the same number, no accept becomes bad     *)
(* but by a fault, and the acceptor goes on listening.                     *)
AccStep ==
  /\ accIorefs' - AccCount(acc', th') = accIorefs - AccCount(acc, th)
  /\ Refused(th') # {} => acc'.st = "off"
  /\ "AcceptDone" \notin Faults /\ acc.st # "bad" => acc'.st # "bad"
  /\ Listening => Listening'

LEMMA NextAccStep ==
  ASSUME TypeOK, RecordsInv, AccInv, [Next]_vars, \A w \in Workers : ~DequeueFailedAccept(w)
  PROVE  AccStep
<1> USE SetsAssumption DEF Goto, Return, At, Idle
<1>0. /\ th \in [Threads -> ThreadRecords] /\ acc \in RequestRecords /\ accIorefs \in Int /\ running \in {0, 1}
      /\ App \in Threads /\ Main \in Threads /\ \A w \in Workers : w \in Threads
  BY DEF TypeOK, ThreadRecords, RequestRecords, Threads
<1>w. ASSUME NEW t, NEW r PROVE AccWeight(t, r) \in 0 .. 2
  BY DEF AccWeight, OneIf
(* Thread t goes on with what it does of an accept, or of anything else.   *)
<1>1. ASSUME NEW t \in Threads, NEW r, th' = [th EXCEPT ![t] = r], UNCHANGED <<acc, accIorefs, running>>,
             th[t].pc \notin {"refused", "starting"}, r.pc # "refused",
             t \in Workers => (th[t].pc \in AcceptPcs <=> r.pc \in AcceptPcs)
      PROVE  AccStep
  <2>1. th'[t] = r /\ \A u \in Threads \ {t} : th'[u] = th[u]
    BY <1>0, <1>1
  <2>2. AccWeight(t, th[t]) = AccWeight(t, r)
    BY <1>1 DEF AccWeight
  <2>3. AccCount(acc', th') = AccCount(acc, th)
    <3>1. AccCount(acc', th') = AccCount(acc, th) - Posted(acc) + Posted(acc)
                                  - AccWeight(t, th[t]) + AccWeight(t, th[t])
      BY <1>1, <2>1, <2>2, AccCountStep
    <3>2. Posted(acc) \in 0 .. 1
      BY DEF Posted, OneIf
    <3> QED BY <3>1, <3>2, <1>w, AccCountType
  <2>4. Refused(th') = Refused(th)
    BY <1>1, <2>1 DEF Refused
  <2>5. Listening => Listening'
    BY <1>0, <1>1, <2>1 DEF Listening
  <2> QED BY <1>0, <1>1, <2>3, <2>4, <2>5 DEF AccStep, AccInv
<1>2. ASSUME th' = th, accIorefs' = accIorefs, running' \in {0, running},
             acc'.st = "off" <=> acc.st = "off",
             "AcceptDone" \notin Faults /\ acc.st # "bad" => acc'.st # "bad"
      PROVE  AccStep
  <2>1. AccCount(acc', th') = AccCount(acc, th)
    BY <1>2 DEF AccCount, Posted
  <2> QED BY <1>2, <2>1 DEF AccStep, AccInv, Listening
(* Accept(), by the main thread when nothing is counted, or by a worker    *)
(* that has taken an arrived connection.                                   *)
<1>3. ASSUME NEW t \in Threads, NEW r, Accept(t, r),
             \/ t = Main /\ r.pc = "idle" /\ th[t].pc = "starting" /\ accIorefs = 0
             \/ t \in Workers /\ r.pc = "update" /\ th[t].pc = "idle" /\ acc.st = "ok"
      PROVE  AccStep
  <2>1. acc.st \in {"off", "ok"} /\ Refused(th) = {} /\ (t = Main => acc.st = "off") /\ (t # Main => acc.st = "ok")
    <3>1. CASE t = Main
      <4>1. AccCount(acc, th) = 0
        BY <1>3, <3>1, AccCountType DEF AccInv
      <4> QED BY <3>1, <4>1, AccCountType
    <3>2. CASE t # Main
      BY <1>3, <3>2 DEF AccInv
    <3> QED BY <3>1, <3>2
  <2>2. PICK q : th' = [th EXCEPT ![t] = q] /\ q.pc \in {r.pc, "refused"}
    BY <1>3 DEF Accept, AcceptPosted, AcceptRefused, AcceptWithout
  <2>3. th'[t] = q /\ \A u \in Threads \ {t} : th'[u] = th[u]
    BY <1>0, <2>2
  <2>4. \/ acc'.st = "kernel" /\ accIorefs' = accIorefs + 1 /\ q.pc = r.pc /\ running' = running
        \/ acc'.st = "off" /\ accIorefs' = accIorefs + 1 /\ q.pc = "refused" /\ running' = running
        \/ acc'.st = "off" /\ accIorefs' = accIorefs /\ q.pc = r.pc /\ running' = 0
    BY <1>0, <1>3, <2>3
       DEF Accept, AcceptPosted, AcceptRefused, AcceptWithout, TakeConnection, InKernel, Off
  <2>5. AccCount(acc', th') = AccCount(acc, th) - Posted(acc) + Posted(acc')
                                - AccWeight(t, th[t]) + AccWeight(t, q)
    BY <2>3, AccCountStep
  <2>6. accIorefs' - accIorefs = Posted(acc') - Posted(acc)
                                  - AccWeight(t, th[t]) + AccWeight(t, q)
    <3>1. CASE t = Main
      BY <1>0, <1>3, <2>1, <2>4, <3>1 DEF AccWeight, OneIf, Posted, AcceptPcs
    <3>2. CASE t # Main
      BY <1>0, <1>3, <2>1, <2>4, <3>2 DEF AccWeight, OneIf, Posted, AcceptPcs
    <3> QED BY <3>1, <3>2
  <2>7. accIorefs' - AccCount(acc', th') = accIorefs - AccCount(acc, th)
    <3>1. accIorefs' \in Int /\ accIorefs \in Int /\ AccCount(acc, th) \in Int
      BY <1>0, <2>4, AccCountType
    <3>2. Posted(acc) \in 0 .. 1 /\ Posted(acc') \in 0 .. 1
      BY DEF Posted, OneIf
    <3> QED BY <2>5, <2>6, <3>1, <3>2, <1>w
  <2>8. Refused(th') # {} => acc'.st = "off"
    <3>1. \A u \in Threads : th'[u].pc = "refused" => u = t
      BY <2>1, <2>3 DEF Refused
    <3> QED BY <1>3, <2>3, <2>4, <3>1 DEF Refused
  <2>9. Listening'
    BY <1>0, <2>3, <2>4 DEF Listening
  <2> QED BY <2>4, <2>7, <2>8, <2>9 DEF AccStep
<1>4. ASSUME NEW t \in Threads, t \in Workers \cup {Main}, AcceptGivesUp(t) PROVE AccStep
  <2>1. t \in Refused(th) /\ acc.st = "off" /\ th[t].pc = "refused"
    BY <1>4 DEF AcceptGivesUp, Refused, AccInv
  <2>2. PICK q : th' = [th EXCEPT ![t] = q] /\ q.pc = IF t = Main THEN "idle" ELSE "update"
    <3>1. CASE t = Main
      <4>1. th' = [th EXCEPT ![t] = Idle] /\ Idle.pc = "idle"
        BY <1>4, <3>1 DEF AcceptGivesUp
      <4> HIDE DEF Idle
      <4> QED BY <3>1, <4>1
    <3>2. CASE t # Main
      <4> DEFINE r == At("update", th[t].conn, NoCtx)
      <4>1. th' = [th EXCEPT ![t] = r] /\ r.pc = "update"
        BY <1>4, <3>2 DEF AcceptGivesUp
      <4> HIDE DEF r
      <4> QED BY <3>2, <4>1
    <3> QED BY <3>1, <3>2
  <2>3. /\ th'[t] = q /\ acc'.st = "off" /\ accIorefs' = accIorefs - 1 /\ running' = 0
        /\ \A u \in Threads \ {t} : th'[u] = th[u]
    BY <1>0, <1>4, <2>2 DEF AcceptGivesUp, Off
  <2>4. AccCount(acc', th') = AccCount(acc, th) - Posted(acc) + Posted(acc')
                                - AccWeight(t, th[t]) + AccWeight(t, q)
    BY <2>3, AccCountStep
  <2>5. AccWeight(t, q) = AccWeight(t, th[t]) - 1
    BY <1>4, <2>1, <2>2 DEF AccWeight, OneIf, AcceptPcs
  <2>6. AccCount(acc', th') = AccCount(acc, th) - 1
    BY <2>1, <2>3, <2>4, <2>5, <1>w, AccCountType DEF Posted, OneIf
  <2> QED BY <1>0, <2>3, <2>6, AccCountType DEF AccStep, Listening
<1>5. CASE MainNext
  <2>1. CASE Start
    <3>1. /\ th'[Main].pc = "starting" /\ UNCHANGED <<acc, accIorefs>> /\ th[Main].pc = "idle"
          /\ \A u \in Threads \ {Main} : th'[u] = th[u]
      BY <1>0, <2>1 DEF Start
    <3>2. AccWeight(Main, th[Main]) = 0 /\ AccWeight(Main, th'[Main]) = 0
      BY <3>1 DEF AccWeight, OneIf
    <3>3. AccCount(acc', th') = AccCount(acc, th)
      <4>1. AccCount(acc', th') = AccCount(acc, th) - Posted(acc) + Posted(acc) - 0 + 0
        BY <1>0, <3>1, <3>2, AccCountStep
      <4> QED BY <4>1, AccCountType DEF Posted, OneIf
    <3>4. Refused(th') = Refused(th)
      BY <3>1 DEF Refused
    <3> QED BY <1>0, <3>1, <3>3, <3>4 DEF AccStep, AccInv, Listening
  <2>2. CASE StartAccept
    BY <1>0, <1>3, <2>2 DEF StartAccept
  <2>3. CASE Stop
    BY <1>2, <2>3 DEF Stop
  <2> QED BY <1>0, <1>4, <1>5, <2>1, <2>2, <2>3 DEF MainNext
<1>6. ASSUME NEW w \in Workers, WorkerNext(w) PROVE AccStep
  <2>1. CASE DequeueAccept(w) \/ AcceptGivesUp(w)
    BY <1>0, <1>3, <1>4, <2>1 DEF DequeueAccept
  <2>2. CASE UpdateAccept(w) \/ UpdateAcceptFails(w) \/ RejectConnection(w) \/ FirstUnref(w)
    BY <1>0, <1>1, <2>2 DEF UpdateAccept, UpdateAcceptFails, RejectConnection, FirstUnref,
                            accVars, AcceptPcs
  <2>3. CASE FirstRecv(w) \/ NextRecv(w)
    BY <1>0, <1>1, <2>3 DEF FirstRecv, NextRecv, Post, PostFails, accVars, AcceptPcs
  <2>4. CASE NextUnref(w) \/ EndHandling(w)
    BY <1>0, <1>1, <2>4 DEF NextUnref, EndHandling, accVars, AcceptPcs
  <2>5. ASSUME NEW x \in Ctxs, DequeueData(w, x) \/ DequeueEof(w, x) \/ DequeueSent(w, x) PROVE AccStep
    BY <1>0, <1>1, <2>5 DEF DequeueData, DequeueEof, DequeueSent, accVars, AcceptPcs
  <2>6. ASSUME NEW c \in Conns, DequeueDisconnect(w, c) PROVE AccStep
    BY <1>2, <2>6 DEF DequeueDisconnect, accVars
  <2>7. CASE EndAccept(w)
    <3>1. /\ th[w].pc = "accepted" /\ th'[w].pc = "idle" /\ acc' = acc /\ running' = running
          /\ accIorefs' = accIorefs - 1 /\ \A u \in Threads \ {w} : th'[u] = th[u]
      BY <1>0, <2>7 DEF EndAccept
    <3>2. AccWeight(w, th[w]) = 1 /\ AccWeight(w, th'[w]) = 0
      BY <3>1 DEF AccWeight, OneIf, AcceptPcs
    <3>3. AccCount(acc', th') = AccCount(acc, th) - 1
      <4>1. AccCount(acc', th') = AccCount(acc, th) - Posted(acc) + Posted(acc) - 1 + 0
        BY <1>0, <3>1, <3>2, AccCountStep
      <4> QED BY <4>1, AccCountType DEF Posted, OneIf
    <3>4. Refused(th') = Refused(th)
      BY <3>1 DEF Refused
    <3>5. Listening => Listening'
      BY <1>0, <3>1 DEF Listening
    <3> QED BY <1>0, <3>1, <3>3, <3>4, <3>5, AccCountType DEF AccStep, AccInv
  <2> QED BY <1>6, <2>1, <2>2, <2>3, <2>4, <2>5, <2>6, <2>7 DEF WorkerNext
<1>7. CASE AppNext
  <2>0. App \notin Workers
    OBVIOUS
  <2>1. CASE AppSendOversize \/ AppSendOverLimit \/ AppSendWithinLimit \/ AppSendUnref
    BY <1>0, <1>1, <2>1
       DEF AppSendOversize, AppSendOverLimit, AppSendWithinLimit, AppSendUnref, accVars
  <2>2. CASE AppSendPost
    <3>1. PICK r : th' = [th EXCEPT ![App] = r] /\ r.pc \in {"idle", "sendunref"}
      <4> DEFINE r == At("sendunref", th[App].conn, NoCtx)
      <4>1. /\ r.pc = "sendunref" /\ Idle.pc = "idle"
            /\ th' = [th EXCEPT ![App] = Idle] \/ th' = [th EXCEPT ![App] = r]
        BY <2>2 DEF AppSendPost, Post, PostFails
      <4> HIDE DEF Idle, r
      <4> QED BY <4>1
    <3>2. UNCHANGED <<acc, accIorefs, running>> /\ th[App].pc = "post"
      BY <2>2 DEF AppSendPost, accVars
    <3> QED BY <1>0, <1>1, <3>1, <3>2
  <2>3. ASSUME NEW c \in Conns, AppSend(c) PROVE AccStep
    BY <1>0, <1>1, <2>3 DEF AppSend, accVars
  <2>4. ASSUME NEW c \in Conns, AppDisconnect(c) \/ AppClose(c) PROVE AccStep
    BY <1>2, <2>4 DEF AppDisconnect, AppClose, accVars
  <2> QED BY <1>7, <2>1, <2>2, <2>3, <2>4 DEF AppNext
<1>8. CASE KernelNext \/ UNCHANGED vars
  <2>1. CASE ConnectionArrives
    BY <1>0, <1>2, <2>1 DEF ConnectionArrives, ctxVars, RequestRecords
  <2>2. CASE AcceptExFails
    BY <1>0, <1>2, <2>2 DEF AcceptExFails, ctxVars, RequestRecords
  <2> QED
    BY <1>2, <1>8, <2>1, <2>2
       DEF KernelNext, RequestSucceeds, RequestFails, DisconnectCompletes, vars, accVars, ctxVars
<1> QED BY <1>5, <1>6, <1>7, <1>8 DEF Next

LEMMA NextAccInv == TypeOK /\ RecordsInv /\ AccInv /\ [Next]_vars => AccInv'
<1> SUFFICES ASSUME TypeOK, RecordsInv, AccInv, [Next]_vars PROVE AccInv'
  OBVIOUS
<1>0. accIorefs \in Int /\ accIorefs' \in Int
  BY NextTypeOK DEF TypeOK
<1>1. CASE \A w \in Workers : ~DequeueFailedAccept(w)
  <2>1. AccStep
    BY <1>1, NextAccStep
  <2>2. /\ accIorefs' - AccCount(acc', th') = accIorefs - AccCount(acc, th)
        /\ Refused(th') # {} => acc'.st = "off"
    BY <2>1 DEF AccStep
  <2>3. accIorefs' >= AccCount(acc', th')
    BY <1>0, <2>2, AccCountType DEF AccInv
  <2> QED BY <2>2, <2>3 DEF AccInv, AccCount, Refused, Accepting, Posted
<1>2. ASSUME NEW w \in Workers, DequeueFailedAccept(w) PROVE AccInv'
  <2>1. acc'.st = "off" /\ accIorefs' = accIorefs /\ th' = th
    BY <1>2 DEF DequeueFailedAccept, Off
  <2>2. w \in Threads /\ Posted(acc') = 0 /\ Posted(acc) \in 0 .. 1
    BY <2>1 DEF Posted, OneIf, Threads
  <2>3. AccCount(acc', th') <= AccCount(acc, th)
    <3>1. AccCount(acc', th') = AccCount(acc, th) - Posted(acc) + Posted(acc')
                                  - AccWeight(w, th[w]) + AccWeight(w, th[w])
      BY <2>1, <2>2, AccCountStep
    <3>2. AccWeight(w, th[w]) \in 0 .. 2
      BY DEF AccWeight, OneIf
    <3> QED BY <2>2, <3>1, <3>2, AccCountType
  <2>4. accIorefs' >= AccCount(acc', th')
    BY <1>0, <2>1, <2>3, AccCountType DEF AccInv
  <2> QED BY <2>1, <2>4 DEF AccInv, AccCount, Refused, Accepting, Posted
<1> QED BY <1>1, <1>2

LEMMA InitAccInv == Init => AccInv /\ accIorefs = AccCount(acc, th) /\ acc.st # "bad" /\ Listening
<1> SUFFICES ASSUME Init PROVE AccInv /\ accIorefs = AccCount(acc, th) /\ acc.st # "bad" /\ Listening
  OBVIOUS
<1>1. Refused(th) = {} /\ Accepting(th) = {} /\ Posted(acc) = 0 /\ accIorefs = 0
  BY DEF Init, Refused, Accepting, Posted, OneIf, AcceptPcs, Idle, Off, Threads
<1>2. AccCount(acc, th) = 0
  BY <1>1, FS_EmptySet DEF AccCount
<1>3. acc.st # "bad" /\ Listening
  BY DEF Init, Off, Listening
<1> QED BY <1>1, <1>2, <1>3 DEF AccInv

(* As long as no posted accept fails, iorefs_ of the acceptor counts the   *)
(* accepts exactly, so that Start() never waits for one that is forgotten, *)
(* and while running_ is set an accept is posted or about to be, also when *)
(* AcceptEx fails at once and whatever happens to the connections.         *)
THEOREM AcceptsNeverLost == "AcceptDone" \notin Faults => (Spec => []AcceptorSound)
<1> DEFINE Exact == AccInv /\ accIorefs = AccCount(acc, th) /\ acc.st # "bad" /\ Listening
<1>1. ASSUME "AcceptDone" \notin Faults, TypeOK, RecordsInv, Exact, [Next]_vars PROVE Exact'
  <2>1. \A w \in Workers : ~DequeueFailedAccept(w)
    BY <1>1 DEF DequeueFailedAccept
  <2>2. AccStep
    BY <1>1, <2>1, NextAccStep
  <2>3. /\ accIorefs' - AccCount(acc', th') = accIorefs - AccCount(acc, th)
        /\ acc'.st # "bad" /\ Listening'
    BY <1>1, <2>2 DEF AccStep
  <2>4. accIorefs \in Int /\ accIorefs' \in Int
    BY <1>1, NextTypeOK DEF TypeOK
  <2>5. accIorefs' = AccCount(acc', th')
    BY <1>1, <2>3, <2>4, AccCountType
  <2> QED BY <1>1, <2>3, <2>5, NextAccInv DEF AccCount, Refused, Accepting, Posted
<1>2. Exact => AcceptorSound
  BY DEF AcceptorSound, AccIorefsExact, AccCount, Refused, Accepting, Posted
<1>3. Init => Exact
  BY InitAccInv
<1> HIDE DEF Exact
<1>4. ASSUME "AcceptDone" \notin Faults PROVE Spec => []AcceptorSound
  <2>1. TypeOK /\ RecordsInv /\ Exact /\ [Next]_vars => Exact'
    BY <1>1, <1>4
  <2> QED
    BY <1>2, <1>3, <2>1, InitTypeOK, InitRecordsInv, NextTypeOK, NextRecordsInv, PTL DEF Spec
<1> QED BY <1>4
==============================================================================
