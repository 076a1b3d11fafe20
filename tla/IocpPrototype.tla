----------------------------- MODULE IocpPrototype -----------------------------
(***************************************************************************)
(* The WIN32 half of EasyNetwork, the predecessor of network/src: an       *)
(* acceptor whose only context carries AcceptEx, connections made for each *)
(* AcceptEx, each with the context of its DisconnectEx and one for its     *)
(* receives, and worker threads at a completion port.                      *)
(*                                                                         *)
(* Nothing calls AsyncSend or ConnectEx; their completions are left out.   *)
(***************************************************************************)
EXTENDS Naturals, FiniteSets

CONSTANTS
  Conns, NoConn,  \* connections that can be made; none
  Workers,        \* worker threads
  Caller,         \* the thread that starts and stops the acceptor
  Faults,         \* what may fail: "AcceptEx", "recv", "DisconnectEx" and the "update" of an
                  \* accepted socket are refused, an "accept" fails
  Calls           \* "Stop", "Destroy", "Restart": what the caller does after Start

PrototypeAssumption ==
  /\ NoConn \notin Conns /\ Caller \notin Workers
  /\ Faults \subseteq {"AcceptEx", "accept", "update", "recv", "DisconnectEx"}
  /\ Calls \subseteq {"Stop", "Destroy", "Restart"}

VARIABLES
  running_, starts,   \* of the acceptor; history: how often Start was called
  freed,              \* the acceptor has been destroyed
  context_,           \* the connection in the acceptor's context
  object,             \* each connection: "none", "live" or "deleted"
  accepting,          \* its AcceptEx: "none", "kernel", or completed: "ok" or "failed"
  recv,               \* its receive: "none", "kernel", or completed: "data" or "end"
  disconnect,         \* its DisconnectEx: "none", "kernel", "done"
  refused,            \* history: connections whose update or DisconnectEx was refused
  th                  \* each thread: what it does next, and for which connection

acceptorVars == <<running_, starts, freed, context_>>
vars == <<acceptorVars, object, accepting, recv, disconnect, refused, th>>

Threads == Workers \cup {Caller}
Idle == [pc |-> "idle", conn |-> NoConn]

Init ==
  /\ running_ = 0 /\ starts = 0 /\ freed = FALSE /\ context_ = NoConn
  /\ object = [c \in Conns |-> "none"]
  /\ accepting = object /\ recv = object /\ disconnect = object /\ refused = {}
  /\ th = [t \in Threads |-> Idle]

Goto(t, pc, c) == th' = [th EXCEPT ![t] = [pc |-> pc, conn |-> c]]

-----------------------------------------------------------------------------
(* The kernel. *)

Connect(c) ==
  /\ accepting[c] = "kernel" /\ ~freed
  /\ accepting' = [accepting EXCEPT ![c] = "ok"]
  /\ UNCHANGED <<acceptorVars, object, recv, disconnect, refused, th>>

\* A client gone before it was accepted, or the listening socket closed.
AcceptFails(c) ==
  /\ accepting[c] = "kernel" /\ ("accept" \in Faults \/ freed)
  /\ accepting' = [accepting EXCEPT ![c] = "failed"]
  /\ UNCHANGED <<acceptorVars, object, recv, disconnect, refused, th>>

Arrive(c, what) ==
  /\ recv[c] = "kernel"
  /\ recv' = [recv EXCEPT ![c] = what]
  /\ UNCHANGED <<acceptorVars, object, accepting, disconnect, refused, th>>

-----------------------------------------------------------------------------
(* Operations of connection and acceptor. *)

\* A refusal is printed, and nothing is tried again.
AsyncDisconnect(c) ==
  \/ disconnect' = [disconnect EXCEPT ![c] = "kernel"] /\ UNCHANGED refused
  \/ /\ "DisconnectEx" \in Faults
     /\ refused' = refused \cup {c} /\ UNCHANGED disconnect

Receives(c) == recv' = [recv EXCEPT ![c] = "kernel"] /\ UNCHANGED <<disconnect, refused>>

\* Mutant: a receive that is refused is not told.
AsyncRecvQuiet(c) ==
  \/ Receives(c)
  \/ /\ "recv" \in Faults
     /\ recv' = [recv EXCEPT ![c] = "none"] /\ UNCHANGED <<disconnect, refused>>

\* With a context just made, or the one that completed; refused, it is freed.
AsyncRecv(c) ==
  \/ Receives(c)
  \/ /\ "recv" \in Faults
     /\ recv' = [recv EXCEPT ![c] = "none"] /\ AsyncDisconnect(c)

\* EasyConnection::Create, with a socket at the completion port and a context for
\* DisconnectEx; and Close.
Create(c) == object' = [object EXCEPT ![c] = "live"]
Close(c) == object' = [object EXCEPT ![c] = "deleted"]

\* Accept: for a new connection, whether or not the acceptor is running.
Accept ==
  \E c \in Conns :
    /\ object[c] = "none" /\ context_' = c
    /\ \/ /\ Create(c)
          /\ accepting' = [accepting EXCEPT ![c] = "kernel"]
          /\ UNCHANGED running_
       \/ /\ "AcceptEx" \in Faults
          /\ Close(c) /\ running_' = 0
          /\ UNCHANGED accepting

-----------------------------------------------------------------------------
(* The caller. *)

Start ==
  /\ th[Caller] = Idle /\ ~freed
  /\ starts = 0 \/ ("Restart" \in Calls /\ starts = 1)
  /\ starts' = starts + 1
  /\ IF running_ = 0 THEN running_' = 1 /\ Goto(Caller, "accept", NoConn)
                     ELSE UNCHANGED <<running_, th>>
  /\ UNCHANGED <<freed, context_, object, accepting, recv, disconnect, refused>>

CallerAccept ==
  /\ th[Caller].pc = "accept"
  /\ Accept
  /\ Goto(Caller, "idle", NoConn)
  /\ UNCHANGED <<starts, freed, recv, disconnect, refused>>

Stop ==
  /\ "Stop" \in Calls /\ th[Caller] = Idle /\ starts > 0 /\ ~freed
  /\ running_' = 0
  /\ UNCHANGED <<starts, freed, context_, object, accepting, recv, disconnect, refused, th>>

\* Stop, closesocket, and the memory is freed, with its context.
DestroyAcceptor ==
  /\ "Destroy" \in Calls /\ th[Caller] = Idle /\ starts > 0 /\ ~freed
  /\ freed' = TRUE /\ running_' = 0
  /\ UNCHANGED <<starts, context_, object, accepting, recv, disconnect, refused, th>>

-----------------------------------------------------------------------------
(* WorkerThread.  The connection of an AcceptEx is the one the context holds now; what a *)
(* thread does with the memory of a destroyed acceptor is undefined and not followed.    *)

AcceptCompleted(t, c) ==
  /\ th[t] = Idle /\ accepting[c] \in {"ok", "failed"} /\ ~freed
  /\ accepting' = [accepting EXCEPT ![c] = "none"]
  /\ IF accepting[c] = "ok" THEN Goto(t, "accept", context_) ELSE UNCHANGED th
  /\ UNCHANGED <<acceptorVars, object, recv, disconnect, refused>>

AcceptNext(t) ==
  /\ th[t].pc = "accept" /\ ~freed
  /\ Accept
  /\ Goto(t, "recv", th[t].conn)
  /\ UNCHANGED <<starts, freed, recv, disconnect, refused>>

\* SO_UPDATE_ACCEPT_CONTEXT; if it fails, nothing is done with the connection.
FirstRecv(t) ==
  /\ th[t].pc = "recv"
  /\ \/ AsyncRecv(th[t].conn)
     \/ /\ "update" \in Faults
        /\ refused' = refused \cup {th[t].conn} /\ UNCHANGED <<recv, disconnect>>
  /\ Goto(t, "idle", NoConn)
  /\ UNCHANGED <<acceptorVars, object, accepting>>

\* A receive of nothing, or one that failed, is the end: the context is freed.
RecvCompleted(t, c) ==
  /\ th[t] = Idle /\ recv[c] \in {"data", "end"}
  /\ IF recv[c] = "data" THEN AsyncRecv(c)
                         ELSE recv' = [recv EXCEPT ![c] = "none"] /\ AsyncDisconnect(c)
  /\ UNCHANGED <<acceptorVars, object, accepting, th>>

\* Its completion does nothing: the connection stays.
DisconnectCompleted(t, c) ==
  /\ th[t] = Idle /\ disconnect[c] = "kernel"
  /\ disconnect' = [disconnect EXCEPT ![c] = "done"]
  /\ UNCHANGED <<acceptorVars, object, accepting, recv, refused, th>>

Worker(t) ==
  \/ AcceptNext(t) \/ FirstRecv(t)
  \/ \E c \in Conns : AcceptCompleted(t, c) \/ RecvCompleted(t, c) \/ DisconnectCompleted(t, c)

Next ==
  \/ Start \/ CallerAccept \/ Stop \/ DestroyAcceptor
  \/ \E t \in Workers : Worker(t)
  \/ \E c \in Conns : Connect(c) \/ AcceptFails(c) \/ (\E w \in {"data", "end"} : Arrive(c, w))

Spec == Init /\ [][Next]_vars

\* The worker threads are scheduled.
FairSpec == Spec /\ \A t \in Workers : WF_vars(Worker(t))

-----------------------------------------------------------------------------
\* Types; no operation is pending of a connection that is not there.
TypeOK ==
  /\ running_ \in {0, 1} /\ starts \in 0 .. 2 /\ freed \in BOOLEAN
  /\ context_ \in Conns \cup {NoConn}
  /\ object \in [Conns -> {"none", "live", "deleted"}]
  /\ accepting \in [Conns -> {"none", "kernel", "ok", "failed"}]
  /\ recv \in [Conns -> {"none", "kernel", "data", "end"}]
  /\ disconnect \in [Conns -> {"none", "kernel", "done"}] /\ refused \subseteq Conns
  /\ th \in [Threads -> [pc : {"idle", "accept", "recv"}, conn : Conns \cup {NoConn}]]
  /\ \A c \in Conns : object[c] # "live" =>
       accepting[c] = "none" /\ recv[c] = "none" /\ disconnect[c] = "none"

\* Something is done for a connection until it has been disconnected.
IsAttended(c) ==
  object[c] = "live" =>
    \/ accepting[c] # "none" \/ recv[c] # "none" \/ disconnect[c] # "none"
    \/ \E t \in Threads : th[t].conn = c

\* No connection is forgotten but one whose update or DisconnectEx was refused
\* (easy_connection.cpp:67-72, easy_worker.cpp:134-147).
Attended == \A c \in Conns \ refused : IsAttended(c)

\* No connection is forgotten: nothing is done about an update or a DisconnectEx that was
\* refused (easy_worker.cpp:93, easy_connection.cpp:22).
AllAttended == \A c \in Conns : IsAttended(c)

\* "post another accept request" (easy_worker.cpp:89): a running acceptor has an AcceptEx
\* posted, or a thread about to post one.
Listening ==
  running_ = 1 => \/ \E c \in Conns : accepting[c] \in {"kernel", "ok"}
                  \/ \E t \in Threads : th[t].pc = "accept"

\* "stop receiving connection" (easy_acceptor.h:19): a stopped acceptor posts no AcceptEx.
StopStops ==
  [][running_ = 0 /\ starts' = starts =>
       \A c \in Conns : accepting'[c] = "kernel" => accepting[c] = "kernel"]_vars

\* "stop and destroy the acceptor, close all connection" (easy_acceptor.h:14).
AllClosed == freed => \A c \in Conns : object[c] # "live"
=============================================================================
