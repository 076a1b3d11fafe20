--------------------------- MODULE HandlerProtocol ---------------------------
(***************************************************************************)
(* What the network library promises the application that installs an      *)
(* EasyHandler (network/src/easy_handler.h): for every connection,         *)
(* OnConnection comes first (or, for a Connect that fails, OnConnectFailed *)
(* alone), OnData only while the connection is open,                       *)
(* OnDisconnect exactly once, and only a connection whose OnDisconnect was *)
(* reported is given back with EasyConnection::Close, after which the same *)
(* ConnID may be announced again.                                          *)
(***************************************************************************)
CONSTANT Conns      \* the EasyConnection objects, whose addresses are the ConnIDs

VARIABLE phase      \* what the application has been told of each connection

Phases == {"idle",      \* not announced
           "rejected",  \* OnConnection returned false
           "open",      \* OnConnection returned true
           "talking",   \* and OnData was called at least once
           "lost",      \* OnDisconnect was called
           "failed"}    \* OnConnectFailed was called instead of OnConnection

Init == phase = [c \in Conns |-> "idle"]

Tell(c, from, to) ==
  /\ phase[c] \in from
  /\ phase' = [phase EXCEPT ![c] = to]

OnConnection(c) == \E answer \in {"open", "rejected"} : Tell(c, {"idle"}, answer)

OnConnectFailed(c) == Tell(c, {"idle"}, "failed")

OnData(c) == Tell(c, {"open", "talking"}, "talking")

OnDisconnect(c) == Tell(c, {"open", "talking", "rejected"}, "lost")

Close(c) == Tell(c, {"lost"}, "idle")

Next ==
  \E c \in Conns :
    OnConnection(c) \/ OnConnectFailed(c) \/ OnData(c) \/ OnDisconnect(c) \/ Close(c)

Spec == Init /\ [][Next]_phase
==============================================================================
