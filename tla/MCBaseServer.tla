---------------------------- MODULE MCBaseServer ----------------------------
(***************************************************************************)
(* The server frame in three setups, of which Init chooses one: two        *)
(* clients, under the constants of the .cfg; one client, and an            *)
(* application that disconnects sessions; one client, perhaps before       *)
(* Initialize has returned, memory that may be short, and an application   *)
(* that sends and shuts the server down.                                   *)
(***************************************************************************)
EXTENDS BaseServer

CONSTANT c1      \* the one client

VARIABLE setup

Disconnecting == INSTANCE BaseServer WITH AppCommands <- {"DISCONNECT"}

Closing ==
  INSTANCE BaseServer WITH AppCommands <- {"SENDDATA", "SHUTDOWN"}, Faults <- {"Alloc"},
                           EarlyClients <- TRUE

Alone == \A c \in Conns \ {c1} : phase'[c] = "idle"

MCInit == Init /\ setup \in {"serving", "disconnecting", "closing"}

MCNext ==
  /\ \/ setup = "serving" /\ Next
     \/ setup = "disconnecting" /\ Disconnecting!Next /\ Alone
     \/ setup = "closing" /\ Closing!Next /\ Alone
  /\ UNCHANGED setup

MCSpec == MCInit /\ [][MCNext]_<<vars, setup>> /\ Fairness

-----------------------------------------------------------------------------
(* What is promised to an application that neither sends to sessions by    *)
(* their identifiers nor shuts the server down, when clients come after    *)
(* Initialize.                                                             *)

Ordinary == setup # "closing"

\* A connection that was lost is closed (easy_baseserver.cpp:418).
OrdinaryLostIsClosed == Ordinary => LostIsClosed
=============================================================================
