------------------------------ MODULE MCClients ------------------------------
(***************************************************************************)
(* The two ends of a client, which share nothing: EasyBaseClient, with a   *)
(* server that sends and closes or with one that cannot be reached or      *)
(* resets; and the client's connections of tcpnetwork.  Init chooses.      *)
(***************************************************************************)
EXTENDS BaseClient

CONSTANTS c1, Workers, NoConn

VARIABLES
  setup,
  life, conn, phase, acc, free, closes, inPool, outPool, th, tcpMain   \* of TcpNetwork

tcpVars == <<life, conn, phase, acc, free, closes, inPool, outPool, th, tcpMain>>

Failing == INSTANCE BaseClient WITH DataMax <- 1, ListMax <- 2, Faults <- {"Connect", "Reset"}

Tcp == INSTANCE TcpNetwork
         WITH Servers <- {}, Clients <- {c1}, IoRefMax <- 1, InMax <- 2, OutMax <- 1,
              TotalMod <- 4, CloseMax <- 0, Faults <- {}, Eager <- FALSE, main <- tcpMain

MCInit == Init /\ Tcp!Init /\ setup \in {"frame", "failing frame", "connections"}

MCNext ==
  /\ \/ setup = "frame" /\ Next /\ UNCHANGED tcpVars
     \/ setup = "failing frame" /\ Failing!Next /\ UNCHANGED tcpVars
     \/ setup = "connections" /\ Tcp!Next /\ UNCHANGED vars
  /\ UNCHANGED setup

MCSpec ==
  MCInit /\ [][MCNext]_<<vars, tcpVars, setup>> /\ Fairness /\ Tcp!Fairness

-----------------------------------------------------------------------------
\* A Connect is answered, a connection that failed or was disconnected is deleted, and
\* ~EasyWorker returns (easy_tcp.cpp).
ConnectionsEnd == Tcp!ConnectAnswered /\ Tcp!ClientsDeleted /\ Tcp!WorkerIsDeleted
=============================================================================
