---------------------------- MODULE MCEpollServer ----------------------------
(***************************************************************************)
(* The epoll server in three setups, of which Init chooses one: two        *)
(* clients that ask once; one client that asks twice; one client that asks *)
(* twice and may close at any time, with answers that fill its socket more *)
(* than twice.  The constants of the .cfg are the largest of each.         *)
(***************************************************************************)
EXTENDS EpollServer

CONSTANT c1      \* the one client

VARIABLE setup

Two == INSTANCE EpollServer WITH Requests <- 1, Closes <- "answered"

Again == INSTANCE EpollServer WITH Closes <- "answered"

Leaving == INSTANCE EpollServer WITH Room <- 1

Alone == \A c \in Conns \ {c1} : client'[c] = "away"

\* The two clients are alike: c1 is the one that connects first.
InOrder == \A c \in Conns : client'[c] # "away" => client'[c1] # "away"

MCInit == Init /\ setup \in {"two", "again", "leaving"}

MCNext ==
  /\ \/ setup = "two" /\ Two!Next /\ InOrder
     \/ setup = "again" /\ Again!Next /\ Alone
     \/ setup = "leaving" /\ Leaving!Next /\ Alone
  /\ UNCHANGED setup

MCSpec == MCInit /\ [][MCNext]_<<vars, setup>> /\ Fairness

-----------------------------------------------------------------------------
\* Unless a command is forgotten: clients that close when they were answered are answered,
\* the second request included (easy_connection.cpp:409-417, 434-442), and a connection
\* that its client has closed is reported and deleted (easy_connection.cpp:331-336).
WaitingIsAnswered == setup # "leaving" /\ NoneForgotten => IsAnswered /\ LostIsReported
=============================================================================
