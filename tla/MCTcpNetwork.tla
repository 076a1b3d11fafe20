---------------------------- MODULE MCTcpNetwork ----------------------------
(* Symmetry for the runs of TcpNetwork.                                    *)
EXTENDS TcpNetwork, TLC

Symmetry == Permutations(Servers) \cup Permutations(Clients) \cup Permutations(Workers)
==============================================================================
