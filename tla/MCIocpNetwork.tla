---------------------------- MODULE MCIocpNetwork ----------------------------
(* Model values and symmetry for the runs of IocpNetwork.                  *)
EXTENDS IocpNetwork, TLC

Symmetry ==
  Permutations(Conns) \cup Permutations(Workers)
    \cup Permutations(InCtxs) \cup Permutations(OutCtxs)
==============================================================================
