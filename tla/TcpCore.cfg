\* Server and client, every rare failure, torn down at any time.
CONSTANTS
  Servers = {s1}
  Clients = {c1}
  Workers = {w1, w2}
  NoConn = NoConn
  IoRefMax = 1
  InMax = 2
  OutMax = 1
  TotalMod = 4
  CloseMax = 2
  Faults = {"AcceptEx", "UpdateAccept", "ConnectEx", "UpdateConnect", "DisconnectEx", "Oversize"}
  Eager = FALSE
SPECIFICATION Spec
SYMMETRY Symmetry
INVARIANTS
  FreedUnused
PROPERTIES
  FollowsProtocol
CHECK_DEADLOCK FALSE
