\* Pieces of data, sends that fail; one connection and two worker threads.
CONSTANTS
  DataMax = 2
  ListMax = 4
  SendMax = 1
  Faults = {}
  c1 = c1
  Workers = {w1, w2}
  NoConn = NoConn
SPECIFICATION MCSpec
INVARIANTS
  NothingLost
PROPERTIES
  FollowsProtocol
  LogoutEnds
  ConnectionsEnd
CHECK_DEADLOCK FALSE
