\* Two connections and as many sessions; one piece of data in each use of a connection.
CONSTANTS
  Conns = {c1, c2}
  c1 = c1
  Sessions = {s1, s2}
  MaxSession = 2
  NoConn = NoConn
  NoSession = NoSession
  DataMax = 1
  AppMax = 1
  AppCommands = {}
  Faults = {}
  EarlyClients = FALSE
SPECIFICATION MCSpec
INVARIANTS
  SessionsOK
  ShutdownDisconnects
  NothingLost
  PointersSet
PROPERTIES
  SessionsFollowProtocol
  OrdinaryLostIsClosed
CHECK_DEADLOCK FALSE
