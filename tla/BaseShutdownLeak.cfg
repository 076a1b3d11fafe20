\* What shutdown leaves open.
CONSTANTS
  Conns = {c1}
  Sessions = {s1}
  MaxSession = 2
  NoConn = NoConn
  NoSession = NoSession
  DataMax = 0
  AppMax = 1
  AppCommands = {"SHUTDOWN"}
  Faults = {}
  EarlyClients = FALSE
SPECIFICATION FairSpec
PROPERTIES
  ShutdownClosesAll
CHECK_DEADLOCK FALSE
