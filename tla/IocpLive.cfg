\* Liveness: two connections, one worker.
CONSTANTS
  Conns = {c1, c2}
  Workers = {w1}
  App = app
  Main = main
  InCtxs = {i1}
  OutCtxs = {o1}
  NoConn = NoConn
  NoCtx = NoCtx
  IoRefMax = 1
  TotalMod = 1
  Faults = {}
  Eager = FALSE
SPECIFICATION FairSpec
PROPERTIES
  DisconnectedIsFreed
  AcceptGoesOn
