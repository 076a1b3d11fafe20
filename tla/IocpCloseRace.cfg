\* The application disconnects between OnConnection and the first receive.
CONSTANTS
  Conns = {c1}
  Workers = {w1, w2}
  App = app
  Main = main
  InCtxs = {i1, i2}
  OutCtxs = {o1, o2}
  NoConn = NoConn
  NoCtx = NoCtx
  IoRefMax = 0
  TotalMod = 1
  Faults = {}
  Eager = TRUE
SPECIFICATION Spec
SYMMETRY Symmetry
INVARIANTS
  CloseAssertion
CHECK_DEADLOCK FALSE
