\* Two connections and every rare failure, until a connection is given back twice.
CONSTANTS
  Conns = {c1, c2}
  Workers = {w1, w2}
  App = app
  Main = main
  InCtxs = {i1, i2}
  OutCtxs = {o1}
  NoConn = NoConn
  NoCtx = NoCtx
  IoRefMax = 0
  TotalMod = 1
  Faults = {"AcceptEx", "AcceptDone", "UpdateAccept", "DisconnectEx", "Oversize"}
  Eager = FALSE
SPECIFICATION Spec
SYMMETRY Symmetry
CONSTRAINT ListEnds
INVARIANTS
  IoRefsExact
  ContextsExclusive
PROPERTIES
  PartialSound
CHECK_DEADLOCK FALSE
