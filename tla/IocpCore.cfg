\* Two connections, two workers, no rare failure.
CONSTANTS
  Conns = {c1, c2}
  Workers = {w1, w2}
  App = app
  Main = main
  InCtxs = {i1, i2}
  OutCtxs = {o1, o2}
  NoConn = NoConn
  NoCtx = NoCtx
  IoRefMax = 1
  TotalMod = 1
  Faults = {}
  Eager = FALSE
SPECIFICATION Spec
SYMMETRY Symmetry
INVARIANTS
  TypeOK
  IoRefsExact
  ContextsConserved
  AcceptorSound
  Recycled
  OneReceive
  DisconnectOnce
  IoRefsBounded
PROPERTIES
  ImplementsHandlerProtocol
