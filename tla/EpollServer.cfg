\* Answers longer than the room in a socket.
CONSTANTS
  Conns = {c1, c2}
  c1 = c1
  Listener = Listener
  NoConn = NoConn
  MAXLINE = 2
  InputBuffer = 4
  Room = 2
  Request = 3
  Answer = 3
  Requests = 2
  Pipelined = FALSE
  Closes = "any"
SPECIFICATION MCSpec
INVARIANTS
  ConnectionsOK
  AnswersWhole
  StreamInOrder
PROPERTIES
  FollowsProtocol
  WaitingIsAnswered
CHECK_DEADLOCK FALSE
