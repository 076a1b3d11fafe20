\* Messages of up to four bytes, through a socket of two; four connections, two threads.
CONSTANTS
  Chars = {"a", "b"}
  Message = 4
  MAXLINE = 2
  Length = 3
  Beyond = 1
  Room = 2
  RecvSize = 2
  Request = 1
  Requests = 3
  Sends = 3
  Conns = {c1, c2, c3, c4}
  Pair = {c1, c2}
  NoConn = NoConn
  Workers = {w1, w2}
  Caller = Caller
SPECIFICATION MCSpec
CHECK_DEADLOCK FALSE
INVARIANTS
  EchoInOrder
  SemHeld
  Attended
PROPERTIES
  InputTaken
