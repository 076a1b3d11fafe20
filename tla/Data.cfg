\* Packets of up to half the buffer, in pieces of up to all of it; streams of 24 bytes,
\* counted in 5 bits; a log that two long messages fill; arrays of two slots in the object,
\* whose block grows to five.
CONSTANTS
  PacketHead = 2
  BufSize = 8
  PacketMax = 5
  PieceMax = 8
  Ahead = 4
  Fields <- FieldsOfChat
  FieldsMax = 3
  MaxOutput = 24
  W16 = 32
  MaxSize = 7
  Wrap = 8
  Lengths = {1, 4, 5}
  MessagesMax = 5
  N = 2
  Elements = {"a", "0"}
  Zero = "0"
  Raw = "raw"
  Data <- Words
  Resizes = {0, 2, 3, 5}
  SizeMax = 5
SPECIFICATION MCSpec
INVARIANTS
  Framed
  Taken
  WrittenInOrder
PROPERTIES
  ArraysOK
  DataGoesOn
CHECK_DEADLOCK FALSE
