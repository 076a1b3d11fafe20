\* Packets of up to the size of the buffer.
CONSTANTS
  PacketHead = 2
  BufSize = 8
  PacketMax = 8
  PieceMax = 8
  Ahead = 4
SPECIFICATION Spec
INVARIANTS
  BufferBounded
