SPECIFICATION VcpSpec
CONSTANTS
  Byte = {b1}
  RingSize = 2
  Marks = 1
  MaxChunk = 2
  GapUs = 0
  IdxMod = 4
  TsMod = 1
  DropMod = 3
  SeqNumMod = 1
  FifoRoom = 4
  StatusLen = 1
  DataOverhead = 2
  Gaps <- MCNoGap
PROPERTIES DropsReported BytesHandedOn
INVARIANTS BytesMeetReadyBoard
