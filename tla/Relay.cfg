SPECIFICATION Spec
CONSTANTS
  Byte = {b1}
  RingSize = 3
  Marks = 2
  MaxChunk = 2
  GapUs = 0
  IdxMod = 6
  TsMod = 2
  DropMod = 2
  SeqNumMod = 1
  Gaps <- MCGaps
INVARIANTS TypeOK Occupancy MarksOrdered FrameNeverEmpty OneBurstPerFrame
