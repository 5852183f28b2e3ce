SPECIFICATION StreamSpec
CONSTANTS
  Byte = {b1, b2}
  RingSize = 2
  Marks = 1
  MaxChunk = 2
  GapUs = 1
  IdxMod = 4
  TsMod = 4
  DropMod = 2
  SeqNumMod = 1
  MaxIdle = 4
  Gaps <- MCIdleGaps
PROPERTIES IdleGapOpensBurst
