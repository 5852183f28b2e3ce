SPECIFICATION UsbSpec
CONSTANTS
  Byte = {b1}
  RingSize = 2
  Marks = 1
  MaxChunk = 1
  GapUs = 0
  IdxMod = 4
  TsMod = 1
  DropMod = 4
  SeqNumMod = 3
  Gaps <- MCNoGap
  Room = 3
  InFlight = 1
  StatusLen = 1
  DataLen = 2
INVARIANTS LossPending RingDropsReportedFirst SeqGapIsLoss HostKnows
PROPERTIES HostLearns
