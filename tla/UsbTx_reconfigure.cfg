SPECIFICATION Spec
CONSTANTS
  a1 = a1
  a2 = a2
  b1 = b1
  b2 = b2
  b3 = b3
  Byte = {a1, a2, b1, b2, b3}
  Frames <- MCFrames
  Room = 6
  MaxPacket = 2
PROPERTIES SessionStartsWithFrame
