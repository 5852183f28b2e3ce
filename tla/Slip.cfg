SPECIFICATION Spec
CONSTANTS
  ByteXor <- MCXor
  Payloads <- MCPayloads
  Noise <- MCNoise
  Room = 16
  MaxFrames = 3
  MaxDamage = 1
INVARIANTS DecodedWasSent DamageRejected IntactDecoded
CHECK_DEADLOCK FALSE
