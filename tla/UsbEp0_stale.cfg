SPECIFICATION Spec
CONSTANTS
  MaxPacket = 8
  Setups <- MCSetups
  RetrySetups = {}
  Codings = {"c1"}
  Prompt = FALSE
INVARIANTS
  ReadIntact

