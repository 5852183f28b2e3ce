SPECIFICATION Spec
CONSTANTS
  MaxPacket = 8
  Setups <- MCSetups
  RetrySetups <- MCRetrySetups
  Codings = {"c1"}
  Prompt = TRUE
INVARIANTS
  TypeOK
  ReadIntact
  HostIsServed
  NoSpuriousIn
  AddressAgrees
  LineCodingAgrees
  DescriptorsHonoured
PROPERTIES TransfersEnd
