SPECIFICATION Spec
CONSTANTS
  Byte = {b1, b2}
  Cap = 4
INVARIANTS TypeOK PushNeverOverruns
PROPERTIES FifoImplementsQueue
