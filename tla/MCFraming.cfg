SPECIFICATION Spec
CONSTANTS
  Message <- Payloads
  Malformed = Malformed
  MaxSent = 4
  BufferSize = 8
INVARIANTS
  NothingHeldBack
  
PROPERTIES
  ImplementsChannel
CHECK_DEADLOCK FALSE
