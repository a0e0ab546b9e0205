SPECIFICATION ReceiveFairSpec
CONSTANTS
  SccBufferLength = 4
  Bytes <- Line
  InFlight = 2
INVARIANTS
  LossBounded
PROPERTIES
  ImplementsInputQueue
  SenderReleased
