SPECIFICATION TransmitFairSpec
CONSTANTS
  SccBufferLength = 4
  Bytes <- TwoBytes
INVARIANTS
  NoLostWakeup
PROPERTIES
  ImplementsOutputQueue
  Drains
