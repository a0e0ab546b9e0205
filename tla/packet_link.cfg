SPECIFICATION FairSpec
CONSTANTS
  NumRequests = 3
  SkipAck <- Second
  TxRoom = 2
  MaxFaults = 2
  MaxDrops = 1
  MaxKeys = 1
INVARIANT ExecutedOnce
PROPERTIES ImplementsRemoteCall RequestsAnswered QuitKeyHeard
