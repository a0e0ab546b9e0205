SPECIFICATION FairSpec
CONSTANTS
  MaxLoads = 2
  MaxDepth = 2
  Windows <- WayBack
  DropChoices = {FALSE, TRUE}
  MultiChoices = {FALSE, TRUE}
INVARIANTS
  TypeOK
  BreakMeansExecuting
  StartBreakKnown
PROPERTIES
  ImplementsLifecycle
  OnePacketPerRequest
  QuitEndsServer
