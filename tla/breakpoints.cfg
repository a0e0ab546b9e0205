SPECIFICATION Spec
CONSTANTS
  NumMempoints = 2
  TextStart = 4
  BssEnd = 10
  TrapWords = {8}
  Targets <- AnyTarget
  Writable = {4, 6}
INVARIANTS MemoryMatchesTable 
PROPERTY NoInstructionSkipped
