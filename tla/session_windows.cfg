SPECIFICATION Spec
CONSTANTS
  MaxLoads = 2
  MaxDepth = 3
  Windows <- AllWindows
  DropChoices = {TRUE}
  MultiChoices = {FALSE, TRUE}
INVARIANTS
  MemoryOwnership
  OneExecution
  CtrlCDiscipline
  CleanExit
