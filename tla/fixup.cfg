CONSTANTS
  HeaderSize = 28
  MaxFix = 254
  TextOffsets = {0, 2, 256}
  DataOffsets = {510, 520}
  MaxText = 3
  MaxData = 1
  Images <- MCImages

SPECIFICATION Spec
INVARIANTS ProgramLoads ResultIsTrue
PROPERTY Terminates
