CONSTANTS
  Bits = {1, 4}
  RegisterValues = {{}, {1, 4}}
  EnabledLines <- MCEnabledLines
  Shifters = {TRUE, FALSE}
  Drivers = {TRUE, FALSE}
  Careful = TRUE
  MaxChanges = 3
  MaxLoads = 2

SPECIFICATION Spec
INVARIANTS ServerUndisturbed InferiorSilenced GdbSeesInferior CleanExit
PROPERTY Transparent
