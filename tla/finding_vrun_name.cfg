SPECIFICATION StartupSpec
CONSTANTS
  r1 = r1
  r2 = r2
  midi = midi
  stub = stub
  Machines = {0, 3, 4}
  JarSizes = {3, 4}
  Residents <- MCResidents
  MaxRoom = 2
  Extensions <- MCExtensions
  Options <- MCOptions
  BadOptions = {"--what"}
  ComWords = {"COM1"}
  Letters <- MCLetters
  RunArgs <- MCRunArgs
  Lines <- MCLines
SYMMETRY Symmetry
PROPERTY VRunTakesName
