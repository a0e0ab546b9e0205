SPECIFICATION Spec
CONSTANTS
  HeaderLen = 2
  CpuLen = 3
  FpuLen = 3
  FooterLen = 1
  PacketSize = 6
  MaxRead = 3
  ReadLens <- MCReadLens
  CpuTypes = {0, 30}
  MaxChanges = 2
  MaxCopies = 1
INVARIANT DescriptionIntact
PROPERTIES DescriptionArrives ImplementsRegisterFile
