SPECIFICATION Spec
CONSTANTS
  Payloads <- SamplePayloads
  Sfds <- UpToTwoWrongBits
  WrongPhrs = {0, 1, 2, 20, 133, 191, 192, 255}
  Slips = {0, 1, 2}
  NoiseBytes = {0, 211}
  BufferLens = {135, 255}
  StaleBytes = {0, 167}
  SizeRange = 65536
INVARIANTS
  TruthfulRecv
  SfdTolerance
  FootprintBounded
