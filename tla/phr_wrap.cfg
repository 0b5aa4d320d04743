SPECIFICATION Spec
CONSTANTS
  Payloads <- SamplePayloads
  Sfds = {167}
  WrongPhrs = {0, 1}
  Slips = {0}
  NoiseBytes = {0}
  BufferLens = {135}
  StaleBytes = {0}
  SizeRange = 65536
INVARIANT
  WritesInBuffer
