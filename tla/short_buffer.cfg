SPECIFICATION Spec
CONSTANTS
  Payloads <- SamplePayloads
  Sfds = {167}
  WrongPhrs = {}
  Slips = {0}
  NoiseBytes = {0}
  BufferLens = {127, 300}
  StaleBytes = {167}
  SizeRange = 65536
INVARIANT
  TruthfulRecv
