SPECIFICATION Spec
CONSTANTS
  Calls = {"send"}
  RxCalls = {"recv"}
  TxCalls = {}
  StartCalls = {}
  Toggle = {}
  BufferFits = {TRUE}
  MaxIsr = 2
  MaxNested = 0
INVARIANT
  FrameIsAired
