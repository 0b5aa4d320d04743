SPECIFICATION Spec
CONSTANTS
  Calls = {"sleep"}
  RxCalls = {"recv"}
  TxCalls = {}
  StartCalls = {}
  Toggle = {}
  BufferFits = {TRUE}
  MaxIsr = 2
  MaxNested = 0
INVARIANT
  SleepStopsPolling
