SPECIFICATION Spec
CONSTANTS
  Calls = {"send", "option"}
  RxCalls = {"recv"}
  TxCalls = {}
  StartCalls = {}
  Toggle = {"RX_END", "TX_END"}
  BufferFits = {TRUE}
  MaxIsr = 2
  MaxNested = 0
INVARIANT
  PollingAlive
